--------------------------- MODULE SemanticsProofs ---------------------------
(***************************************************************************)
(* Proofs that the semantics layer, which reads the header lines one by    *)
(* one and carries a few flags between them, decides what the reference    *)
(* says of the lines as a whole: for every message.                        *)
(***************************************************************************)
EXTENDS SemanticsReference, FiniteSetTheorems, SequenceTheorems, TLAPS

TE == "transfer-encoding"
CL == "content-length"

Flags == {"has_te", "has_cl", "chunked", "has_host", "has_upgrade", "has_expect", "has_trailer",
          "connection_close", "connection_keep_alive", "connection_upgrade"}

(* "0" is a string, which the provers do not know.                         *)
Lengths == STRING \cup {"0"}

MessageType == [kind : {"NONE", REQUEST, RESPONSE}, version : {"1.0", "1.1"},
                status_code : Codes(REQUEST) \cup StatusCodes,
                headers : Seq(Field), reject_te_cl : BOOLEAN]

OutType == [body_mode : {IHTP_BODY_NONE, IHTP_BODY_FIXED, IHTP_BODY_CHUNKED, IHTP_BODY_EOF},
            content_length : Lengths, keep_alive : BOOLEAN, protocol_upgrade : BOOLEAN,
            expects_continue : BOOLEAN, has_trailer_fields : BOOLEAN]

LocType == [set : SUBSET Flags, chunked_count : Nat, content_length : Lengths]

TypeOK ==
  /\ message \in MessageType
  /\ out \in OutType
  /\ pc \in {"ready", "fields", "done"}
  /\ pc # "ready" => message.kind \in {REQUEST, RESPONSE}
  /\ i \in Nat \ {0}
  /\ loc \in LocType
  /\ clears \in ClearsOutputs

-----------------------------------------------------------------------------
(* The lines of a field that the loop has passed.                          *)
Passed(name) == {j \in Lines(name) : j < i}

LastPassed(j, name) == j \in Passed(name) /\ \A k \in Passed(name) : k <= j

(* Where chunked is listed in line j.                                      *)
Spots(j) == {n \in 1..Len(ValueOf(j)) : ValueOf(j)[n] = "chunked"}

(* What the loop knows of the lines of each field that it has passed.      *)
KnowsCodings ==
  /\ "has_te" \in loc.set <=> Passed(TE) # {}
  /\ \A j \in Passed(TE) : ValidCodings(ValueOf(j))
  /\ "chunked" \in loc.set <=> \E j \in Passed(TE) : LastPassed(j, TE) /\ ends_with_chunked(ValueOf(j))
  /\ loc.chunked_count = 0 <=> \A j \in Passed(TE) : Spots(j) = {}
  /\ loc.chunked_count <= 1 <=>
       \A j, k \in Passed(TE) : \A n \in Spots(j), m \in Spots(k) : j = k /\ n = m

KnowsLength ==
  /\ "has_cl" \in loc.set <=> Passed(CL) # {}
  /\ \A j \in Passed(CL) : ValueOf(j) = <<loc.content_length>> /\ ValueOf(j) # <<"bad">>

KnowsConnection ==
  /\ \A j \in Passed("connection") : ValidList(ValueOf(j))
  /\ "connection_close" \in loc.set <=> \E j \in Passed("connection") : Has("close", ValueOf(j))
  /\ "connection_keep_alive" \in loc.set <=> \E j \in Passed("connection") : Has("keep-alive", ValueOf(j))
  /\ "connection_upgrade" \in loc.set <=> \E j \in Passed("connection") : Has("upgrade", ValueOf(j))

KnowsUpgrade ==
  /\ \A j \in Passed("upgrade") : IsToken(ValueOf(j))
  /\ "has_upgrade" \in loc.set <=> Passed("upgrade") # {}

KnowsHost ==
  message.kind = REQUEST =>
    /\ \A j, k \in Passed("host") : j = k /\ ValueOf(j) # <<>>
    /\ "has_host" \in loc.set <=> Passed("host") # {}

KnowsExpect ==
  message.kind = REQUEST =>
    /\ \A j \in Passed("expect") : ValueOf(j) # <<>>
    /\ "has_expect" \in loc.set <=> Passed("expect") # {}
    /\ "has_expect" \in loc.set =>
         (out.expects_continue <=>
            \E j \in Passed("expect") : LastPassed(j, "expect") /\ ValueOf(j) = <<"100-continue">>)

KnowsTrailer ==
  /\ \A j \in Passed("trailer") : ValidList(ValueOf(j))
  /\ "has_trailer" \in loc.set <=> Passed("trailer") # {}

Knows ==
  pc = "fields" =>
    /\ i <= Len(message.headers) + 1
    /\ KnowsCodings /\ KnowsLength /\ KnowsConnection /\ KnowsUpgrade
    /\ KnowsHost /\ KnowsExpect /\ KnowsTrailer

(* Responses are parsed into cleared structs.                              *)
FreshResponses == \A c \in ClearsOutputs : ~c => RESPONSE \notin Kinds(c)

(* Then a response's keep_alive starts out false.                          *)
StartsClosed ==
  /\ pc = "ready" /\ clears => ~out.keep_alive
  /\ pc = "fields" /\ message.kind = RESPONSE /\ FreshResponses => ~out.keep_alive

IInv ==
  /\ TypeOK /\ Knows /\ StartsClosed
  /\ AcceptedIffWellFormed /\ FramingFollowsRFC /\ SignalsFollowMessage
  /\ FreshResponses => PersistenceFollowsRFC

-----------------------------------------------------------------------------
LEMMA SmallSets ==
  ASSUME NEW S, IsFiniteSet(S)
  PROVE  /\ Cardinality(S) \in Nat
         /\ Cardinality(S) = 0 <=> S = {}
         /\ Cardinality(S) <= 1 <=> \A x, y \in S : x = y
<1>1. Cardinality(S) \in Nat /\ (Cardinality(S) = 0 <=> S = {})
  BY FS_CardinalityType, FS_EmptySet
<1>2. ASSUME Cardinality(S) <= 1 PROVE \A x, y \in S : x = y
  <2>1. CASE Cardinality(S) = 0
    BY <1>1, <2>1
  <2>2. CASE Cardinality(S) = 1
    <3>1. \E x : S = {x}
      BY <2>2, FS_Singleton
    <3> QED BY <3>1
  <2> QED BY <1>1, <1>2, <2>1, <2>2
<1>3. ASSUME \A x, y \in S : x = y PROVE Cardinality(S) <= 1
  <2>1. CASE S = {}
    BY <1>1, <2>1
  <2>2. CASE S # {}
    <3>1. PICK x : x \in S
      BY <2>2
    <3>2. S = {x}
      BY <1>3, <3>1
    <3>3. Cardinality(S) = 1
      BY <3>2, FS_Singleton
    <3> QED BY <3>3
  <2> QED BY <2>1, <2>2
<1> QED BY <1>1, <1>2, <1>3

LEMMA SpotsFinite ==
  ASSUME NEW j, ValueOf(j) \in Seq(STRING)
  PROVE  IsFiniteSet(Spots(j)) /\ chunked_count(ValueOf(j)) = Cardinality(Spots(j))
<1>1. Len(ValueOf(j)) \in Nat
  BY LenProperties
<1>2. IsFiniteSet(1..Len(ValueOf(j)))
  BY <1>1, FS_Interval
<1>3. Spots(j) \subseteq 1..Len(ValueOf(j))
  BY DEF Spots
<1> QED BY <1>2, <1>3, FS_Subset DEF Spots, chunked_count

LEMMA Kinds2 == REQUEST # RESPONSE /\ REQUEST # "NONE" /\ RESPONSE # "NONE"
  BY DEF REQUEST, RESPONSE

LEMMA LineTyped ==
  ASSUME TypeOK, NEW name, NEW j \in Lines(name)
  PROVE  j \in Nat /\ j >= 1 /\ message.headers[j].name = name /\ ValueOf(j) \in Seq(STRING) /\ Len(ValueOf(j)) \in Nat
<1>1. message.headers \in Seq(Field) /\ Len(message.headers) \in Nat
  BY LenProperties DEF TypeOK, MessageType
<1>2. message.headers[j] \in Field /\ j \in Nat /\ j >= 1
  BY <1>1, LenProperties DEF Lines
<1>3. ValueOf(j) \in Seq(STRING)
  BY <1>2 DEF Field, ValueOf
<1> QED BY <1>2, <1>3, LenProperties DEF Lines

-----------------------------------------------------------------------------
(* What the reference says depends on the message alone.                   *)
LEMMA SameMessage ==
  ASSUME message' = message
  PROVE  /\ \A j : ValueOf(j)' = ValueOf(j) /\ Spots(j)' = Spots(j)
         /\ \A name : Lines(name)' = Lines(name)
         /\ (WellFormed' <=> WellFormed) /\ RFCBody' = RFCBody
         /\ (LenientBoth' <=> LenientBoth)
  BY DEF ValueOf, Spots, Lines, WellFormed, RFCBody, LenientBoth, Present, Lists, FinalChunked, IsLast

LEMMA RefusePreserves ==
  ASSUME IInv, pc = "fields", Refuse, ~WellFormed
  PROVE  IInv'
<1> USE DEF Refuse
<1>1. TypeOK'
  BY DEF IInv, TypeOK
<1>2. Knows' /\ StartsClosed'
  BY DEF Knows, StartsClosed
<1>3. AcceptedIffWellFormed'
  BY SameMessage DEF AcceptedIffWellFormed, Answered
<1>4. FramingFollowsRFC' /\ PersistenceFollowsRFC' /\ SignalsFollowMessage'
  BY DEF FramingFollowsRFC, PersistenceFollowsRFC, SignalsFollowMessage, Accepted
<1> QED BY <1>1, <1>2, <1>3, <1>4 DEF IInv

-----------------------------------------------------------------------------
(* The loop takes line i.                                                  *)
Moves ==
  /\ pc = "fields" /\ i <= Len(message.headers)
  /\ message' = message /\ i' = i + 1 /\ pc' = pc /\ clears' = clears

LEMMA PassedGrows ==
  ASSUME TypeOK, Moves, NEW name
  PROVE  /\ field.name = name  => /\ Passed(name)' = Passed(name) \cup {i}
                                  /\ \A j : LastPassed(j, name)' <=> j = i
         /\ field.name # name => /\ Passed(name)' = Passed(name)
                                 /\ \A j : LastPassed(j, name)' <=> LastPassed(j, name)
         /\ i \notin Passed(name)
<1>1. /\ i \in Nat /\ i >= 1 /\ i' = i + 1 /\ Len(message.headers) \in Nat
      /\ i \in 1..Len(message.headers)
  BY LenProperties DEF TypeOK, Moves
<1>2. Lines(name)' = Lines(name) /\ \A j \in Lines(name) : j \in Nat
  BY SameMessage, LineTyped DEF Moves
<1>3. Passed(name)' = {j \in Lines(name) : j < i + 1}
  BY <1>1, <1>2 DEF Passed
<1>4. Passed(name)' = Passed(name) \cup {j \in Lines(name) : j = i}
  BY <1>1, <1>2, <1>3 DEF Passed
<1>5. i \in Lines(name) <=> field.name = name
  BY <1>1 DEF Lines, field
<1>6. \A j : LastPassed(j, name)' <=> j \in Passed(name)' /\ \A k \in Passed(name)' : k <= j
  BY DEF LastPassed
<1>7. \A j \in Passed(name) : j \in Nat /\ j < i
  BY <1>2 DEF Passed
<1>8. CASE field.name = name
  <2>1. Passed(name)' = Passed(name) \cup {i}
    BY <1>4, <1>5, <1>8
  <2>2. \A j : LastPassed(j, name)' <=> j = i
    <3> DEFINE Q == Passed(name)
    <3>1. \A j : LastPassed(j, name)' <=> j \in Q \cup {i} /\ \A k \in Q \cup {i} : k <= j
      BY <1>6, <2>1
    <3> HIDE DEF Q
    <3>2. \A j \in Q : j \in Nat /\ j < i
      BY <1>7 DEF Q
    <3>3. \A j : j \in Q => ~(i <= j)
      BY <1>1, <3>2
    <3>4. \A k \in Q \cup {i} : k <= i
      BY <1>1, <3>2
    <3> QED BY <3>1, <3>3, <3>4, Zenon
  <2> QED BY <1>1, <1>7, <1>8, <2>1, <2>2
<1>9. CASE field.name # name
  <2>1. Passed(name)' = Passed(name)
    BY <1>4, <1>5, <1>9
  <2> QED BY <1>1, <1>6, <1>7, <1>9, <2>1 DEF LastPassed
<1> QED BY <1>8, <1>9

(* What the loop knows of the other fields stays true.                     *)
LEMMA KeepsCodings ==
  ASSUME TypeOK, Moves, KnowsCodings, field.name # TE,
         "has_te" \in loc'.set <=> "has_te" \in loc.set,
         "chunked" \in loc'.set <=> "chunked" \in loc.set,
         loc'.chunked_count = loc.chunked_count
  PROVE  KnowsCodings'
<1>1. Passed(TE)' = Passed(TE) /\ \A j : LastPassed(j, TE)' <=> LastPassed(j, TE)
  BY PassedGrows
<1>2. \A j : ValueOf(j)' = ValueOf(j) /\ Spots(j)' = Spots(j)
  BY SameMessage DEF Moves
<1> QED BY <1>1, <1>2 DEF KnowsCodings

LEMMA KeepsLength ==
  ASSUME TypeOK, Moves, KnowsLength, field.name # CL,
         "has_cl" \in loc'.set <=> "has_cl" \in loc.set,
         loc'.content_length = loc.content_length
  PROVE  KnowsLength'
  BY PassedGrows, SameMessage DEF KnowsLength, Moves

LEMMA KeepsConnection ==
  ASSUME TypeOK, Moves, KnowsConnection, field.name # "connection",
         \A f \in {"connection_close", "connection_keep_alive", "connection_upgrade"} :
           f \in loc'.set <=> f \in loc.set
  PROVE  KnowsConnection'
<1>1. Passed("connection")' = Passed("connection") /\ \A j : ValueOf(j)' = ValueOf(j)
  BY PassedGrows, SameMessage DEF Moves
<1> QED BY <1>1 DEF KnowsConnection

LEMMA KeepsUpgrade ==
  ASSUME TypeOK, Moves, KnowsUpgrade, field.name # "upgrade",
         "has_upgrade" \in loc'.set <=> "has_upgrade" \in loc.set
  PROVE  KnowsUpgrade'
  BY PassedGrows, SameMessage DEF KnowsUpgrade, Moves

LEMMA KeepsHost ==
  ASSUME TypeOK, Moves, KnowsHost, field.name # "host" \/ message.kind # REQUEST,
         "has_host" \in loc'.set <=> "has_host" \in loc.set
  PROVE  KnowsHost'
  BY PassedGrows, SameMessage DEF KnowsHost, Moves

LEMMA KeepsExpect ==
  ASSUME TypeOK, Moves, KnowsExpect, field.name # "expect" \/ message.kind # REQUEST,
         "has_expect" \in loc'.set <=> "has_expect" \in loc.set, out' = out
  PROVE  KnowsExpect'
<1>1. message'.kind = message.kind /\ \A j : ValueOf(j)' = ValueOf(j)
  BY SameMessage DEF Moves
<1>2. CASE field.name # "expect"
  <2>1. /\ Passed("expect")' = Passed("expect")
        /\ \A j : LastPassed(j, "expect")' <=> LastPassed(j, "expect")
    BY <1>2, PassedGrows
  <2> QED BY <1>1, <2>1 DEF KnowsExpect
<1>3. CASE message.kind # REQUEST
  BY <1>1, <1>3 DEF KnowsExpect
<1> QED BY <1>2, <1>3

LEMMA KeepsTrailer ==
  ASSUME TypeOK, Moves, KnowsTrailer, field.name # "trailer",
         "has_trailer" \in loc'.set <=> "has_trailer" \in loc.set
  PROVE  KnowsTrailer'
  BY PassedGrows, SameMessage DEF KnowsTrailer, Moves

(* A line taken preserves the invariant once it leaves the loop knowing    *)
(* what it should.                                                         *)
LEMMA MovesPreserves ==
  ASSUME IInv, Moves,
         loc' \in LocType,
         out' \in OutType,
         out'.keep_alive = out.keep_alive,
         KnowsCodings', KnowsLength', KnowsConnection', KnowsUpgrade', KnowsHost', KnowsExpect',
         KnowsTrailer'
  PROVE  IInv'
<1>1. TypeOK'
  BY DEF IInv, TypeOK, Moves
<1>2. Knows'
  <2>1. i' <= Len(message'.headers) + 1
    BY LenProperties DEF IInv, TypeOK, Moves
  <2> QED BY <2>1 DEF Knows
<1>3. StartsClosed'
  BY DEF IInv, StartsClosed, Moves
<1>4. AcceptedIffWellFormed' /\ FramingFollowsRFC' /\ PersistenceFollowsRFC' /\ SignalsFollowMessage'
  BY DEF AcceptedIffWellFormed, FramingFollowsRFC, PersistenceFollowsRFC, SignalsFollowMessage,
     Accepted, Answered, Moves
<1> QED BY <1>1, <1>2, <1>3, <1>4 DEF IInv

-----------------------------------------------------------------------------
(* The loop is at a line of field name.                                    *)
LEMMA AtLine ==
  ASSUME IInv, NEW name, At(name)
  PROVE  /\ TypeOK /\ pc = "fields" /\ i <= Len(message.headers) /\ field.name = name
         /\ i \in Lines(name) /\ ValueOf(i) = field.value
         /\ field.value \in Seq(STRING) /\ Len(field.value) \in Nat
         /\ KnowsCodings /\ KnowsLength /\ KnowsConnection /\ KnowsUpgrade
         /\ KnowsHost /\ KnowsExpect /\ KnowsTrailer
<1>1. TypeOK /\ pc = "fields" /\ i <= Len(message.headers) /\ field.name = name
  BY DEF IInv, At
<1>2. i \in 1..Len(message.headers) /\ ValueOf(i) = field.value
  BY <1>1, LenProperties DEF TypeOK, ValueOf, field
<1>3. i \in Lines(name)
  BY <1>1, <1>2 DEF Lines, field
<1>4. ValueOf(i) \in Seq(STRING) /\ Len(ValueOf(i)) \in Nat
  BY <1>1, <1>3, LineTyped
<1> QED BY <1>1, <1>2, <1>3, <1>4 DEF IInv, Knows

LEMMA TakeMoves ==
  ASSUME IInv, NEW name, At(name), NEW locals, Take(locals)
  PROVE  Moves /\ loc' = locals /\ out' = out
  BY DEF Take, Moves, At

LEMMA TransferEncodingPreserves ==
  ASSUME IInv, TransferEncoding
  PROVE  IInv'
<1>0. At(TE) /\ TE = "transfer-encoding"
  BY DEF TransferEncoding, TE
<1>1. CASE ~ValidCodings(field.value) /\ Refuse
  <2>1. ~WellFormed
    BY <1>0, <1>1, AtLine DEF WellFormed, ValidCodings, Lists
  <2> QED BY <1>0, <1>1, <2>1, RefusePreserves, AtLine
<1>2. CASE ValidCodings(field.value) /\ Take(TransferEncodingLocals)
  <2>1. Moves /\ loc' = TransferEncodingLocals /\ out' = out
    BY <1>0, <1>2, TakeMoves
  <2> DEFINE c == chunked_count(field.value)
             last == ends_with_chunked(field.value)
  <2>2. c = Cardinality(Spots(i)) /\ IsFiniteSet(Spots(i)) /\ c \in Nat
    BY <1>0, AtLine, SpotsFinite, SmallSets
  <2>3. /\ loc'.set = (loc.set \ {"chunked"}) \cup {"has_te"} \cup (IF last THEN {"chunked"} ELSE {})
        /\ loc'.chunked_count = loc.chunked_count + c
        /\ loc'.content_length = loc.content_length
        /\ loc.chunked_count \in Nat /\ loc.set \in SUBSET Flags /\ loc.content_length \in Lengths
    BY <2>1 DEF TransferEncodingLocals, IInv, TypeOK, LocType
  <2>4. loc' \in LocType
    <3>1. loc'.set \in SUBSET Flags
      BY <2>3 DEF Flags
    <3> HIDE DEF c
    <3> QED BY <2>1, <2>2, <2>3, <3>1 DEF TransferEncodingLocals, LocType
  <2>5. /\ "has_te" \in loc'.set /\ ("chunked" \in loc'.set <=> last)
        /\ \A f \in Flags \ {"has_te", "chunked"} : f \in loc'.set <=> f \in loc.set
    BY <2>3
  <2>6. KnowsCodings'
    <3>1. /\ Passed(TE)' = Passed(TE) \cup {i} /\ i \notin Passed(TE)
          /\ \A j : LastPassed(j, TE)' <=> j = i
      BY <1>0, <2>1, PassedGrows, AtLine
    <3>2. \A j : ValueOf(j)' = ValueOf(j) /\ Spots(j)' = Spots(j)
      BY <2>1, SameMessage DEF Moves
    <3>3. ValueOf(i) = field.value /\ KnowsCodings
      BY <1>0, AtLine
    <3>4. \A j \in Passed(TE)' : ValidCodings(ValueOf(j)')
      BY <1>2, <3>1, <3>2, <3>3 DEF KnowsCodings
    <3>5. "chunked" \in loc'.set <=>
             \E j \in Passed(TE)' : LastPassed(j, TE)' /\ ends_with_chunked(ValueOf(j)')
      BY <2>5, <3>1, <3>2, <3>3
    <3>6. (c = 0 <=> Spots(i) = {}) /\ (c <= 1 <=> \A x, y \in Spots(i) : x = y)
      BY <2>2, SmallSets
    <3>7. loc'.chunked_count = 0 <=> \A j \in Passed(TE)' : Spots(j)' = {}
      <4>1. loc'.chunked_count = 0 <=> loc.chunked_count = 0 /\ c = 0
        BY <2>2, <2>3
      <4> QED BY <3>1, <3>2, <3>3, <3>6, <4>1 DEF KnowsCodings
    <3>8. loc'.chunked_count <= 1 <=>
             \A j, k \in Passed(TE)' : \A n \in Spots(j)', m \in Spots(k)' : j = k /\ n = m
      <4>1. loc'.chunked_count <= 1 <=> \/ loc.chunked_count <= 1 /\ c = 0
                                        \/ loc.chunked_count = 0 /\ c <= 1
        BY <2>2, <2>3
      <4> DEFINE Q == Passed(TE)
                 one(A) == \A j, k \in A : \A n \in Spots(j), m \in Spots(k) : j = k /\ n = m
      <4>2. /\ loc.chunked_count = 0 <=> \A j \in Q : Spots(j) = {}
            /\ loc.chunked_count <= 1 <=> one(Q)
        BY <3>3 DEF KnowsCodings
      <4>3. one(Q \cup {i}) <=> \/ one(Q) /\ Spots(i) = {}
                                \/ (\A j \in Q : Spots(j) = {}) /\ \A x, y \in Spots(i) : x = y
        <5> HIDE DEF Q
        <5>1. i \notin Q
          BY <3>1 DEF Q
        <5>2. ASSUME one(Q \cup {i}), Spots(i) # {}
              PROVE  (\A j \in Q : Spots(j) = {}) /\ \A x, y \in Spots(i) : x = y
          BY <5>1, <5>2
        <5>3. ASSUME one(Q), Spots(i) = {} PROVE one(Q \cup {i})
          BY <5>3
        <5>4. ASSUME \A j \in Q : Spots(j) = {}, \A x, y \in Spots(i) : x = y
              PROVE  one(Q \cup {i})
          BY <5>4
        <5>5. one(Q \cup {i}) => one(Q)
          OBVIOUS
        <5> HIDE DEF one
        <5> QED BY <5>2, <5>3, <5>4, <5>5
      <4>4. one(Q \cup {i}) <=>
               \A j, k \in Passed(TE)' : \A n \in Spots(j)', m \in Spots(k)' : j = k /\ n = m
        BY <3>1, <3>2
      <4> HIDE DEF one, Q, c
      <4> QED BY <3>6, <4>1, <4>2, <4>3, <4>4
    <3>9. "has_te" \in loc'.set <=> Passed(TE)' # {}
      BY <2>5, <3>1
    <3> QED BY <3>4, <3>5, <3>7, <3>8, <3>9 DEF KnowsCodings
  <2>7. KnowsLength' /\ KnowsConnection' /\ KnowsUpgrade' /\ KnowsHost' /\ KnowsExpect' /\ KnowsTrailer'
    BY <1>0, <2>1, <2>3, <2>5, AtLine, KeepsLength, KeepsConnection, KeepsUpgrade, KeepsHost,
       KeepsExpect, KeepsTrailer DEF Flags, CL
  <2> QED BY <2>1, <2>4, <2>6, <2>7, MovesPreserves DEF IInv, TypeOK
<1> QED BY <1>1, <1>2 DEF TransferEncoding

LEMMA SetTyped ==
  ASSUME TypeOK, NEW flags \in SUBSET Flags
  PROVE  /\ Set(flags) \in LocType
         /\ Set(flags).set = loc.set \cup flags
         /\ Set(flags).chunked_count = loc.chunked_count
         /\ Set(flags).content_length = loc.content_length
<1>1. loc \in LocType
  BY DEF TypeOK
<1> QED BY <1>1 DEF Set, LocType

LEMMA ContentLengthPreserves ==
  ASSUME IInv, ContentLength
  PROVE  IInv'
<1>0. At(CL) /\ CL = "content-length"
  BY DEF ContentLength, CL
<1>1. CASE (Len(field.value) # 1 \/ field.value = <<"bad">>) /\ Refuse
  <2>1. ~WellFormed
    BY <1>0, <1>1, AtLine DEF WellFormed
  <2> QED BY <1>0, <1>1, <2>1, RefusePreserves, AtLine
<1>2. CASE Len(field.value) = 1 /\ field.value # <<"bad">> /\ Conflicts /\ Refuse
  <2>1. PICK j \in Passed(CL) : ValueOf(j) = <<loc.content_length>>
    BY <1>0, <1>2, AtLine DEF KnowsLength, Conflicts
  <2>2. j \in Lines(CL) /\ i \in Lines(CL) /\ ValueOf(i) = field.value
    BY <1>0, AtLine DEF Passed
  <2>3. field.value # <<loc.content_length>>
    BY <1>2 DEF Conflicts
  <2>4. ~WellFormed
    BY <1>0, <2>1, <2>2, <2>3 DEF WellFormed
  <2> QED BY <1>0, <1>2, <2>4, RefusePreserves, AtLine
<1>3. CASE /\ Len(field.value) = 1 /\ field.value # <<"bad">> /\ ~Conflicts
           /\ Take([Set({"has_cl"}) EXCEPT !.content_length = field.value[1]])
  <2>1. Moves /\ loc' = [Set({"has_cl"}) EXCEPT !.content_length = field.value[1]] /\ out' = out
    BY <1>0, <1>3, TakeMoves
  <2>2. field.value[1] \in Lengths /\ field.value = <<field.value[1]>>
    BY <1>0, <1>3, AtLine, LenProperties DEF Lengths
  <2>3. /\ Set({"has_cl"}) \in LocType
        /\ Set({"has_cl"}).set = loc.set \cup {"has_cl"}
        /\ Set({"has_cl"}).chunked_count = loc.chunked_count
    BY SetTyped DEF IInv, Flags
  <2>4. /\ loc' \in LocType
        /\ loc'.set = loc.set \cup {"has_cl"} /\ loc'.chunked_count = loc.chunked_count
        /\ loc'.content_length = field.value[1]
    BY <2>1, <2>2, <2>3 DEF LocType
  <2>5. KnowsLength'
    <3>1. Passed(CL)' = Passed(CL) \cup {i} /\ \A j : ValueOf(j)' = ValueOf(j)
      BY <1>0, <2>1, PassedGrows, AtLine, SameMessage DEF Moves
    <3>2. KnowsLength /\ ValueOf(i) = field.value
      BY <1>0, AtLine
    <3>3. ASSUME NEW j \in Passed(CL) PROVE ValueOf(j) = <<field.value[1]>> /\ ValueOf(j) # <<"bad">>
      BY <1>3, <3>2 DEF KnowsLength, Conflicts
    <3>4. \A j \in Passed(CL) \cup {i} : ValueOf(j) = <<field.value[1]>> /\ ValueOf(j) # <<"bad">>
      BY <1>3, <2>2, <3>2, <3>3
    <3> QED BY <2>4, <3>1, <3>4 DEF KnowsLength
  <2>6. KnowsCodings' /\ KnowsConnection' /\ KnowsUpgrade' /\ KnowsHost' /\ KnowsExpect' /\ KnowsTrailer'
    BY <1>0, <2>1, <2>4, AtLine, KeepsCodings, KeepsConnection, KeepsUpgrade, KeepsHost,
       KeepsExpect, KeepsTrailer DEF TE
  <2> QED BY <2>1, <2>4, <2>5, <2>6, MovesPreserves DEF IInv, TypeOK
<1> QED BY <1>1, <1>2, <1>3 DEF ContentLength

LEMMA ConnectionPreserves ==
  ASSUME IInv, Connection
  PROVE  IInv'
<1>0. At("connection")
  BY DEF Connection
<1>1. CASE ~ValidList(field.value) /\ Refuse
  <2>1. ~WellFormed
    BY <1>0, <1>1, AtLine DEF WellFormed
  <2> QED BY <1>0, <1>1, <2>1, RefusePreserves, AtLine
<1>2. CASE ValidList(field.value) /\ Take(Set(ConnectionFlags))
  <2>1. Moves /\ loc' = Set(ConnectionFlags) /\ out' = out
    BY <1>0, <1>2, TakeMoves
  <2>2. /\ ConnectionFlags \in SUBSET {"connection_close", "connection_keep_alive", "connection_upgrade"}
        /\ "connection_close" \in ConnectionFlags <=> Has("close", field.value)
        /\ "connection_keep_alive" \in ConnectionFlags <=> Has("keep-alive", field.value)
        /\ "connection_upgrade" \in ConnectionFlags <=> Has("upgrade", field.value)
    BY DEF ConnectionFlags
  <2>3. ConnectionFlags \in SUBSET Flags
    BY <2>2 DEF Flags
  <2>4. /\ loc' \in LocType
        /\ loc'.set = loc.set \cup ConnectionFlags /\ loc'.chunked_count = loc.chunked_count
        /\ loc'.content_length = loc.content_length
    BY <2>1, <2>3, SetTyped DEF IInv
  <2>5. KnowsConnection'
    <3>1. Passed("connection")' = Passed("connection") \cup {i} /\ \A j : ValueOf(j)' = ValueOf(j)
      BY <1>0, <2>1, PassedGrows, AtLine, SameMessage DEF Moves
    <3>2. KnowsConnection /\ ValueOf(i) = field.value
      BY <1>0, AtLine
    <3> QED BY <1>2, <2>2, <2>4, <3>1, <3>2 DEF KnowsConnection
  <2>6. /\ \A f \in Flags \ {"connection_close", "connection_keep_alive", "connection_upgrade"} :
             f \in loc'.set <=> f \in loc.set
    BY <2>2, <2>4
  <2>7. KnowsCodings' /\ KnowsLength' /\ KnowsUpgrade' /\ KnowsHost' /\ KnowsExpect' /\ KnowsTrailer'
    BY <1>0, <2>1, <2>4, <2>6, AtLine, KeepsCodings, KeepsLength, KeepsUpgrade, KeepsHost,
       KeepsExpect, KeepsTrailer DEF TE, CL, Flags
  <2> QED BY <2>1, <2>4, <2>5, <2>7, MovesPreserves DEF IInv, TypeOK
<1> QED BY <1>1, <1>2 DEF Connection

(* A line that only sets a flag of its own.                                *)
LEMMA FlagTaken ==
  ASSUME IInv, NEW name, At(name), NEW flag \in Flags, Take(Set({flag}))
  PROVE  /\ Moves /\ out' = out
         /\ loc' \in LocType
         /\ loc'.set = loc.set \cup {flag} /\ loc'.chunked_count = loc.chunked_count
         /\ loc'.content_length = loc.content_length
         /\ Passed(name)' = Passed(name) \cup {i} /\ \A j : ValueOf(j)' = ValueOf(j)
<1>1. Moves /\ loc' = Set({flag}) /\ out' = out
  BY TakeMoves
<1>2. Passed(name)' = Passed(name) \cup {i} /\ \A j : ValueOf(j)' = ValueOf(j)
  BY <1>1, PassedGrows, AtLine, SameMessage DEF Moves
<1>3. {flag} \in SUBSET Flags /\ TypeOK
  BY DEF IInv
<1> QED BY <1>1, <1>2, <1>3, SetTyped

LEMMA UpgradePreserves ==
  ASSUME IInv, Upgrade
  PROVE  IInv'
<1>0. At("upgrade")
  BY DEF Upgrade
<1>1. CASE ~IsToken(field.value) /\ Refuse
  <2>1. Len(field.value) > 1 \/ field.value = <<"bad">>
    <3>1. ASSUME Len(field.value) <= 1, Has("bad", field.value) PROVE field.value = <<"bad">>
      <4>1. PICK j \in 1..Len(field.value) : field.value[j] = "bad"
        BY <3>1 DEF Has
      <4>2. Len(field.value) \in Nat
        BY <1>0, AtLine
      <4>3. Len(field.value) = 1 /\ j = 1
        <5> DEFINE n == Len(field.value)
        <5>1. n \in Nat /\ n <= 1 /\ j \in 1..n
          BY <3>1, <4>1, <4>2
        <5> HIDE DEF n
        <5>2. n = 1 /\ j = 1
          BY <5>1
        <5> QED BY <5>2 DEF n
      <4> QED BY <1>0, <4>1, <4>3, AtLine, LenProperties
    <3> QED BY <1>0, <1>1, <3>1, AtLine DEF IsToken
  <2>2. ~WellFormed
    <3>1. i \in Lines("upgrade") /\ ValueOf(i) = field.value /\ Len(field.value) \in Nat
      BY <1>0, AtLine
    <3>2. ~(Len(ValueOf(i)) <= 1 /\ ValueOf(i) # <<"bad">>)
      BY <2>1, <3>1
    <3> QED BY <3>1, <3>2, Zenon DEF WellFormed
  <2> QED BY <1>0, <1>1, <2>2, RefusePreserves, AtLine
<1>2. CASE IsToken(field.value) /\ Take(Set({"has_upgrade"}))
  <2>1. /\ Moves /\ out' = out
        /\ loc' \in LocType
        /\ loc'.set = loc.set \cup {"has_upgrade"} /\ loc'.chunked_count = loc.chunked_count
        /\ loc'.content_length = loc.content_length
        /\ Passed("upgrade")' = Passed("upgrade") \cup {i} /\ \A j : ValueOf(j)' = ValueOf(j)
    BY <1>0, <1>2, FlagTaken DEF Flags
  <2>2. KnowsUpgrade'
    BY <1>0, <1>2, <2>1, AtLine DEF KnowsUpgrade
  <2>3. KnowsCodings' /\ KnowsLength' /\ KnowsConnection' /\ KnowsHost' /\ KnowsExpect' /\ KnowsTrailer'
    BY <1>0, <2>1, AtLine, KeepsCodings, KeepsLength, KeepsConnection, KeepsHost, KeepsExpect,
       KeepsTrailer DEF TE, CL
  <2> QED BY <2>1, <2>2, <2>3, MovesPreserves DEF IInv, TypeOK
<1> QED BY <1>1, <1>2 DEF Upgrade

LEMMA HostPreserves ==
  ASSUME IInv, Host
  PROVE  IInv'
<1>0. At("host") /\ message.kind = REQUEST
  BY DEF Host
<1>1. CASE ("has_host" \in loc.set \/ field.value = <<>>) /\ Refuse
  <2>1. CASE field.value = <<>>
    <3>1. ~WellFormed
      BY <1>0, <2>1, AtLine DEF WellFormed
    <3> QED BY <1>0, <1>1, <3>1, RefusePreserves, AtLine
  <2>2. CASE "has_host" \in loc.set
    <3>1. PICK j : j \in Passed("host")
      BY <1>0, <2>2, AtLine DEF KnowsHost
    <3>2. j \in Lines("host") /\ j < i /\ j \in Nat /\ i \in Lines("host") /\ i \in Nat
      BY <1>0, <3>1, AtLine, LineTyped DEF Passed
    <3>3. j # i
      BY <3>2
    <3>4. ~WellFormed
      BY <1>0, <3>2, <3>3 DEF WellFormed
    <3> QED BY <1>0, <1>1, <3>4, RefusePreserves, AtLine
  <2> QED BY <1>1, <2>1, <2>2
<1>2. CASE "has_host" \notin loc.set /\ field.value # <<>> /\ Take(Set({"has_host"}))
  <2>1. /\ Moves /\ out' = out
        /\ loc' \in LocType
        /\ loc'.set = loc.set \cup {"has_host"} /\ loc'.chunked_count = loc.chunked_count
        /\ loc'.content_length = loc.content_length
        /\ Passed("host")' = Passed("host") \cup {i} /\ \A j : ValueOf(j)' = ValueOf(j)
    BY <1>0, <1>2, FlagTaken DEF Flags
  <2>2. KnowsHost'
    <3>1. Passed("host") = {} /\ ValueOf(i) = field.value
      BY <1>0, <1>2, AtLine DEF KnowsHost
    <3> QED BY <1>2, <2>1, <3>1 DEF KnowsHost
  <2>3. KnowsCodings' /\ KnowsLength' /\ KnowsConnection' /\ KnowsUpgrade' /\ KnowsExpect' /\ KnowsTrailer'
    BY <1>0, <2>1, AtLine, KeepsCodings, KeepsLength, KeepsConnection, KeepsUpgrade, KeepsExpect,
       KeepsTrailer DEF TE, CL
  <2> QED BY <2>1, <2>2, <2>3, MovesPreserves DEF IInv, TypeOK
<1> QED BY <1>1, <1>2 DEF Host

LEMMA TrailerPreserves ==
  ASSUME IInv, Trailer
  PROVE  IInv'
<1>0. At("trailer")
  BY DEF Trailer
<1>1. CASE ~ValidList(field.value) /\ Refuse
  <2>1. ~WellFormed
    BY <1>0, <1>1, AtLine DEF WellFormed
  <2> QED BY <1>0, <1>1, <2>1, RefusePreserves, AtLine
<1>2. CASE ValidList(field.value) /\ Take(Set({"has_trailer"}))
  <2>1. /\ Moves /\ out' = out
        /\ loc' \in LocType
        /\ loc'.set = loc.set \cup {"has_trailer"} /\ loc'.chunked_count = loc.chunked_count
        /\ loc'.content_length = loc.content_length
        /\ Passed("trailer")' = Passed("trailer") \cup {i} /\ \A j : ValueOf(j)' = ValueOf(j)
    BY <1>0, <1>2, FlagTaken DEF Flags
  <2>2. KnowsTrailer'
    BY <1>0, <1>2, <2>1, AtLine DEF KnowsTrailer
  <2>3. KnowsCodings' /\ KnowsLength' /\ KnowsConnection' /\ KnowsUpgrade' /\ KnowsHost' /\ KnowsExpect'
    BY <1>0, <2>1, AtLine, KeepsCodings, KeepsLength, KeepsConnection, KeepsUpgrade, KeepsHost,
       KeepsExpect DEF TE, CL
  <2> QED BY <2>1, <2>2, <2>3, MovesPreserves DEF IInv, TypeOK
<1> QED BY <1>1, <1>2 DEF Trailer

LEMMA OtherFieldPreserves ==
  ASSUME IInv, OtherField
  PROVE  IInv'
<1>1. PICK name \in {"x", "host", "expect"} : At(name) /\ (name = "x" \/ message.kind # REQUEST)
  BY Kinds2 DEF OtherField
<1>2. Moves /\ loc' = loc /\ out' = out
  BY <1>1, TakeMoves DEF OtherField
<1>3. /\ KnowsCodings' /\ KnowsLength' /\ KnowsConnection' /\ KnowsUpgrade' /\ KnowsHost'
      /\ KnowsExpect' /\ KnowsTrailer'
  BY <1>1, <1>2, AtLine, KeepsCodings, KeepsLength, KeepsConnection, KeepsUpgrade, KeepsHost,
     KeepsExpect, KeepsTrailer DEF TE, CL
<1> QED BY <1>2, <1>3, MovesPreserves DEF IInv, TypeOK

LEMMA ExpectPreserves ==
  ASSUME IInv, Expect
  PROVE  IInv'
<1>0. At("expect") /\ message.kind = REQUEST
  BY DEF Expect
<1>1. CASE field.value = <<>> /\ Refuse
  <2>1. ~WellFormed
    BY <1>0, <1>1, AtLine DEF WellFormed
  <2> QED BY <1>0, <1>1, <2>1, RefusePreserves, AtLine
<1>2. CASE /\ field.value # <<>>
           /\ out' = [out EXCEPT !.expects_continue = expects_continue(field.value)]
           /\ loc' = Set({"has_expect"})
           /\ i' = i + 1
           /\ UNCHANGED <<message, pc, status, clears>>
  <2>1. Moves
    BY <1>0, <1>2 DEF Moves, At
  <2>2. /\ loc' \in LocType
        /\ loc'.set = loc.set \cup {"has_expect"} /\ loc'.chunked_count = loc.chunked_count
        /\ loc'.content_length = loc.content_length
    BY <1>2, SetTyped DEF IInv, Flags
  <2>3. /\ Passed("expect")' = Passed("expect") \cup {i} /\ \A j : ValueOf(j)' = ValueOf(j)
        /\ \A j : LastPassed(j, "expect")' <=> j = i
    BY <1>0, <2>1, PassedGrows, AtLine, SameMessage DEF Moves
  <2>4. /\ out' \in OutType
        /\ out'.keep_alive = out.keep_alive
        /\ out'.expects_continue <=> field.value = <<"100-continue">>
    BY <1>2 DEF IInv, TypeOK, OutType, expects_continue
  <2>5. KnowsExpect'
    <3>1. KnowsExpect /\ ValueOf(i) = field.value
      BY <1>0, AtLine
    <3>2. out'.expects_continue <=>
             \E j \in Passed("expect")' : LastPassed(j, "expect")' /\ ValueOf(j)' = <<"100-continue">>
      BY <2>3, <2>4, <3>1
    <3>3. \A j \in Passed("expect")' : ValueOf(j)' # <<>>
      BY <1>0, <1>2, <2>3, <3>1 DEF KnowsExpect
    <3>4. "has_expect" \in loc'.set /\ Passed("expect")' # {}
      BY <2>2, <2>3
    <3> QED BY <3>2, <3>3, <3>4 DEF KnowsExpect
  <2>6. KnowsCodings' /\ KnowsLength' /\ KnowsConnection' /\ KnowsUpgrade' /\ KnowsHost' /\ KnowsTrailer'
    BY <1>0, <2>1, <2>2, AtLine, KeepsCodings, KeepsLength, KeepsConnection, KeepsUpgrade,
       KeepsHost, KeepsTrailer DEF TE, CL
  <2> QED BY <2>1, <2>2, <2>4, <2>5, <2>6, MovesPreserves
<1> QED BY <1>1, <1>2 DEF Expect

-----------------------------------------------------------------------------
AtEnd == IInv /\ pc = "fields" /\ i > Len(message.headers)

(* Behind the loop every line has been passed.                             *)
LEMMA AllPassed ==
  ASSUME AtEnd, NEW name
  PROVE  Passed(name) = Lines(name) /\ \A j : LastPassed(j, name) <=> IsLast(j, name)
<1>1. i \in Nat /\ Len(message.headers) \in Nat /\ i > Len(message.headers)
  BY LenProperties DEF AtEnd, IInv, TypeOK
<1>2. Passed(name) = Lines(name)
  BY <1>1 DEF Passed, Lines
<1> QED BY <1>2 DEF LastPassed, IsLast

(* The flags then say of the whole message what they said of the lines     *)
(* passed.                                                                 *)
LEMMA FlagsDecide ==
  ASSUME AtEnd
  PROVE  /\ In("has_te") <=> Present(TE)
         /\ In("has_cl") <=> Present(CL)
         /\ In("chunked") <=> FinalChunked
         /\ In("has_upgrade") <=> Present("upgrade")
         /\ In("has_trailer") <=> Present("trailer")
         /\ In("connection_close") <=> Lists("connection", "close")
         /\ In("connection_keep_alive") <=> Lists("connection", "keep-alive")
         /\ In("connection_upgrade") <=> Lists("connection", "upgrade")
         /\ Request => (In("has_host") <=> Present("host"))
         /\ Request => (In("has_expect") <=> Present("expect"))
         /\ FinalChunked => Present(TE)
<1>1. /\ KnowsCodings /\ KnowsLength /\ KnowsConnection /\ KnowsUpgrade /\ KnowsHost
      /\ KnowsExpect /\ KnowsTrailer
  BY DEF AtEnd, IInv, Knows
<1>2. /\ In("has_te") <=> Present(TE)
      /\ In("has_cl") <=> Present(CL)
  BY <1>1, AllPassed DEF KnowsCodings, KnowsLength, In, Present
<1>3. In("chunked") <=> FinalChunked
  <2>1. \A j \in Lines(TE) : ValueOf(j) # <<>>
    BY <1>1, AllPassed DEF KnowsCodings, ValidCodings, ValidList
  <2>2. In("chunked") <=> \E j \in Lines(TE) : IsLast(j, TE) /\ ends_with_chunked(ValueOf(j))
    BY <1>1, AllPassed DEF KnowsCodings, In
  <2> QED BY <2>1, <2>2 DEF FinalChunked, ends_with_chunked, TE
<1>4. /\ In("has_upgrade") <=> Present("upgrade")
      /\ In("has_trailer") <=> Present("trailer")
  BY <1>1, AllPassed DEF KnowsUpgrade, KnowsTrailer, In, Present
<1>5. /\ In("connection_close") <=> Lists("connection", "close")
      /\ In("connection_keep_alive") <=> Lists("connection", "keep-alive")
      /\ In("connection_upgrade") <=> Lists("connection", "upgrade")
  BY <1>1, AllPassed DEF KnowsConnection, In, Lists
<1>6. Request => (In("has_host") <=> Present("host")) /\ (In("has_expect") <=> Present("expect"))
  BY <1>1, AllPassed DEF KnowsHost, KnowsExpect, In, Request, Present
<1>7. FinalChunked => Present(TE)
  BY DEF FinalChunked, Present, TE
<1> QED BY <1>2, <1>3, <1>4, <1>5, <1>6, <1>7

(* The message is a request or a response.                                 *)
LEMMA RequestOrResponse ==
  ASSUME AtEnd
  PROVE  (Request <=> message.kind = REQUEST) /\ (~Request <=> message.kind = RESPONSE)
  BY Kinds2 DEF AtEnd, IInv, TypeOK, Request

(* The body mode is the one of the RFC's rules, where the message is not   *)
(* refused and not one of the lenient ones.                                *)
LEMMA ModeDecides ==
  ASSUME AtEnd
  PROVE  /\ body_mode \in {"NONE", "FIXED", "CHUNKED", "EOF"}
         /\ body_mode = "CHUNKED" <=> RFCBody = "CHUNKED"
         /\ ~FramingRefused /\ ~LenientBoth => body_mode = RFCBody
<1> DEFINE none == message.status_code \in {"101", "1xx", "204", "304"}
           te == Present(TE)
           cl == Present(CL)
<1>1. RFCBody = IF ~Request /\ none THEN "NONE"
                ELSE IF FinalChunked THEN "CHUNKED" ELSE IF te THEN "EOF"
                ELSE IF cl THEN "FIXED" ELSE IF Request THEN "NONE" ELSE "EOF"
  BY RequestOrResponse DEF RFCBody, TE, CL
<1>2. body_mode = IF ~Request /\ none THEN "NONE"
                  ELSE IF FinalChunked THEN "CHUNKED"
                  ELSE IF cl THEN "FIXED" ELSE IF Request THEN "NONE" ELSE "EOF"
  BY FlagsDecide DEF body_mode, NoBodyStatus, IHTP_BODY_NONE, IHTP_BODY_FIXED, IHTP_BODY_CHUNKED,
     IHTP_BODY_EOF
<1>3. (te /\ cl /\ message.reject_te_cl) \/ (Request /\ te /\ ~FinalChunked) => FramingRefused
  BY FlagsDecide DEF FramingRefused
<1>4. LenientBoth <=> ~Request /\ ~message.reject_te_cl /\ ~FinalChunked /\ te /\ cl
  BY RequestOrResponse DEF LenientBoth, TE, CL
<1> HIDE DEF none, te, cl
<1> QED BY <1>1, <1>2, <1>3, <1>4

(* What the checks behind the loop find wrong is what is left to find      *)
(* wrong with the lines.                                                   *)
LEMMA RefusedIffIllFormed ==
  ASSUME AtEnd
  PROVE  WellFormed <=> ~FramingRefused /\ ~TrailerRefused
<1>1. /\ KnowsCodings /\ KnowsLength /\ KnowsConnection /\ KnowsUpgrade /\ KnowsHost
      /\ KnowsExpect /\ KnowsTrailer /\ TypeOK
  BY DEF AtEnd, IInv, Knows
<1>2. \A name : Passed(name) = Lines(name)
  BY AllPassed
<1>3. \A name \in {"connection", "trailer", "transfer-encoding"} :
        \A j \in Lines(name) : ValidList(ValueOf(j))
  BY <1>1, <1>2 DEF KnowsCodings, KnowsConnection, KnowsTrailer, ValidCodings, TE
<1>4. ~Lists("transfer-encoding", "chunked;p")
  BY <1>1, <1>2 DEF KnowsCodings, ValidCodings, Lists, TE
<1>5. (\A j, k \in Lines("transfer-encoding") :
         \A n \in 1..Len(ValueOf(j)), m \in 1..Len(ValueOf(k)) :
           ValueOf(j)[n] = "chunked" /\ ValueOf(k)[m] = "chunked" => j = k /\ n = m)
      <=> loc.chunked_count <= 1
  <2>1. loc.chunked_count <= 1 <=>
          \A j, k \in Lines(TE) : \A n \in Spots(j), m \in Spots(k) : j = k /\ n = m
    BY <1>1, <1>2 DEF KnowsCodings
  <2>2. \A j, n : n \in Spots(j) <=> n \in 1..Len(ValueOf(j)) /\ ValueOf(j)[n] = "chunked"
    BY DEF Spots
  <2> DEFINE unique == \A j, k \in Lines(TE) :
                         \A n \in 1..Len(ValueOf(j)), m \in 1..Len(ValueOf(k)) :
                           ValueOf(j)[n] = "chunked" /\ ValueOf(k)[m] = "chunked" => j = k /\ n = m
  <2>3. ASSUME unique, NEW j \in Lines(TE), NEW k \in Lines(TE), NEW n \in Spots(j), NEW m \in Spots(k)
        PROVE  j = k /\ n = m
    <3>1. /\ n \in 1..Len(ValueOf(j)) /\ ValueOf(j)[n] = "chunked"
          /\ m \in 1..Len(ValueOf(k)) /\ ValueOf(k)[m] = "chunked"
      BY <2>2, Zenon
    <3> QED BY <2>3, <3>1, Zenon
  <2>4. ASSUME \A j, k \in Lines(TE) : \A n \in Spots(j), m \in Spots(k) : j = k /\ n = m,
               NEW j \in Lines(TE), NEW k \in Lines(TE),
               NEW n \in 1..Len(ValueOf(j)), NEW m \in 1..Len(ValueOf(k)),
               ValueOf(j)[n] = "chunked", ValueOf(k)[m] = "chunked"
        PROVE  j = k /\ n = m
    <3>1. n \in Spots(j) /\ m \in Spots(k)
      BY <2>2, <2>4, Zenon
    <3> QED BY <2>4, <3>1, Zenon
  <2>5. unique <=> loc.chunked_count <= 1
    BY <2>1, <2>3, <2>4, Zenon
  <2> QED BY <2>5 DEF TE
<1>6. /\ \A j \in Lines("content-length") : Len(ValueOf(j)) = 1 /\ ValueOf(j) # <<"bad">>
      /\ \A j, k \in Lines("content-length") : ValueOf(j) = ValueOf(k)
  <2>1. \A j \in Lines("content-length") : ValueOf(j) = <<loc.content_length>> /\ ValueOf(j) # <<"bad">>
    BY <1>1, <1>2 DEF KnowsLength, CL
  <2>2. Len(<<loc.content_length>>) = 1
    OBVIOUS
  <2> QED BY <2>1, <2>2, Zenon
<1>7. \A j \in Lines("upgrade") : Len(ValueOf(j)) <= 1 /\ ValueOf(j) # <<"bad">>
  <2> SUFFICES ASSUME NEW j \in Lines("upgrade")
               PROVE  Len(ValueOf(j)) <= 1 /\ ValueOf(j) # <<"bad">>
    OBVIOUS
  <2>1. Len(ValueOf(j)) <= 1 /\ ~Has("bad", ValueOf(j))
    BY <1>1, <1>2 DEF KnowsUpgrade, IsToken
  <2>2. ValueOf(j) = <<"bad">> => Has("bad", ValueOf(j))
    BY DEF Has
  <2> QED BY <2>1, <2>2
<1>8. message.kind = REQUEST =>
        /\ \A j, k \in Lines("host") : j = k /\ ValueOf(j) # <<>>
        /\ \A j \in Lines("expect") : ValueOf(j) # <<>>
  BY <1>1, <1>2 DEF KnowsHost, KnowsExpect
<1>9. WellFormed <=>
        /\ loc.chunked_count <= 1
        /\ message.reject_te_cl => ~(Present(TE) /\ Present(CL))
        /\ Present("trailer") => RFCBody = "CHUNKED"
        /\ message.kind = REQUEST =>
             /\ message.version = "1.1" => Present("host")
             /\ Present(TE) => FinalChunked
  BY <1>3, <1>4, <1>5, <1>6, <1>7, <1>8, Zenon DEF WellFormed, TE, CL
<1>10. loc.chunked_count > 1 <=> ~(loc.chunked_count <= 1)
  BY <1>1 DEF TypeOK, LocType
<1>11. ~FramingRefused <=>
         /\ loc.chunked_count <= 1
         /\ message.reject_te_cl => ~(Present(TE) /\ Present(CL))
         /\ message.kind = REQUEST =>
              /\ message.version = "1.1" => Present("host")
              /\ Present(TE) => FinalChunked
  BY <1>10, FlagsDecide, RequestOrResponse, Zenon DEF FramingRefused
<1>12. ~TrailerRefused <=> (Present("trailer") => RFCBody = "CHUNKED")
  BY FlagsDecide, ModeDecides DEF TrailerRefused, IHTP_BODY_CHUNKED
<1> QED BY <1>9, <1>11, <1>12, Zenon

-----------------------------------------------------------------------------
(* What is written before the trailer check.                               *)
LEMMA FramedFields ==
  ASSUME AtEnd
  PROVE  /\ Framed \in OutType
         /\ Framed.body_mode = body_mode
         /\ body_mode = "FIXED" => Framed.content_length = loc.content_length
         /\ Framed.keep_alive <=> IF has_connection THEN ~In("connection_close") ELSE out.keep_alive
         /\ Framed.expects_continue = out.expects_continue
<1>1. out \in OutType /\ loc.content_length \in Lengths
  BY DEF AtEnd, IInv, TypeOK, LocType
<1>2. body_mode \in {IHTP_BODY_NONE, IHTP_BODY_FIXED, IHTP_BODY_CHUNKED, IHTP_BODY_EOF}
  BY ModeDecides DEF IHTP_BODY_NONE, IHTP_BODY_FIXED, IHTP_BODY_CHUNKED, IHTP_BODY_EOF
<1>3. (~In("connection_close")) \in BOOLEAN
  BY DEF In
<1> HIDE DEF body_mode
<1> QED BY <1>1, <1>2, <1>3 DEF Framed, OutType, IHTP_BODY_FIXED

LEMMA RequestFields ==
  ASSUME AtEnd
  PROVE  /\ RequestConcluded \in OutType
         /\ RequestConcluded.body_mode = Framed.body_mode
         /\ RequestConcluded.content_length = Framed.content_length
         /\ RequestConcluded.protocol_upgrade <=> In("has_upgrade") /\ In("connection_upgrade")
         /\ RequestConcluded.has_trailer_fields <=> In("has_trailer")
         /\ RequestConcluded.expects_continue <=> In("has_expect") /\ out.expects_continue
         /\ RequestConcluded.keep_alive <=>
              IF has_connection THEN ~In("connection_close") ELSE message.version = "1.1"
<1>1. Framed \in OutType /\ Framed.expects_continue = out.expects_continue
      /\ (Framed.keep_alive <=> IF has_connection THEN ~In("connection_close") ELSE out.keep_alive)
  BY FramedFields
<1>2. /\ In("has_upgrade") \in BOOLEAN /\ In("connection_upgrade") \in BOOLEAN
      /\ In("has_expect") \in BOOLEAN /\ In("has_trailer") \in BOOLEAN /\ has_connection \in BOOLEAN
  BY DEF In, has_connection
<1> QED BY <1>1, <1>2 DEF RequestConcluded, OutType

LEMMA ResponseFields ==
  ASSUME AtEnd
  PROVE  /\ ResponseConcluded \in OutType
         /\ ResponseConcluded.body_mode = Framed.body_mode
         /\ ResponseConcluded.content_length = Framed.content_length
         /\ ResponseConcluded.protocol_upgrade <=> Switches
         /\ ResponseConcluded.has_trailer_fields <=> In("has_trailer")
         /\ ResponseConcluded.keep_alive <=>
              /\ ~Switches
              /\ \/ Framed.keep_alive
                 \/ ~has_connection /\ message.version = "1.1" /\ body_mode # IHTP_BODY_EOF
<1>1. Framed \in OutType
  BY FramedFields
<1>2. Switches \in BOOLEAN /\ In("has_trailer") \in BOOLEAN /\ has_connection \in BOOLEAN
  BY DEF Switches, In, has_connection
<1> HIDE DEF body_mode, Switches, has_connection
<1> QED BY <1>1, <1>2 DEF ResponseConcluded, OutType

(* The call returns: what is left to show of a decided message.            *)
LEMMA ReturnPreserves ==
  ASSUME AtEnd, NEW s, NEW o \in OutType, Returns(s, o),
         s = "IHTP_OK" <=> WellFormed,
         s = "IHTP_OK" => FramingFollowsRFC' /\ SignalsFollowMessage',
         s = "IHTP_OK" /\ FreshResponses => PersistenceFollowsRFC'
  PROVE  IInv'
<1> USE DEF Returns
<1>1. TypeOK'
  BY DEF AtEnd, IInv, TypeOK
<1>2. Knows' /\ StartsClosed'
  BY DEF Knows, StartsClosed
<1>3. AcceptedIffWellFormed'
  BY SameMessage DEF AcceptedIffWellFormed, Answered
<1>4. s # "IHTP_OK" => FramingFollowsRFC' /\ PersistenceFollowsRFC' /\ SignalsFollowMessage'
  BY DEF FramingFollowsRFC, PersistenceFollowsRFC, SignalsFollowMessage, Accepted
<1>5. FreshResponses' <=> FreshResponses
  BY DEF FreshResponses
<1> QED BY <1>1, <1>2, <1>3, <1>4, <1>5 DEF IInv

(* The framing of either kind of message.                                  *)
LEMMA FramingRight ==
  ASSUME AtEnd, ~FramingRefused, NEW o, Returns("IHTP_OK", o),
         o.body_mode = Framed.body_mode, o.content_length = Framed.content_length
  PROVE  FramingFollowsRFC'
<1>1. message' = message /\ out' = o
  BY DEF Returns
<1>2. RFCBody' = RFCBody /\ (LenientBoth' <=> LenientBoth) /\ Lines(CL)' = Lines(CL)
      /\ \A j : ValueOf(j)' = ValueOf(j)
  BY <1>1, SameMessage
<1>3. /\ out'.body_mode = body_mode
      /\ body_mode = "FIXED" => out'.content_length = loc.content_length
  BY <1>1, FramedFields
<1>4. ~LenientBoth => body_mode = RFCBody
  BY ModeDecides
<1>5. \A j \in Lines(CL) : ValueOf(j) = <<loc.content_length>>
  BY AllPassed DEF AtEnd, IInv, Knows, KnowsLength
<1> HIDE DEF body_mode, RFCBody, LenientBoth
<1>6. ~LenientBoth' => /\ out'.body_mode = RFCBody'
                       /\ RFCBody' = "FIXED" =>
                            \A j \in Lines(CL)' : ValueOf(j)' = <<out'.content_length>>
  BY <1>2, <1>3, <1>4, <1>5
<1> QED BY <1>6 DEF FramingFollowsRFC, CL

LEMMA ConcludePreserves ==
  ASSUME IInv, Conclude
  PROVE  IInv'
<1>0. AtEnd
  BY DEF Conclude, AtEnd
<1>1. CASE FramingRefused /\ Refuse
  BY <1>0, <1>1, RefusedIffIllFormed, RefusePreserves DEF AtEnd
<1>2. CASE ~FramingRefused /\ TrailerRefused /\ Returns("IHTP_ERROR", Framed)
  <2>1. ~WellFormed /\ Framed \in OutType
    BY <1>0, <1>2, RefusedIffIllFormed, FramedFields
  <2> QED BY <1>0, <1>2, <2>1, ReturnPreserves
<1>3. CASE ~FramingRefused /\ ~TrailerRefused /\ Request /\ Returns("IHTP_OK", RequestConcluded)
  <2>1. WellFormed /\ RequestConcluded \in OutType
    BY <1>0, <1>3, RefusedIffIllFormed, RequestFields
  <2>2. message' = message /\ out' = RequestConcluded /\ message.kind = REQUEST
    BY <1>0, <1>3, RequestOrResponse DEF Returns
  <2>3. FramingFollowsRFC'
    BY <1>0, <1>3, FramingRight, RequestFields
  <2>4. /\ \A name, part : Lists(name, part)' <=> Lists(name, part)
        /\ \A name : Present(name)' <=> Present(name)
        /\ \A j, name : IsLast(j, name)' <=> IsLast(j, name)
        /\ \A j : ValueOf(j)' = ValueOf(j)
        /\ \A name : Lines(name)' = Lines(name)
    BY <2>2, SameMessage DEF Lists, Present, IsLast
  <2>5. SignalsFollowMessage'
    <3>1. out'.protocol_upgrade <=> Present("upgrade")' /\ Lists("connection", "upgrade")'
      BY <1>0, <2>2, <2>4, RequestFields, FlagsDecide
    <3>2. out'.has_trailer_fields <=> Present("trailer")'
      BY <1>0, <2>2, <2>4, RequestFields, FlagsDecide
    <3>3. out'.expects_continue <=>
            \E j \in Lines("expect")' : IsLast(j, "expect")' /\ ValueOf(j)' = <<"100-continue">>
      <4> DEFINE said == \E j \in Lines("expect") : IsLast(j, "expect") /\ ValueOf(j) = <<"100-continue">>
      <4>1. KnowsExpect
        BY <1>0 DEF AtEnd, IInv, Knows
      <4>2. In("has_expect") => (out.expects_continue <=> said)
        BY <1>0, <2>2, <4>1, AllPassed DEF KnowsExpect, In
      <4>3. said => In("has_expect")
        BY <1>0, <1>3, FlagsDecide DEF Present
      <4>4. out'.expects_continue <=> In("has_expect") /\ out.expects_continue
        BY <1>0, <2>2, RequestFields
      <4>5. out'.expects_continue <=> said
        BY <4>2, <4>3, <4>4
      <4> QED BY <2>4, <4>5
    <3>4. message'.kind = REQUEST /\ message'.kind # RESPONSE
      BY <2>2, Kinds2
    <3> QED BY <3>1, <3>2, <3>3, <3>4 DEF SignalsFollowMessage
  <2>6. PersistenceFollowsRFC'
    <3>1. out'.keep_alive <=>
            IF has_connection THEN ~In("connection_close") ELSE message.version = "1.1"
      BY <1>0, <2>2, RequestFields
    <3>2. out'.keep_alive <=> /\ ~Lists("connection", "close")
                              /\ message.version = "1.1" \/ Lists("connection", "keep-alive")
      BY <1>0, <3>1, FlagsDecide DEF has_connection
    <3>3. message'.kind # RESPONSE
      BY <2>2, Kinds2
    <3> QED BY <2>2, <2>4, <3>2, <3>3 DEF PersistenceFollowsRFC
  <2> QED BY <1>0, <1>3, <2>1, <2>3, <2>5, <2>6, ReturnPreserves
<1>4. CASE ~FramingRefused /\ ~TrailerRefused /\ ~Request /\ Returns("IHTP_OK", ResponseConcluded)
  <2>1. WellFormed /\ ResponseConcluded \in OutType
    BY <1>0, <1>4, RefusedIffIllFormed, ResponseFields
  <2>2. message' = message /\ out' = ResponseConcluded /\ message.kind = RESPONSE
    BY <1>0, <1>4, RequestOrResponse DEF Returns
  <2>3. FramingFollowsRFC'
    BY <1>0, <1>4, FramingRight, ResponseFields
  <2>4. /\ \A name, part : Lists(name, part)' <=> Lists(name, part)
        /\ \A name : Present(name)' <=> Present(name)
    BY <2>2, SameMessage DEF Lists, Present
  <2>5. out'.protocol_upgrade <=> Switches
    BY <1>0, <2>2, ResponseFields
  <2>6. SignalsFollowMessage'
    <3>1. Switches <=> /\ Present("upgrade") /\ Lists("connection", "upgrade")
                       /\ message.status_code = "101" /\ ~Lists("connection", "close")
      BY <1>0, FlagsDecide DEF Switches
    <3>2. out'.has_trailer_fields <=> Present("trailer")'
      BY <1>0, <2>2, <2>4, ResponseFields, FlagsDecide
    <3>3. message'.kind = RESPONSE /\ message'.kind # REQUEST
      BY <2>2, Kinds2
    <3> QED BY <2>2, <2>4, <2>5, <3>1, <3>2, <3>3 DEF SignalsFollowMessage
  <2>7. FreshResponses => PersistenceFollowsRFC'
    <3>1. FreshResponses => ~out.keep_alive
      BY <2>2 DEF IInv, StartsClosed, Conclude
    <3>2. out'.keep_alive <=>
            /\ ~Switches
            /\ \/ Framed.keep_alive
               \/ ~has_connection /\ message.version = "1.1" /\ body_mode # IHTP_BODY_EOF
      BY <1>0, <2>2, ResponseFields
    <3>3. Framed.keep_alive <=> IF has_connection THEN ~In("connection_close") ELSE out.keep_alive
      BY <1>0, FramedFields
    <3>4. out'.body_mode = body_mode
      BY <1>0, <2>2, ResponseFields, FramedFields
    <3> HIDE DEF body_mode, Switches
    <3>5. FreshResponses /\ out'.body_mode # IHTP_BODY_EOF =>
            (out'.keep_alive <=> /\ ~Lists("connection", "close")
                                 /\ message.version = "1.1" \/ Lists("connection", "keep-alive")
                                 /\ ~Switches)
      BY <1>0, <3>1, <3>2, <3>3, <3>4, FlagsDecide DEF has_connection
    <3> QED BY <2>2, <2>4, <2>5, <3>5 DEF PersistenceFollowsRFC
  <2> QED BY <1>0, <1>4, <2>1, <2>3, <2>6, <2>7, ReturnPreserves
<1> QED BY <1>1, <1>2, <1>3, <1>4 DEF Conclude

LEMMA ReusePreserves ==
  ASSUME IInv, Reuse
  PROVE  IInv'
<1> USE DEF Reuse
<1>1. NoMessage \in MessageType
  BY DEF NoMessage, Message, Codes, MessageType
<1>2. Fresh \in OutType /\ ~Fresh.keep_alive
  BY DEF Fresh, OutType, Lengths
<1>3. NoLocals \in LocType
  BY DEF NoLocals, Lengths, LocType
<1>4. TypeOK'
  BY <1>1, <1>2, <1>3 DEF IInv, TypeOK
<1>5. Knows' /\ StartsClosed'
  BY <1>2 DEF Knows, StartsClosed
<1>6. AcceptedIffWellFormed' /\ FramingFollowsRFC' /\ PersistenceFollowsRFC' /\ SignalsFollowMessage'
  BY DEF AcceptedIffWellFormed, FramingFollowsRFC, PersistenceFollowsRFC, SignalsFollowMessage,
     Accepted, Answered
<1> QED BY <1>4, <1>5, <1>6 DEF IInv

LEMMA ApplyPreserves ==
  ASSUME IInv, ApplyAny
  PROVE  IInv'
<1>1. PICK k \in Kinds(clears), v \in {"1.0", "1.1"}, hs \in Heads(clears), strict \in RejectTeCl :
        \E code \in Codes(k) : Apply(Message(k, v, code, hs, strict))
  BY DEF ApplyAny
<1>2. PICK code \in Codes(k) : Apply(Message(k, v, code, hs, strict))
  BY <1>1
<1>3. pc = "ready" /\ clears \in ClearsOutputs
  BY DEF ApplyAny, IInv, TypeOK
<1>4. k \in {REQUEST, RESPONSE} /\ hs \in Seq(Field) /\ strict \in BOOLEAN
  BY <1>3, SemanticsAssumption
<1>5. code \in Codes(REQUEST) \cup StatusCodes
  BY <1>2 DEF Codes
<1>6. /\ message'.kind = k /\ message'.headers = hs
      /\ message' \in MessageType
  BY <1>2, <1>4, <1>5 DEF Apply, Message, MessageType
<1>7. pc' = "fields" /\ i' = 1 /\ loc' = NoLocals /\ out' = out /\ clears' = clears
  BY <1>2 DEF Apply
<1>8. NoLocals \in LocType
      /\ NoLocals.set = {} /\ NoLocals.chunked_count = 0
  BY DEF NoLocals, Lengths, LocType
<1>9. TypeOK'
  BY <1>4, <1>6, <1>7, <1>8 DEF IInv, TypeOK
<1>10. Knows'
  <2>1. \A name : Passed(name)' = {}
    BY <1>7 DEF Passed, Lines
  <2>2. i' <= Len(message'.headers) + 1
    BY <1>4, <1>6, <1>7, LenProperties
  <2>3. KnowsCodings'
    BY <1>7, <1>8, <2>1 DEF KnowsCodings
  <2>4. KnowsLength' /\ KnowsConnection' /\ KnowsUpgrade' /\ KnowsHost' /\ KnowsTrailer'
    BY <1>7, <1>8, <2>1 DEF KnowsLength, KnowsConnection, KnowsUpgrade, KnowsHost, KnowsTrailer
  <2>5. KnowsExpect'
    BY <1>7, <1>8, <2>1 DEF KnowsExpect
  <2> QED BY <2>2, <2>3, <2>4, <2>5 DEF Knows
<1>11. StartsClosed'
  <2>1. k = RESPONSE /\ FreshResponses => clears
    BY <1>1, <1>3 DEF FreshResponses
  <2>2. FreshResponses' <=> FreshResponses
    BY DEF FreshResponses
  <2> QED BY <1>3, <1>6, <1>7, <2>1, <2>2 DEF IInv, StartsClosed
<1>12. AcceptedIffWellFormed' /\ FramingFollowsRFC' /\ PersistenceFollowsRFC' /\ SignalsFollowMessage'
  BY <1>7 DEF AcceptedIffWellFormed, FramingFollowsRFC, PersistenceFollowsRFC, SignalsFollowMessage,
     Accepted, Answered
<1> QED BY <1>9, <1>10, <1>11, <1>12 DEF IInv

-----------------------------------------------------------------------------
LEMMA InitIInv == Init => IInv
<1> SUFFICES ASSUME Init PROVE IInv
  OBVIOUS
<1> USE DEF Init
<1>1. NoMessage \in MessageType
  BY DEF NoMessage, Message, Codes, MessageType
<1>2. Fresh \in OutType /\ ~Fresh.keep_alive
  BY DEF Fresh, OutType, Lengths
<1>3. NoLocals \in LocType
  BY DEF NoLocals, Lengths, LocType
<1>4. TypeOK
  BY <1>1, <1>2, <1>3 DEF TypeOK
<1>5. Knows /\ StartsClosed
  BY <1>2 DEF Knows, StartsClosed
<1>6. AcceptedIffWellFormed /\ FramingFollowsRFC /\ PersistenceFollowsRFC /\ SignalsFollowMessage
  BY DEF AcceptedIffWellFormed, FramingFollowsRFC, PersistenceFollowsRFC, SignalsFollowMessage,
     Accepted, Answered
<1> QED BY <1>4, <1>5, <1>6 DEF IInv

LEMMA StutterIInv == IInv /\ UNCHANGED vars => IInv'
<1> SUFFICES ASSUME IInv, UNCHANGED vars PROVE IInv'
  OBVIOUS
<1>1. /\ message' = message /\ out' = out /\ pc' = pc /\ i' = i /\ loc' = loc
      /\ status' = status /\ clears' = clears
  BY DEF vars
<1>2. /\ \A j : ValueOf(j)' = ValueOf(j) /\ Spots(j)' = Spots(j)
      /\ \A name : Lines(name)' = Lines(name)
      /\ (WellFormed' <=> WellFormed) /\ RFCBody' = RFCBody /\ (LenientBoth' <=> LenientBoth)
  BY <1>1, SameMessage
<1>3. \A name : Passed(name)' = Passed(name)
  BY <1>1, <1>2 DEF Passed
<1>4. \A j, name : (LastPassed(j, name)' <=> LastPassed(j, name)) /\ (IsLast(j, name)' <=> IsLast(j, name))
  BY <1>2, <1>3 DEF LastPassed, IsLast
<1>5. TypeOK' /\ StartsClosed'
  BY <1>1 DEF IInv, TypeOK, StartsClosed, FreshResponses
<1>6. Knows'
  <2>1. KnowsCodings => KnowsCodings'
    BY <1>1, <1>2, <1>3, <1>4 DEF KnowsCodings
  <2>2. (KnowsLength => KnowsLength') /\ (KnowsConnection => KnowsConnection')
    BY <1>1, <1>2, <1>3 DEF KnowsLength, KnowsConnection
  <2>3. /\ KnowsUpgrade => KnowsUpgrade'
        /\ KnowsHost => KnowsHost'
        /\ KnowsTrailer => KnowsTrailer'
    BY <1>1, <1>2, <1>3 DEF KnowsUpgrade, KnowsHost, KnowsTrailer
  <2>4. KnowsExpect => KnowsExpect'
    BY <1>1, <1>2, <1>3, <1>4 DEF KnowsExpect
  <2> QED BY <1>1, <2>1, <2>2, <2>3, <2>4 DEF IInv, Knows
<1>7. AcceptedIffWellFormed' /\ FramingFollowsRFC'
  BY <1>1, <1>2 DEF IInv, AcceptedIffWellFormed, FramingFollowsRFC, Accepted, Answered
<1>8. SignalsFollowMessage' /\ (FreshResponses => PersistenceFollowsRFC')
  BY <1>1 DEF IInv, SignalsFollowMessage, PersistenceFollowsRFC, Accepted, Answered, Present, Lists,
     IsLast, Lines, ValueOf
<1> QED BY <1>5, <1>6, <1>7, <1>8 DEF IInv, FreshResponses

(* The loop's knowledge, and the decisions that follow from it, hold in    *)
(* every state of the semantics layer of src/ihtp_semantics.c.             *)
THEOREM Invariance == Spec => []IInv
<1>1. IInv /\ [Next]_vars => IInv'
  BY ApplyPreserves, TransferEncodingPreserves, ContentLengthPreserves, ConnectionPreserves,
     UpgradePreserves, HostPreserves, ExpectPreserves, TrailerPreserves, OtherFieldPreserves,
     ConcludePreserves, ReusePreserves, StutterIInv, Zenon DEF Next
<1> QED BY <1>1, InitIInv, PTL DEF Spec

(* For any header lines, ihtp_request_apply_semantics() and ihtp_response_ *)
(* apply_semantics() return IHTP_OK exactly for the well-formed messages.  *)
THEOREM AcceptsWellFormed == Spec => []AcceptedIffWellFormed
<1>1. IInv => AcceptedIffWellFormed
  BY DEF IInv
<1> QED BY <1>1, Invariance, PTL

(* For any header lines, the body mode and the length written to the       *)
(* message struct are those of the rules of RFC 9112 section 6.3.          *)
THEOREM FramesAsRFC == Spec => []FramingFollowsRFC
<1>1. IInv => FramingFollowsRFC
  BY DEF IInv
<1> QED BY <1>1, Invariance, PTL

(* For any header lines and whatever the struct held before, the upgrade,  *)
(* expect and trailer signals are those of the message alone.              *)
THEOREM SignalsOfMessage == Spec => []SignalsFollowMessage
<1>1. IInv => SignalsFollowMessage
  BY DEF IInv
<1> QED BY <1>1, Invariance, PTL

(* Where responses are parsed into cleared structs, keep_alive is what RFC *)
(* 9112 section 9.3 says of the message, for any header lines.  A response *)
(* without a connection option leaves keep_alive as it finds it, so a      *)
(* struct that served an earlier message would decide.                     *)
THEOREM PersistsAsRFC == FreshResponses /\ Spec => []PersistenceFollowsRFC
<1>1. IInv => (FreshResponses => PersistenceFollowsRFC)
  BY DEF IInv
<1>2. FreshResponses => []FreshResponses
  BY DEF FreshResponses
<1> QED BY <1>1, <1>2, Invariance, PTL
=============================================================================
