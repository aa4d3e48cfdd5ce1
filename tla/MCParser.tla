------------------------------ MODULE MCParser ------------------------------
(* Small instances of the message parser for TLC.                           *)
EXTENDS ParserReference, SequencesExt

MCPolicy(fold, lf, sp) ==
  [reject_obs_fold |-> fold, reject_bare_lf |-> lf, allow_spaces_in_uri |-> sp]

(* IHTP_POLICY_STRICT, IHTP_POLICY_LENIENT, and lenient about folds only.   *)
MCPolicies == {MCPolicy(TRUE, TRUE, FALSE), MCPolicy(FALSE, FALSE, TRUE),
               MCPolicy(FALSE, TRUE, FALSE)}
MCStrict   == {MCPolicy(TRUE, TRUE, FALSE)}

(* Header blocks: every sequence of these symbols, in every cut into slices *)
(* of one or two.                                                           *)
BlockSlices == BoundedSeq({"t", ":", "SP", "CR", "LF"}, 2) \ {<<>>}

(* Heads put together from pieces that also end in the middle of a line     *)
(* terminator or of a start line, with the bytes of a next request.         *)
RequestSlices ==
  { <<"t", "SP">>, <<"t", "SP", "V11">>, <<"SP", "V10", "CR">>, <<"LF">>, <<"CR", "LF">>,
    <<"t", ":", "SP", "t">>, <<"SP", "t">>, <<"CTL">>,
    <<"t", "SP", "t", "SP", "V11", "CR", "LF", "t", ":", "CR", "LF", "HT">>,
    <<"CR", "LF", "CR", "LF", "t", "SP", "t">> }

ResponseSlices ==
  { <<"V11", "SP", "D", "SP">>, <<"V10", "SP">>, <<"D", "SP", "CR">>, <<"t", ":", "SP">>,
    <<"LF">>, <<"CR", "LF">>, <<"CTL">> }

FieldSlices == { <<"t", ":", "SP">>, <<"t", "CR">>, <<"LF">>, <<"CR", "LF">>, <<"SP", "t">> }

MCSlices(m, s) ==
  CASE m = REQUEST -> RequestSlices
    [] m = RESPONSE -> ResponseSlices
    [] OTHER -> IF s THEN FieldSlices ELSE BlockSlices

MCMaxBuffer(m, s) ==
  CASE m = REQUEST -> 12 [] m = RESPONSE -> 10 [] OTHER -> IF s THEN 9 ELSE 6
MCMaxHeaders(m) == IF m = HEADERS THEN 1 ELSE 2
=============================================================================
