---------------------------- MODULE MC_Tokenizers ----------------------------
EXTENDS Tokenizers

(* Every piece of at most two characters and some of three; "ab" twice, and *)
(* the special tokens.                                                      *)
MCVocab == << <<"bos">>, <<"a">>, <<"b">>, <<"a", "b">>, <<"b", "a">>, <<"a", "a">>, <<"b", "b">>,
              <<"a", "b">>, <<"a", "b", "a">>, <<"a", "a", "a">>, <<"b", "a", "b">>, <<"eos">> >>

(* Rules for every two characters and for some results of three; one whose  *)
(* result has no piece, and one without separator.                          *)
MCRules ==
  {<< <<x>>, <<y>> >> : x, y \in {"a", "b"}} \cup
  {<< <<"a", "b">>, <<"a">> >>, << <<"a">>, <<"b", "a">> >>, << <<"a", "a">>, <<"a">> >>,
   << <<"b">>, <<"a", "b">> >>, << <<"b", "b">>, <<"b">> >>, << <<"a">> >>}

(* Every merge list of three rules: also repeated rules, rules that nothing *)
(* produces the operands of, and rules ranked before those they need.       *)
MCRuleLists == [1 .. 3 -> MCRules]

Config(max, add_bos, suffix, add_eos) ==
  [limit |-> max, bos |-> 1, add_bos |-> add_bos,
   suffix |-> suffix, eos |-> 12, add_eos |-> add_eos]

Strings(n) == {t \in [1 .. n -> {"a", "b"}] : t[1] = "a"}

(* The two characters are nearly interchangeable: texts begin with the      *)
(* first.  Limits at, below and just above the special tokens.              *)
MCInputs ==
  ({<<>>} \cup Strings(3) \cup Strings(4) \cup Strings(5)) \X {Config(4, TRUE, 12, FALSE)}
  \cup {<<"a", "b">>} \X {Config(1, TRUE, 12, FALSE), Config(2, TRUE, NoId, TRUE),
                          Config(1, FALSE, 12, TRUE), Config(1, FALSE, NoId, FALSE)}

(* A vocabulary as the converter of BERT models writes it: [CLS], [SEP],    *)
(* [PAD] and [UNK], then "_a", "_ab", "_[", and the continuations a, b, bb, *)
(* "[" (which takes the notation of "_[") and a second "_ab".               *)
Raw(bow, s) == [bow |-> bow, text |-> s]

MCPieces ==
  << Raw(FALSE, <<"[", "CLS">>), Raw(FALSE, <<"[", "SEP">>), Raw(FALSE, <<"[", "PAD">>),
     Raw(FALSE, <<"[", "UNK">>), Raw(TRUE, <<"a">>), Raw(TRUE, <<"a", "b">>), Raw(TRUE, <<"[">>),
     Raw(FALSE, <<"a">>), Raw(FALSE, <<"b">>), Raw(FALSE, <<"b", "b">>), Raw(FALSE, <<"[">>),
     Raw(TRUE, <<"a", "b">>) >>

Vocabulary(pieces, unk) == [pieces |-> pieces, cls |-> 1, sep |-> 2, pad |-> 3, unk |-> unk]

(* Whole; without the continuation b; without "_["; with "_##b" before b,  *)
(* which takes its notation; without pieces; with the unknown token past   *)
(* its end.                                                                *)
MCVocabularies ==
  {Vocabulary(MCPieces, 4), Vocabulary(RemoveAt(MCPieces, 9), 4), Vocabulary(RemoveAt(MCPieces, 7), 4),
   Vocabulary(InsertAt(MCPieces, 9, Raw(TRUE, <<"#", "#", "b">>)), 4),
   Vocabulary(<<>>, 4), Vocabulary(MCPieces, 13)}

MCLowerCase == [c \in {"A"} |-> "a"]

MCTexts ==
  UNION {[1 .. n -> {"a", "b", "A", "[", " "}] : n \in 0 .. 4}
  \cup [1 .. 3 -> {"a", "b", "#", " "}]
===============================================================================
