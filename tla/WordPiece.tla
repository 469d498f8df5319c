----------------------------- MODULE WordPiece -----------------------------
(***************************************************************************)
(* WordPieceTokenizer (tokenizer/wordpiece.cpp): the vocabulary is brought *)
(* into the notation of BERT and indexed, a text is cut into words and     *)
(* each word, greedily, into pieces.                                       *)
(*                                                                         *)
(* A raw piece is [bow, text] with a sequence of bytes as text, bow saying *)
(* that it carries the begin-of-word mark; a normalized piece is a         *)
(* sequence of bytes.  A token id is the position of the piece, from 1.    *)
(***************************************************************************)
EXTENDS Integers, Sequences, FiniteSets, SequencesExt

CONSTANTS
  Blank,        \* whitespace and control bytes
  Punctuation,
  LowerCase,    \* upper-case letter -> lower-case letter
  MaxWord,      \* kMaxInputCharsPerWord
  Vocabularies, \* raw vocabularies tried: [pieces, cls, sep, pad, unk]
  Texts,        \* texts tried
  Limits        \* effective limits tried

IsText(s) == s \in Seq({s[i] : i \in DOMAIN s})

(* The ranges of is_ascii_punct have "[" and "#" and no letter. *)
ASSUME WordAssumption ==
  /\ MaxWord \in Nat \ {0}
  /\ Blank \cap Punctuation = {}
  /\ {"[", "#"} \subseteq Punctuation
  /\ \A c \in DOMAIN LowerCase : c \notin Punctuation /\ LowerCase[c] \notin {"[", "#"}

ASSUME RawAssumption ==
  /\ \A v \in Vocabularies :
       IsText(v.pieces) /\ \A i \in DOMAIN v.pieces : v.pieces[i].bow \in BOOLEAN
                                                    /\ IsText(v.pieces[i].text)
  /\ \A t \in Texts : IsText(t)
  /\ Limits \subseteq Int

VARIABLES raw, sentence, limit, encoded, stage

wordpieceVars == <<raw, sentence, limit, encoded, stage>>

-----------------------------------------------------------------------------
Inner == <<"#", "#">>

(* Pieces that begin with "[", special ones among them, stay as they are;  *)
(* the mark of others is dropped, and those without one get "##" in front. *)
normalize_piece(p) ==
  IF p.bow \/ (p.text # <<>> /\ p.text[1] = "[") THEN p.text ELSE Inner \o p.text

Normalized(p) == {i \in DOMAIN raw.pieces : normalize_piece(raw.pieces[i]) = p}

\* Slip: ix_[piece] = i, so that a later equal piece takes over.
IdOfLast(p) ==
  IF Normalized(p) = {} THEN -1 ELSE CHOOSE i \in Normalized(p) : \A j \in Normalized(p) : j <= i

(* ix_.emplace keeps the first of equal pieces; -1 if there is none. *)
IdOf(p) ==
  IF Normalized(p) = {} THEN -1 ELSE CHOOSE i \in Normalized(p) : \A j \in Normalized(p) : i <= j

(* from_gguf: every special token must be in the vocabulary. *)
Loadable ==
  /\ raw.pieces # <<>>
  /\ {raw.cls, raw.sep, raw.pad, raw.unk} \subseteq DOMAIN raw.pieces

-----------------------------------------------------------------------------
Flush(s) == IF s.cur = <<>> THEN s ELSE [out |-> Append(s.out, s.cur), cur |-> <<>>]

Byte(s, c) ==
  IF c \in Blank THEN Flush(s)
  ELSE IF c \in Punctuation THEN [Flush(s) EXCEPT !.out = Append(@, <<c>>)]
  ELSE [s EXCEPT !.cur = Append(@, IF c \in DOMAIN LowerCase THEN LowerCase[c] ELSE c)]

basic_tokenize(text) == Flush(FoldLeft(Byte, [out |-> <<>>, cur |-> <<>>], text)).out

(* How the part of a word from behind byte start to byte end is looked up. *)
Key(word, start, end) ==
  IF start > 0 THEN Inner \o SubSeq(word, start + 1, end) ELSE SubSeq(word, start + 1, end)

(* The longest piece at start: end comes down from the end of the word to *)
(* the first that is in the vocabulary.                                     *)
PieceAt(word, start) ==
  LET piece(end) == IdOf(Key(word, start, end))
      found == {end \in start + 1 .. Len(word) : piece(end) # -1}
  IN  IF found = {} THEN [id |-> -1, end |-> start]
      ELSE [id |-> piece(Max(found)), end |-> Max(found)]

(* One turn of the outer loop, and from[...] what the turns behind it give. *)
wordpiece(word) ==
  LET from[start \in 0 .. Len(word)] ==
        LET p == PieceAt(word, start)
        IN  IF start = Len(word) THEN [ok |-> TRUE, ids |-> <<>>]
            ELSE IF p.id = -1 THEN [ok |-> FALSE, ids |-> <<>>]
            ELSE [ok |-> from[p.end].ok, ids |-> <<p.id>> \o from[p.end].ids]
  IN  IF Len(word) > MaxWord \/ ~from[0].ok \/ from[0].ids = <<>> THEN <<raw.unk>>
      ELSE from[0].ids

(* Ids are taken while there is room for the separator. *)
Room(ids, id) == IF Len(ids) >= limit - 1 THEN ids ELSE Append(ids, id)

encode ==
  LET pieces == FlattenSeq([i \in DOMAIN basic_tokenize(sentence) |->
                              wordpiece(basic_tokenize(sentence)[i])])
  IN  Append(FoldLeft(Room, <<raw.cls>>, pieces), raw.sep)

-----------------------------------------------------------------------------
WordPieceInit ==
  /\ raw \in Vocabularies /\ sentence \in Texts /\ limit \in Limits
  /\ encoded = <<>> /\ stage = "load"

from_gguf ==
  /\ stage = "load"
  /\ stage' = IF Loadable THEN "ready" ELSE "refused"
  /\ UNCHANGED <<raw, sentence, limit, encoded>>

(* "WordPiece max sequence length must be at least 2" *)
EncodeThrows ==
  /\ stage = "ready" /\ limit < 2
  /\ stage' = "threw"
  /\ UNCHANGED <<raw, sentence, limit, encoded>>

Encode ==
  /\ stage = "ready" /\ limit >= 2
  /\ encoded' = encode
  /\ stage' = "encoded"
  /\ UNCHANGED <<raw, sentence, limit>>

WordPieceNext == from_gguf \/ EncodeThrows \/ Encode

-----------------------------------------------------------------------------
(* A raw piece spells the part s of a word from behind the b-th byte on:   *)
(* with the mark, or if it is "[", at the beginning of the word; without   *)
(* it, or with "##" behind it, further on.                                 *)
Spells(i, b, s) ==
  LET p == raw.pieces[i]
  IN  \/ b = 0 /\ p.text = s /\ (p.bow \/ s = <<"[">>)
      \/ b > 0 /\ ~p.bow /\ p.text = s
      \/ b > 0 /\ p.bow /\ p.text = Inner \o s

Fits(word, i, b, e) == Spells(i, b, SubSeq(word, b + 1, e))

(* Behind the b-th byte no piece spells more than the bytes up to e, and i *)
(* is the first in the vocabulary that spells these.                       *)
BestFit(word, i, b, e) ==
  /\ Fits(word, i, b, e)
  /\ \A j \in DOMAIN raw.pieces :
       /\ Fits(word, j, b, e) => i <= j
       /\ \A f \in e + 1 .. Len(word) : ~Fits(word, j, b, f)

\* Where a word is cut into n parts.
Cuts(word, n) ==
  {t \in [1 .. n + 1 -> 0 .. Len(word)] :
     t[1] = 0 /\ t[n + 1] = Len(word) /\ \A k \in 1 .. n : t[k] < t[k + 1]}

(* A word cut into its best pieces. *)
Segmentation(word, n, t) ==
  {p \in [1 .. n -> DOMAIN raw.pieces] : \A k \in 1 .. n : BestFit(word, p[k], t[k], t[k + 1])}

Segmentations(word) ==
  UNION {UNION {Segmentation(word, n, t) : t \in Cuts(word, n)} : n \in 1 .. Len(word)}

(* The words of a text: its punctuation, and what lies between two bytes   *)
(* that are not of a word.                                                 *)
OfWord(c) == c \notin Blank \cup Punctuation

IsWord(t, i, j) ==
  \/ i = j /\ t[i] \in Punctuation
  \/ /\ \A k \in i .. j : OfWord(t[k])
     /\ i = 1 \/ ~OfWord(t[i - 1])
     /\ j = Len(t) \/ ~OfWord(t[j + 1])

Spans(t) == {s \in (DOMAIN t) \X (DOMAIN t) : s[1] <= s[2] /\ IsWord(t, s[1], s[2])}

SpansInOrder(t) ==
  CHOOSE s \in [1 .. Cardinality(Spans(t)) -> Spans(t)] :
    \A m, n \in DOMAIN s : m < n => s[m][1] < s[n][1]

Lower(c) == IF c \in DOMAIN LowerCase THEN LowerCase[c] ELSE c

Shown(t, i, j) == [k \in 1 .. j - i + 1 |-> Lower(t[i + k - 1])]

Words(t) == [n \in 1 .. Cardinality(Spans(t)) |->
               Shown(t, SpansInOrder(t)[n][1], SpansInOrder(t)[n][2])]

(* A text is encoded as the separate words it shows, each by its best      *)
(* pieces or as one unknown token, between CLS and SEP, cut off at the     *)
(* limit and never inside the wrapper.                                     *)
Pieces(word) ==
  IF Len(word) > MaxWord \/ Segmentations(word) = {} THEN <<raw.unk>>
  ELSE CHOOSE p \in Segmentations(word) : TRUE

PiecesSpellTheWords ==
  stage = "encoded" =>
    LET ids == FlattenSeq([n \in DOMAIN Words(sentence) |-> Pieces(Words(sentence)[n])])
    IN  encoded = <<raw.cls>> \o SubSeq(ids, 1, IF Len(ids) < limit - 2 THEN Len(ids) ELSE limit - 2)
                              \o <<raw.sep>>
=============================================================================
