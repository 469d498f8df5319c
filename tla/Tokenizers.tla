----------------------------- MODULE Tokenizers -----------------------------
(***************************************************************************)
(* create_tokenizer (tokenizer/registry.cpp): the file names a family, and *)
(* the tokenizer of that family is made of it and used.  The state of the  *)
(* other stays what it was.                                                *)
(***************************************************************************)
EXTENDS SpmBpe, WordPiece

CONSTANT Families  \* what tokenizer.ggml.model may say

VARIABLE family

tokenizerVars == <<vars, wordpieceVars, family>>

Init_SpmBpe ==
  /\ family = "llama"
  /\ Init
  /\ raw = [pieces |-> <<>>] /\ sentence = <<>> /\ limit = 0
  /\ encoded = <<>> /\ stage = "unused"

(* A family other than "bert" and "llama" is refused. *)
Init_WordPiece ==
  /\ family \in Families \ {"llama"}
  /\ IF family = "bert" THEN WordPieceInit
     ELSE /\ raw = [pieces |-> <<>>] /\ sentence = <<>> /\ limit = 0
          /\ encoded = <<>> /\ stage = "refused"
  /\ rules = <<>> /\ text = <<>> /\ config = [limit |-> 0]
  /\ file = <<>> /\ fences = <<>> /\ intact = TRUE
  /\ scratch = EmptyScratch
  /\ syms = <<>> /\ queue = {} /\ ids = <<>>
  /\ pc = "unused"

TokenizersInit == Init_SpmBpe \/ Init_WordPiece

UseSpmBpe == family = "llama" /\ Next /\ UNCHANGED <<wordpieceVars, family>>

UseWordPiece == family = "bert" /\ WordPieceNext /\ UNCHANGED <<vars, family>>

create_tokenizer == UseSpmBpe \/ UseWordPiece

TokenizersSpec == TokenizersInit /\ [][create_tokenizer]_tokenizerVars
=============================================================================
