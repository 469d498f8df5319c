SPECIFICATION TokenizersSpec
CONSTANTS
  Vocab <- MCVocab
  RecordsPerPage = 2
  Slots = 1
  Bytes = {"b"}
  Inputs <- MCInputs
  RuleLists <- MCRuleLists
  MaxEditedText = 3
  Blank = {" "}
  Punctuation = {"[", "#"}
  LowerCase <- MCLowerCase
  MaxWord = 3
  Vocabularies <- MCVocabularies
  Texts <- MCTexts
  Limits = {1, 2, 3, 6}
  Families = {"llama", "bert", "gpt2"}
INVARIANTS
  TypeOK
  CreatedIndexIsAccepted
  TokensAreInVocabulary
  ResultIsWrapped
  PiecesSpellTheWords
PROPERTY MergesLowestRankFirst
CHECK_DEADLOCK FALSE
