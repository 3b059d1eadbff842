SPECIFICATION MCSpec
CONSTANTS
  Chosen = {"cycles", "syntax", "compress"}
  Files <- MCFiles
  None = None
  MaxLen = 7
  Grammars <- MCGrammars
  Kinds <- MCKinds
  Texts <- MCTexts
  Language <- MCLanguage
  Arity <- MCArity
  Proofs <- MCProofs
  Mandatories <- MCMandatories
  Lows = 2
  Highs = 2
INVARIANTS ReportsAreCycles RestRestsOnNothing SpellsWhatItCan ReadsBack
CHECK_DEADLOCK FALSE
