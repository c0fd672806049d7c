SPECIFICATION APSpec
CONSTANTS
  Inputs <- MCInputs
  Configs <- MCConfigs
  Depth = 3
  SystemFields = {"_links"}
  RefExtraKeys = {"id", "_links"}
  Replies = {"text", "error", "other"}
  Texts <- MCTexts
  Options <- MCOptions
  FilteredInputs <- MCFilteredInputs
  FilteredConfigs <- MCFilteredConfigs
INVARIANTS
  NoEmptiesLeft
  OnlyNoiseRemoved
  FiltersHold
  SignalEndsCall
