CONSTANTS
  Nil = Nil
  Region = "region"
  Budget = 4
  BlockLimit = 2
  Catalogue <- SmallCatalogue
  Blocks <- SomeBlocks
  Needs <- SomeNeeds
  Chars <- CharsOf
  IdOrder <- IdsInOrder
  Letters = {"a", "b", "c", "d"}
  Digits = {"1", "2"}
SPECIFICATION Spec
INVARIANTS
  StoredIsNormal
  ChangesRebuild
  OkIsVetted
  RootIsStable
