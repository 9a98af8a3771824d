\* A pipeline's declared output width against its last stage's.
SPECIFICATION LinkSpec
CONSTANTS
    Catalogue <- MCCatalogue
    Chains <- MCChains
INVARIANTS
    DeclaredWidthIsTheLastStages
