\* Chains of up to three profiles, linked and simplified.
SPECIFICATION FairLinkSpec
CONSTANTS
    Catalogue <- MCCatalogue
    Chains <- MCChains
INVARIANTS
    EncodingsMeet
    InversePairsGone
    WalksAgree
PROPERTIES
    LinkingEnds
