CONSTANTS
  Bare <- MCBare
  Tags <- MCTags
  AzGroups <- MCAzGroups
  KeySeq <- MCKeySeq
  CapsOf <- MCCapsOf
  RootHelp <- MCRootHelp
  HelpOf <- MCHelpOf
  CannedHelp <- MCCannedHelp
  CutsOf <- MCCutsOf
SPECIFICATION FairSpec
INVARIANTS
  StoresAgree
  KnownGroupsWhole
  OneLateResult
PROPERTIES
  DiscoveryStops
