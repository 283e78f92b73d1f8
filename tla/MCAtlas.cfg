CONSTANTS
  Groups = {1, 2, 3}
  Regions = {"west", "east"}
  Resources = {"a", "b"}
  GroupOf <- MCGroupOf
  Looks = {"x", "y"}
  StartGroups <- MCStartGroups
  StartResources <- MCStartResources
  Bias <- MCBias
  WingSize = 2
  Reach = 1
  Fines <- MCFines
  MaxChanges = 2
  Bulk = 17
SPECIFICATION Spec
CHECK_DEADLOCK FALSE
INVARIANTS
  PictureSound
  LayoutStable
  ReportTrue
