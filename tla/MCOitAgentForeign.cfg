CONSTANTS
  Agents = {"a", "b"}
  Names = {"prod", "azork-oit-x", "azork-oit-oit"}
  OitName = "azork-oit-oit"
  Prefixed = {"azork-oit-x", "azork-oit-oit"}
  ForeignNames = {"prod", "azork-oit-oit"}
  Accounts = {"lab", "elsewhere"}
  Expected = "lab"
SPECIFICATION OitSpec
INVARIANTS
  NonDestructive
