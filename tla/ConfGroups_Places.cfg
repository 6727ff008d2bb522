\* The default group and one that is added; one program.
CHECK_DEADLOCK FALSE
CONSTANTS
  MaxGroups = 2
  GroupTexts = {"x", "y"}
  GroupPrograms = {"p"}
  NoGroup = NoGroup
  NoEdit = NoEdit
  MaxGroupEdits = 2
SPECIFICATION GroupsSpec
INVARIANT RulesAtPlace
