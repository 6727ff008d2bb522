\* Lists of up to three lines: ranges of six addresses; paths of up to two of
\* three letters: of the first two, and of the first and the last, the driver has
\* the order of their bytes otherwise (a byte that is negative, two scripts); a pattern
\* of up to four tokens, or two shorter ones, tried on paths of three.  Two of at
\* most three zones, whose ids may have two sources, of two times; two changes,
\* failing writes counted.
\* Three groups, one program in a group, three changes of groups.
\* A list that has been searched does nothing more; the zones end with the bounds.
CHECK_DEADLOCK FALSE
CONSTANTS
  LastIp = 5
  MaxLines = 3
  Byte = 4
  Letters = {1, 2, 4}
  MaxPath = 2
  MaxRules = 3
  Name = 97
  MaxTried = 3
  MaxTokens = 4
  MaxZones = 3
  Given = {1, 3}
  MaxSources = 2
  MaxTime = 1
  MaxEdits = 2
  None = None
  MaxGroups = 3
  GroupTexts = {"x", "y"}
  GroupPrograms = {"p"}
  NoGroup = NoGroup
  NoEdit = NoEdit
  MaxGroupEdits = 3
SPECIFICATION ConfListsSpec
INVARIANTS AddressDecided ProgramDecided ZonesInDriver ZoneFlagsAgree GroupsInTable
