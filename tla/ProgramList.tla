---------------------------- MODULE ProgramList ----------------------------
(***************************************************************************)
(* The programs of the application groups, from the lines of the user's    *)
(* texts to the driver's choice of a rule for a path: ConfUtil             *)
(* (confutil.cpp) takes the lines, group by group, into sorted maps of     *)
(* programs, of folders ("folder\**") and of patterns, and                *)
(* fort_conf_app_find (fortconf.c) looks for the program, then searches    *)
(* the folders, then tries the patterns (WildMatch).                       *)
(*                                                                         *)
(* A path is a sequence of UTF-16 units, which the user interface orders   *)
(* by their values and the driver by their bytes, the low one first, which *)
(* are signed.                                                             *)
(* The lines of a behaviour are programs and folders, or patterns.         *)
(***************************************************************************)
EXTENDS Integers, Sequences, FiniteSets, SequencesExt, WildMatch

CONSTANTS
  Byte,     \* 256: values of a byte
  Letters,  \* UTF-16 units
  MaxPath,  \* bound: the length of a path
  MaxRules, \* bound: lines of the texts
  Name,     \* a character of names; paths have the next one as well
  MaxTried, \* bound: the length of such a path
  MaxTokens \* bound: the length of a pattern, in Tokens

ASSUME ProgramAssumption ==
  /\ Byte \in Nat \ {0} /\ Letters \subseteq 0 .. Byte * Byte - 1
  /\ Name \in Nat
  /\ MaxPath \in Nat /\ MaxRules \in Nat /\ MaxTried \in Nat /\ MaxTokens \in Nat

Paths == UNION { [1 .. n -> Letters] : n \in 1 .. MaxPath }

(* What patterns are made of, and the paths they are tried on.             *)
Tokens ==
  { <<Name>>, <<Sep>>, <<Question>>, <<Star>>, <<Star, Star>>, <<Open>>,
    <<Open, CHOOSE c \in Negate : TRUE, Name, Close>>, <<Open, Name, Dash, Name + 1, Close>> }
TriedPaths == UNION { [1 .. n -> {Name, Name + 1, Sep}] : n \in 1 .. MaxTried }

VARIABLES
  rules,         \* the lines, in order: [kind, path]; of patterns: "wild"
  nextRule,      \* the number of the line to add
  exeAppsMap, prefixAppsMap, wildAppsMap,  \* [paths -> number of the line]
  prefixApps,    \* the driver's array of the folders
  wildApps,      \* and of the patterns
  path, first, last, found,    \* the search; found: a line, 0: none
  programPlace   \* "parse", "written", "prefix" or "done"

rulesVars == <<rules, nextRule, exeAppsMap, prefixAppsMap, wildAppsMap>>
programVars == <<rulesVars, prefixApps, wildApps, path, first, last, found, programPlace>>

(* parseAppPath: a line with a special character is a pattern, unless it   *)
(* has no other than two asterisks at its end.                             *)
IsWild(p) ==
  LET special == { n \in 1 .. Len(p) : p[n] \in GlobSpecial }
  IN /\ special # {}
     /\ ~ (p[FirstOf(special)] = Star /\ FirstOf(special) = Len(p) - 1 /\ p[Len(p)] = Star)

Patterns(n) ==
  { p \in { FlattenSeq(s) : s \in UNION { [1 .. k -> Tokens] : k \in 1 .. n } } : IsWild(p) }
WildLines(n) == [kind : {"wild"}, path : Patterns(n)]

(* One pattern, or two short ones. *)
AppTexts == UNION { [1 .. n -> [kind : {"exe", "prefix"}, path : Paths]] : n \in 0 .. MaxRules }
Texts == AppTexts \cup [1 .. 1 -> WildLines(MaxTokens)] \cup [1 .. 2 -> WildLines(MaxTokens - 2)]
EmptyMap == [p \in {} |-> 0]

ProgramStart ==
  /\ nextRule = 1
  /\ exeAppsMap = EmptyMap /\ prefixAppsMap = EmptyMap /\ wildAppsMap = EmptyMap
  /\ prefixApps = <<>> /\ wildApps = <<>>
  /\ path = <<>> /\ first = 0 /\ last = 0 /\ found = 0

ProgramInit == rules \in Texts /\ ProgramStart /\ programPlace = "parse"

-----------------------------------------------------------------------------
(* ConfUtil *)

(* addApp: a program's row in the table may replace a line, no line        *)
(* replaces another.                                                       *)
WithApp(map, p, n) ==
  IF p \in DOMAIN map THEN map
  ELSE [q \in DOMAIN map \cup {p} |-> IF q = p THEN n ELSE map[q]]

(* parseAppsText, addParsedApp, addApp *)
AddParsedApp ==
  /\ programPlace = "parse" /\ nextRule \in DOMAIN rules
  /\ LET r == rules[nextRule]
     IN \/ /\ r.kind = "exe"
           /\ exeAppsMap' = WithApp(exeAppsMap, r.path, nextRule)
           /\ UNCHANGED <<prefixAppsMap, wildAppsMap>>
        \/ /\ r.kind = "prefix"
           /\ prefixAppsMap' = WithApp(prefixAppsMap, r.path, nextRule)
           /\ UNCHANGED <<exeAppsMap, wildAppsMap>>
        \/ /\ r.kind = "wild"
           /\ wildAppsMap' = WithApp(wildAppsMap, r.path, nextRule)
           /\ UNCHANGED <<exeAppsMap, prefixAppsMap>>
  /\ nextRule' = nextRule + 1
  /\ UNCHANGED <<rules, prefixApps, wildApps, path, first, last, found, programPlace>>

(* Where p and q first differ, or one of them ends. *)
Split(p, q) ==
  CHOOSE n \in 1 .. Len(p) + 1 :
    /\ n > Len(p) \/ n > Len(q) \/ p[n] # q[n]
    /\ \A k \in 1 .. n - 1 : k <= Len(q) /\ p[k] = q[k]

(* QString's order. *)
Less(p, q) ==
  LET n == Split(p, q) IN n <= Len(q) /\ (n > Len(p) \/ p[n] < q[n])

(* The keys of a sorted map, in their order. *)
Sorted(S) ==
  CHOOSE s \in [1 .. Cardinality(S) -> S] :
    Range(s) = S /\ \A m, n \in DOMAIN s : m < n => Less(s[m], s[n])

(* writeApps *)
WriteApps ==
  /\ programPlace = "parse" /\ nextRule \notin DOMAIN rules
  /\ prefixApps' = Sorted(DOMAIN prefixAppsMap)
  /\ wildApps' = Sorted(DOMAIN wildAppsMap)
  /\ programPlace' = "written"
  /\ UNCHANGED <<rulesVars, path, first, last, found>>

-----------------------------------------------------------------------------
(* The driver. *)

Low(c) == c % Byte
High(c) == c \div Byte

(* A byte as a char of the driver's build. *)
Signed(b) == IF 2 * b >= Byte THEN b - Byte ELSE b

(* fort_memcmp, of two units in memory: the difference of their first      *)
(* bytes that differ.                                                      *)
ByteLess(c, d) ==
  \/ Signed(Low(c)) < Signed(Low(d))
  \/ Low(c) = Low(d) /\ Signed(High(c)) < Signed(High(d))

(* fort_conf_app_prefix_cmp: as far as the shorter one goes. *)
PrefixCmp(p, folder) ==
  LET n == Split(p, folder)
  IN IF n > Len(p) \/ n > Len(folder) THEN 0
     ELSE IF ByteLess(p[n], folder[n]) THEN -1 ELSE 1

(* Mistake: the last folder is not looked at. *)
LastOf_Less == Len(prefixApps) - 2

LastOf == Len(prefixApps) - 1

(* fort_conf_app_find *)
Find ==
  /\ programPlace = "written"
  /\ path' \in IF wildApps = <<>> THEN Paths ELSE TriedPaths
  /\ IF path' \in DOMAIN exeAppsMap
     THEN found' = exeAppsMap[path'] /\ programPlace' = "done"
     ELSE found' = 0 /\ programPlace' = "prefix"
  /\ first' = 0 /\ last' = LastOf
  /\ UNCHANGED <<rulesVars, prefixApps, wildApps>>

(* fort_conf_app_prefix_find *)
PrefixProbe ==
  LET middle == (first + last) \div 2
      folder == prefixApps[middle + 1]
      res == PrefixCmp(path, folder)
  IN /\ programPlace = "prefix" /\ first <= last
     /\ \/ /\ res < 0
           /\ last' = middle - 1
           /\ UNCHANGED <<first, found, programPlace>>
        \/ /\ res > 0
           /\ first' = middle + 1
           /\ UNCHANGED <<last, found, programPlace>>
        \/ /\ res = 0
           /\ found' = prefixAppsMap[folder] /\ programPlace' = "done"
           /\ UNCHANGED <<first, last>>
     /\ UNCHANGED <<rulesVars, prefixApps, wildApps, path>>

(* fort_conf_app_wild_find: the first pattern that matches; there may be   *)
(* none.                                                                   *)
WildFind ==
  /\ programPlace = "prefix" /\ first > last
  /\ LET matching == { n \in DOMAIN wildApps : Wildmatch(wildApps[n], path) = "match" }
     IN found' = IF matching = {} THEN 0 ELSE wildAppsMap[wildApps[FirstOf(matching)]]
  /\ programPlace' = "done"
  /\ UNCHANGED <<rulesVars, prefixApps, wildApps, path, first, last>>

ProgramNext == AddParsedApp \/ WriteApps \/ Find \/ PrefixProbe \/ WildFind

ProgramSpec == ProgramInit /\ [][ProgramNext]_programVars

-----------------------------------------------------------------------------
Folders == { rules[n].path : n \in { k \in DOMAIN rules : rules[k].kind = "prefix" } }
ExePaths == { rules[n].path : n \in { k \in DOMAIN rules : rules[k].kind = "exe" } }

(* The first line for a path, which decides. *)
LineOf(kind, p) ==
  CHOOSE n \in DOMAIN rules :
    /\ rules[n] = [kind |-> kind, path |-> p]
    /\ \A k \in 1 .. n - 1 : rules[k] # rules[n]

(* A folder in another one: either may be found, or none. *)
Nested == \E p, q \in Folders : p # q /\ IsPrefix(p, q)

(* Folders that the user interface and the driver order differently, as    *)
(* with letters of two scripts, or one of ASCII and one that is not: the   *)
(* search goes the wrong way.                                              *)
Disordered == \E p, q \in Folders : Less(p, q) /\ PrefixCmp(p, q) > 0

(* A path that ends before a folder's does. *)
Short == \E p \in Folders : p # path /\ IsPrefix(path, p)

Matching == { n \in DOMAIN rules : rules[n].kind = "wild" /\ Means(rules[n].path, path) }

(* The line a program gets: its own, else that of its folder, the first if *)
(* there are several; else one of a pattern that means its path.           *)
Wanted ==
  IF path \in ExePaths THEN {LineOf("exe", path)}
  ELSE IF \E p \in Folders : IsPrefix(p, path)
       THEN {LineOf("prefix", CHOOSE p \in Folders : IsPrefix(p, path))}
       ELSE IF Matching = {} THEN {0} ELSE Matching

(* A program that has a line of its own gets it, and one in a folder of    *)
(* the lists gets the folder's, of the first group that names it; but for  *)
(* lists with folders in one another or that the driver orders otherwise.  *)
(* One that a pattern means gets the line of such a pattern, although the  *)
(* search of a match gives up early, and no other gets it.                 *)
ProgramDecided ==
  programPlace = "done" =>
    found \in Wanted \/ (path \notin ExePaths /\ (Nested \/ Disordered \/ Short))
=============================================================================
