----------------------------- MODULE WildMatch -----------------------------
(***************************************************************************)
(* The patterns of program paths: wildmatch (wildmatch.c), and what they   *)
(* mean.  A pattern and a path are sequences of characters.  The code      *)
(* gives up early in two ways that its callers tell apart, so that a long  *)
(* path is not tried again and again; the meaning tries everything.        *)
(***************************************************************************)
EXTENDS Integers, Sequences, SequencesExt

Star == 42   \* *
Dash == 45   \* -
Question == 63  \* ?
Open == 91   \* [
Sep == 92    \* DIR_SEP
Close == 93  \* ]
Negate == {33, 94}  \* ! and ^

GlobSpecial == {Star, Question, Open}

Where(s, i, c) == { n \in i .. Len(s) : s[n] = c }
FirstOf(S) == CHOOSE n \in S : \A m \in S : n <= m

(* After the asterisks that begin at i. *)
AfterStars(p, i) ==
  FirstOf({ n \in i + 1 .. Len(p) + 1 : n > Len(p) \/ p[n] # Star })

(* Two asterisks or more between separators, or the ends, cross            *)
(* directories.                                                            *)
Crosses(p, i) ==
  LET k == AfterStars(p, i)
  IN /\ k - i >= 2
     /\ i = 1 \/ p[i - 1] = Sep
     /\ k > Len(p) \/ p[k] = Sep

(* The class of characters that begins at i: what is in it, and where it   *)
(* ends; end 0: it does not.  A dash after a single one makes a range.     *)
Negated(p, i) == i < Len(p) /\ p[i + 1] \in Negate
Class(p, i) ==
  LET rest[k \in 1 .. Len(p) + 1] ==
        [single \in BOOLEAN |->
           IF k > Len(p) THEN [end |-> 0, chars |-> {}]
           ELSE LET range == p[k] = Dash /\ single /\ k < Len(p) /\ p[k + 1] # Close
                    next == IF range THEN k + 2 ELSE k + 1
                    chars == IF range THEN p[k - 1] .. p[k + 1] ELSE {p[k]}
                IN IF next <= Len(p) /\ p[next] = Close
                   THEN [end |-> next, chars |-> chars]
                   ELSE [rest[next][~ range] EXCEPT !.chars = @ \cup chars]]
  IN rest[IF Negated(p, i) THEN i + 2 ELSE i + 1][FALSE]
InClass(p, i, c) == c # Sep /\ ((c \in Class(p, i).chars) # Negated(p, i))

-----------------------------------------------------------------------------
(* Mistake: a directory that does not match ends the search in all others. *)
GivesUp_Always(res, crosses) == TRUE

(* What another place for the asterisks cannot change. *)
GivesUp(res, crosses) == ~ crosses \/ res # "abort_to_starstar"

Ends(res, c, crosses) ==
  IF res = "nomatch" THEN ~ crosses /\ c = Sep ELSE GivesUp(res, crosses)

(* The rest of the pattern after its asterisks, p[k], at the places from j *)
(* on, as far as they may go, until one ends it.  A character that is not  *)
(* special is skipped to.  res: how the rest ends at each place.           *)
Places(p, t, k, j, crosses, res) ==
  LET literal == p[k] \notin GlobSpecial
      last == IF crosses \/ Where(t, j, Sep) = {} THEN Len(t) ELSE FirstOf(Where(t, j, Sep)) - 1
      tried == IF literal THEN { n \in Where(t, j, p[k]) : n <= last } ELSE j .. Len(t)
      ending == { n \in tried : Ends(res[n], t[n], crosses) }
  IN IF ending # {}
     THEN IF res[FirstOf(ending)] = "nomatch" THEN "abort_to_starstar" ELSE res[FirstOf(ending)]
     ELSE IF literal /\ j <= Len(t) /\ Len(t) \notin tried THEN "nomatch"
     ELSE "abort_all"

Asterisks(p, t, i, j, rest) ==
  LET k == AfterStars(p, i)
      crosses == Crosses(p, i)
      slashes == Where(t, j, Sep)
  IN IF crosses /\ k <= Len(p) /\ rest[k + 1][j] = "match"
     THEN "match"
     ELSE IF k > Len(p)
     THEN IF crosses \/ slashes = {} THEN "match" ELSE "nomatch"
     ELSE IF ~ crosses /\ p[k] = Sep
     THEN IF slashes = {} THEN "nomatch" ELSE rest[k + 1][FirstOf(slashes) + 1]
     ELSE Places(p, t, k, j, crosses, rest[k])

(* How the pattern from p[i] on and the path from t[j] on end, of which    *)
(* rest says it for the later places of the pattern.                       *)
Turn(p, t, i, j, rest) ==
  IF i > Len(p) THEN IF j > Len(t) THEN "match" ELSE "nomatch"
  ELSE IF p[i] = Star THEN Asterisks(p, t, i, j, rest)
  ELSE IF j > Len(t) THEN "abort_all"
  ELSE IF p[i] = Open
  THEN IF Class(p, i).end = 0 THEN "abort_all"
       ELSE IF InClass(p, i, t[j]) THEN rest[Class(p, i).end + 1][j + 1]
       ELSE "nomatch"
  ELSE IF t[j] = p[i] \/ (p[i] = Question /\ t[j] # Sep) THEN rest[i + 1][j + 1]
  ELSE "nomatch"

(* A call for the rest of the pattern looks back no further than to where  *)
(* it began: after a separator, or at a character that is no asterisk, so  *)
(* that it sees what the whole pattern has there.                          *)
Loop(p, t) ==
  LET rest[i \in 1 .. Len(p) + 1] == [j \in 1 .. Len(t) + 1 |-> Turn(p, t, i, j, rest)]
  IN rest

(* wildmatch: 'match', or why not. *)
Wildmatch(p, t) == Loop(p, t)[1][1]

-----------------------------------------------------------------------------
(* What a pattern means, from p[i] and t[j] on: an asterisk is any part of *)
(* a name; two that stand for directories are any path, or none with the   *)
(* separator after them; the other characters are one.                     *)
MeansFrom(p, t, i, j, rest) ==
  \/ i > Len(p) /\ j > Len(t)
  \/ /\ i <= Len(p) /\ p[i] = Star
     /\ LET k == AfterStars(p, i)
        IN \/ \E n \in j .. Len(t) + 1 :
                /\ Crosses(p, i) \/ \A m \in j .. n - 1 : t[m] # Sep
                /\ rest[k][n]
           \/ Crosses(p, i) /\ k <= Len(p) /\ rest[k + 1][j]
  \/ /\ i <= Len(p) /\ j <= Len(t) /\ p[i] = Open
     /\ Class(p, i).end # 0 /\ InClass(p, i, t[j])
     /\ rest[Class(p, i).end + 1][j + 1]
  \/ /\ i <= Len(p) /\ j <= Len(t) /\ p[i] \notin {Star, Open}
     /\ t[j] = p[i] \/ (p[i] = Question /\ t[j] # Sep)
     /\ rest[i + 1][j + 1]

Meanings(p, t) ==
  LET rest[i \in 1 .. Len(p) + 1] == [j \in 1 .. Len(t) + 1 |-> MeansFrom(p, t, i, j, rest)]
  IN rest

Means(p, t) == Meanings(p, t)[1][1]
=============================================================================
