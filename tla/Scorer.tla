------------------------------- MODULE Scorer -------------------------------
(***************************************************************************)
(* The score of a posting for a user's profile: five dimensions, their     *)
(* weighted sum, and the mix with the similarity of the embeddings. Scores *)
(* are in ten-thousandths, rounded down.                                   *)
(*                                                                         *)
(* A title is a sequence of words; a place and a text are sets of them, so *)
(* that "contains" is inclusion. A word list has no stop words.            *)
(***************************************************************************)
EXTENDS Integers, Sequences, FiniteSets, FiniteSetsExt, Functions

Whole == 10000
NotGiven == -1     \* a salary bound that is NULL

(* Postings pay in digits, users may ask for anything.                      *)
Posting == [title : Seq(STRING), place : SUBSET STRING, remote : BOOLEAN, text : BOOLEAN,
            min : Nat \cup {NotGiven}, max : Nat \cup {NotGiven}, keywords : SUBSET STRING, mentions : SUBSET STRING,
            level : 0..5]
Profile == [complete : BOOLEAN, titles : SUBSET Seq(STRING), places : SUBSET SUBSET STRING,
            remotePref : STRING, min : Int, max : Int, exclusions : SUBSET STRING,
            text : BOOLEAN, keywords : SUBSET STRING, level : 0..5]

-----------------------------------------------------------------------------
(* Words of b that a has, over the words of both: a word that b repeats     *)
(* counts each time.                                                        *)
WordOverlap(a, b) ==
  LET shared == Cardinality({i \in DOMAIN b : b[i] \in Range(a)})
      union == Len(a) + Len(b) - shared
  IN  IF a = <<>> \/ b = <<>> \/ union = 0 THEN 0 ELSE (shared * Whole) \div union

ScoreTitle(title, targets) ==
  IF targets = {} THEN Whole \div 2
  ELSE IF title \in targets THEN Whole
  ELSE Max({WordOverlap(title, t) : t \in targets})

LocationMatch(place, places) ==
  IF places = {} THEN 8000
  ELSE IF \E p \in places : p \subseteq place \/ place \subseteq p THEN Whole ELSE 2000

ScoreLocation(p, u) ==
  CASE u.remotePref = "remote_only" -> IF p.remote THEN Whole ELSE 0
    [] u.remotePref = "hybrid_ok" /\ p.remote -> Whole
    [] OTHER -> LocationMatch(p.place, u.places)

(* How much of the range the user wants the job's range covers; a job below *)
(* it counts by how far off it is.                                          *)
RangeOverlap(jobMin, jobMax, userMin, userMax) ==
  LET start == Max({jobMin, userMin})
      end == Min({jobMax, userMax})
  IN  IF end < start THEN IF jobMax < userMin THEN Max({0, (jobMax * Whole) \div userMin})
                                              ELSE 1000
      ELSE IF userMax = userMin THEN Whole
      ELSE Min({Whole, ((end - start) * Whole) \div (userMax - userMin)})

ScoreSalary(p, u) ==
  LET given(x, other) == IF x = NotGiven THEN other ELSE x
      jobMin == given(p.min, 0)
      userMin == given(u.min, 0)
  IN  IF (p.min = NotGiven /\ p.max = NotGiven) \/ (u.min = NotGiven /\ u.max = NotGiven)
      THEN Whole \div 2
      ELSE RangeOverlap(jobMin, given(p.max, jobMin), userMin, given(u.max, userMin + 50000))

ScoreSkills(p, u) ==
  IF ~p.text \/ ~u.text THEN 3000
  ELSE IF p.keywords = {} THEN Whole \div 2
  ELSE (Cardinality(p.keywords \cap u.keywords) * Whole) \div Cardinality(p.keywords)

ScoreSeniority(p, u) ==
  CASE p.level = u.level -> Whole
    [] p.level - u.level \in {-1, 1} -> 7000
    [] OTHER -> 3000

Weighted(p, u) ==
  (30 * ScoreTitle(p.title, u.titles) + 20 * ScoreLocation(p, u) + 20 * ScoreSalary(p, u)
     + 25 * ScoreSkills(p, u) + 5 * ScoreSeniority(p, u)) \div 100

(* Mutant: the weight of the keywords is left at one.                       *)
CombinedUnbalanced(keyword, semantic) == (10 * keyword + 4 * semantic) \div 10

Combined(keyword, semantic) == (6 * keyword + 4 * semantic) \div 10

(* The AI service's answer, or the neutral score when it cannot be reached. *)
Semantic(cosine) == {cosine, Whole \div 2}

(* The scores the posting may get.                                          *)
Scores(p, u, cosine) ==
  IF p.text /\ u.text THEN {Combined(Weighted(p, u), s) : s \in Semantic(cosine)}
                      ELSE {Weighted(p, u)}

(* Companies, titles and descriptions contain every exclusion that is empty. *)
IsExcluded(p, u) == u.exclusions \cap (p.mentions \cup {""}) # {}
=============================================================================
