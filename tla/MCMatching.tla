----------------------------- MODULE MCMatching -----------------------------
(***************************************************************************)
(* Matching for TLC: two postings of different worth and two users.        *)
(***************************************************************************)
EXTENDS Matching

MCPostingOf ==
  [j \in 1..2 |->
    IF j = 1
    THEN [title |-> <<"software", "engineer">>, place |-> {"berlin"}, remote |-> FALSE,
          text |-> TRUE, min |-> 90, max |-> 120, keywords |-> {"go", "sql"},
          mentions |-> {"software", "engineer", "acme"}, level |-> 2]
    ELSE [title |-> <<"senior", "engineer">>, place |-> {"remote"}, remote |-> TRUE,
          text |-> FALSE, min |-> 80, max |-> NotGiven, keywords |-> {},
          mentions |-> {"senior", "engineer"}, level |-> 3]]

MCCosine == [j \in 1..2 |-> 9000]

Complete ==
  [complete |-> TRUE, titles |-> {<<"software", "engineer">>}, places |-> {{"berlin"}},
   remotePref |-> "any", min |-> 90, max |-> 120, exclusions |-> {}, text |-> TRUE,
   keywords |-> {"go", "sql"}, level |-> 2]

(* With a title that repeats a word and an exclusion of the second posting, *)
(* and without a primary resume.                                            *)
MCProfiles ==
  {Complete, [Complete EXCEPT !.complete = FALSE],
   [Complete EXCEPT !.titles = {<<"engineer", "software", "engineer">>}, !.exclusions = {"senior"}]}

(* Review by hand, and two thresholds between the scores of the postings.   *)
MCSettings == {[mode |-> "review", threshold |-> 9000, enabled |-> FALSE],
               [mode |-> "auto", threshold |-> 9000, enabled |-> TRUE]}

(* The runs are alike.                                                      *)
MCRuns == Permutations(MatchRuns)

(* There is no job yet, or both are of one time, or the first is the newer; *)
(* the profile may become incomplete later.                                 *)
MCInit ==
  /\ MatchingInit
  /\ profile.complete
  /\ job[2].discovered \in {0, 1}

MCSpec == MCInit /\ [][MatchingNext]_matchingVars
=============================================================================
