---------------------------- MODULE MCDiscovery ----------------------------
(***************************************************************************)
(* Discovery for TLC: a request of two pages and one of a single page.     *)
(***************************************************************************)
EXTENDS Discovery

CONSTANTS Http, Lambda

(* Cards, from tuples <<id, text, names>>.                                  *)
Cards(tuples) ==
  [k \in DOMAIN tuples |->
    [posting |-> [id |-> tuples[k][1], text |-> tuples[k][2]], names |-> tuples[k][3]]]

All == {"key", "link", "title", "company"}

(* No results; a page whose card has its id in its link only, for which     *)
(* Indeed and ZipRecruiter are blind; and one with a card without a title,  *)
(* of which Glassdoor takes the second path of the data.                    *)
MCPages ==
  {[cards |-> <<>>, listings |-> <<>>],
   [cards |-> Cards(<< <<"a", 2, {"link", "title", "company"}>> >>), listings |-> << <<>> >>],
   [cards |-> Cards(<< <<"b", 1, All>>, <<"a", 1, {"key"}>>,
                       <<"a", 2, {"key", "title", "company"}>> >>),
    listings |-> << <<>>, Cards(<< <<"b", 1, All>>, <<"a", 2, All>> >>) >>]}

(* The second text is one of a posting that counts as a scam.               *)
MCSignals == <<{"url", "short"}, {"url", "short", "title"}>>

MCRequestPages == [r \in {Http, Lambda} |-> IF r = Http THEN 2 ELSE 1]
=============================================================================
