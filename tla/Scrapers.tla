------------------------------ MODULE Scrapers ------------------------------
(***************************************************************************)
(* What the four scrapers make of a result page, and of a page that they   *)
(* do not get. A page has card nodes, in the order of the document and     *)
(* with the nested ones, and Glassdoor's may carry the same listings as    *)
(* data, at any of three known paths.                                      *)
(***************************************************************************)
EXTENDS Naturals, Sequences, SequencesExt

CONSTANTS
  Ids,     \* external_id of the board's postings
  Signals  \* Signals[t]: what the scam detector sees in text t of a posting

AllBoards == {"indeed", "ziprecruiter", "linkedin", "glassdoor"}
Texts == DOMAIN Signals

(* A posting, its text standing for title, description, salary and company, *)
(* and what the card that shows it names: the id in an attribute of the     *)
(* card itself (key) or in a link inside it, the title and the company.     *)
Posting == [id : Ids, text : Texts]
Card == [posting : Posting, names : SUBSET {"key", "link", "title", "company"}]

(* listings[k]: the array at the k-th known path of __NEXT_DATA__.          *)
Page == [cards : Seq(Card), listings : Seq(Seq(Card))]

(* Cards with a title, a company and one of the places for the id.          *)
Kept(cards, ids) ==
  LET kept == SelectSeq(cards, LAMBDA c : {"title", "company"} \subseteq c.names /\ ids \cap c.names # {})
  IN  [k \in DOMAIN kept |-> kept[k].posting]

-----------------------------------------------------------------------------
(* parseHTML of each board. Indeed and ZipRecruiter take the id from the    *)
(* node itself; a node that only looks like a card gives nothing.           *)
IndeedJobs(page) == Kept(page.cards, {"key"})

ZipRecruiterJobs(page) == Kept(page.cards, {"key"})

(* LinkedIn prefers the link.                                               *)
LinkedInJobs(page) == Kept(page.cards, {"link", "key"})

(* Glassdoor falls back to it.                                              *)
GlassdoorCards(page) == Kept(page.cards, {"key", "link"})

(* The first path whose array holds a listing that can be used.             *)
GlassdoorData(page) ==
  LET found == [k \in DOMAIN page.listings |-> Kept(page.listings[k], {"key"})]
  IN  SelectSeq(found, LAMBDA s : s # <<>>)

(* The cards are looked at only when the data gives nothing.                *)
GlassdoorJobs(page) ==
  IF GlassdoorData(page) # <<>> THEN Head(GlassdoorData(page)) ELSE GlassdoorCards(page)

Parsed(board, page) ==
  CASE board = "indeed" -> IndeedJobs(page)
    [] board = "ziprecruiter" -> ZipRecruiterJobs(page)
    [] board = "linkedin" -> LinkedInJobs(page)
    [] board = "glassdoor" -> GlassdoorJobs(page)

-----------------------------------------------------------------------------
(* A request that gives no page: a status, or no answer at all (0).         *)
Answers == {0, 403, 429, 500}

(* scrapePage of each board: may its error count as a block, and may it     *)
(* not? To Indeed and ZipRecruiter 403 and 429 are errors like any other.   *)
IndeedBlocked(answer) == {FALSE}

ZipRecruiterBlocked(answer) == {FALSE}

LinkedInBlocked(answer) == {answer \in {403, 429}}

(* isBlockedErr looks for the digits in the text of the error, which holds  *)
(* the URL of a request that was not answered.                              *)
GlassdoorBlocked(answer) == IF answer = 0 THEN BOOLEAN ELSE {answer \in {403, 429}}

Blocked(board, answer) ==
  CASE board = "indeed" -> IndeedBlocked(answer)
    [] board = "ziprecruiter" -> ZipRecruiterBlocked(answer)
    [] board = "linkedin" -> LinkedInBlocked(answer)
    [] board = "glassdoor" -> GlassdoorBlocked(answer)

(* max_pages as each Search reads it.                                       *)
Pages5(n) == IF n = 0 THEN 5 ELSE n
LinkedInPages(n) == IF n \in 1..3 THEN n ELSE 3
=============================================================================
