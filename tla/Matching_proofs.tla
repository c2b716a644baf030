--------------------------- MODULE Matching_proofs ---------------------------
(***************************************************************************)
(* Proofs about Matching, for any jobs, settings, overlapping runs and     *)
(* auto-approve services, and whatever the scorer answers.                 *)
(*                                                                         *)
(* What becomes of a match depends on what runs and cycles carry along     *)
(* from before: RunOK says of a run that its list and its batch follow     *)
(* the order of the jobs, that an approval in its batch has the user's     *)
(* consent, and that the rows behind it are in the table or in its         *)
(* transaction; Apart, that no two transactions hold a row both; ReviewInv *)
(* says what a cycle may still do to a match. GradeInv follows the scores: *)
(* what is in a batch is good and is what the scorer answered, and what is *)
(* in the table is legal too. What may be illegal in a batch needs the     *)
(* scorer itself: the last part bounds each of its dimensions.             *)
(***************************************************************************)
EXTENDS Matching, FiniteSetTheorems, WellFoundedInduction, TLAPS

Marks == (UNION {Scores(PostingOf[j], p, Cosine[j]) : j \in Jobs, p \in Profiles}) \cup {0}
Candidate == [job : Jobs, score : Marks, status : {"pending", "approved"}]
Row == [status : {"none"} \cup MatchStatuses, score : Marks, feedback : {"none", "up", "down"}]
RunRecord == [at : {"idle", "profile", "seen", "jobs", "score", "begin"}, settings : Settings,
              profile : Profiles, seen : SUBSET Jobs, todo : Seq(Jobs), batch : Seq(Candidate),
              row : Nat, rows : SUBSET Jobs]

JobRow == {NoJob} \cup [verdict : {"clean", "scam"}, discovered : Times]

MatchingTypes ==
  /\ job \in [Jobs -> JobRow]
  /\ settings \in Settings /\ profile \in Profiles
  /\ match \in [Jobs -> Row] /\ \A j \in Jobs : match[j].status = "none" => match[j] = NoMatch
  /\ matching \in [MatchRuns -> RunRecord]
  /\ approver \in [Approvers -> [threshold : 0..Whole, todo : SUBSET Jobs]]
  /\ decided \in [Jobs -> {"none", "raced", "approved", "rejected"}]
  /\ owed \in [MatchRuns -> SUBSET Jobs]

Agreed(s) == s.mode = "auto" => s.threshold \in consents

(* A run m that still owes the jobs o, when mm are the jobs with a match.   *)
Ordered(m) ==
  /\ Descending(m.todo)
  /\ \A k, l \in DOMAIN m.batch : k < l => MayPrecede(m.batch[k].job, m.batch[l].job)
  /\ \A k \in DOMAIN m.batch, l \in DOMAIN m.todo : MayPrecede(m.batch[k].job, m.todo[l])

(* Discovery has these jobs for good, and their times with them.            *)
Known(m) ==
  /\ \A k \in DOMAIN m.todo : job[m.todo[k]] # NoJob
  /\ \A k \in DOMAIN m.batch : job[m.batch[k].job] # NoJob

Warranted(m) ==
  /\ m.at # "idle" => Agreed(m.settings)
  /\ \A k \in DOMAIN m.batch : m.batch[k].status = "approved" =>
       \E t \in consents : m.batch[k].score >= t

JobsOf(m) == {m.batch[k].job : k \in DOMAIN m.batch}

Kept(m, o, mm) ==
  /\ m.at = "score" => m.todo # <<>>
  /\ m.at = "begin" => m.row \in 1..(Len(m.batch) + 1)
  /\ m.at # "begin" => m.row = 1 /\ m.rows = {}
  /\ m.at \notin {"score", "begin"} => o = {} /\ m.todo = <<>> /\ m.batch = <<>>
  /\ o \subseteq JobsOf(m)
  /\ m.rows \cap mm = {}
  /\ \A j \in m.rows : \E k \in DOMAIN m.batch : k < m.row /\ m.batch[k].job = j
  /\ \A k \in DOMAIN m.batch : k < m.row => m.batch[k].job \in mm \cup m.rows

RunOK(m, o, mm) == Ordered(m) /\ Known(m) /\ Warranted(m) /\ Kept(m, o, mm)

RunsInv == \A r \in MatchRuns : RunOK(matching[r], owed[r], Matched)
Apart == \A r1, r2 \in MatchRuns : r1 # r2 => matching[r1].rows \cap matching[r2].rows = {}

ReviewInv ==
  /\ Agreed(settings) /\ (settings.enabled => settings.threshold \in consents)
  /\ \A a \in Approvers : /\ approver[a].todo \subseteq Matched
                          /\ approver[a].todo # {} => approver[a].threshold \in consents
  /\ \A j \in Jobs : decided[j] = "rejected" =>
       match[j].status = "rejected" /\ \A a \in Approvers : j \notin approver[a].todo
  /\ \A j \in Jobs : match[j].status = "approved" /\ decided[j] = "none" =>
       \E t \in consents : match[j].score >= t

MatchingInv == MatchingTypes /\ RunsInv /\ Apart /\ ReviewInv

-----------------------------------------------------------------------------
LEMMA MatchedHaveStatus ==
  ASSUME MatchingTypes PROVE Matched = {j \in Jobs : match[j].status # "none"}
<1>1. \A j \in Jobs : match[j].status = "none" <=> match[j] = NoMatch
  BY DEF MatchingTypes, NoMatch
<1> QED BY <1>1 DEF Matched

LEMMA NoMatchIsNone ==
  ASSUME NEW row \in Row, row.status = "none" => row = NoMatch
  PROVE  row # NoMatch <=> row.status # "none"
  BY DEF NoMatch

LEMMA NoRunOK ==
  ASSUME settings \in Settings, profile \in Profiles
  PROVE  NoRun \in RunRecord /\ \A mm : RunOK(NoRun, {}, mm)
<1>1. (CHOOSE s \in Settings : TRUE) \in Settings /\ (CHOOSE p \in Profiles : TRUE) \in Profiles
  OBVIOUS
<1>2. <<>> \in Seq(Jobs) /\ <<>> \in Seq(Candidate) /\ DOMAIN <<>> = {} /\ 1 \in Nat
  OBVIOUS
<1>3. NoRun \in RunRecord
  BY <1>1, <1>2 DEF NoRun, RunRecord
<1>4. /\ NoRun.at = "idle" /\ NoRun.todo = <<>> /\ NoRun.batch = <<>>
      /\ NoRun.row = 1 /\ NoRun.rows = {}
  BY DEF NoRun
<1>5. Ordered(NoRun) /\ Known(NoRun) /\ Warranted(NoRun)
  BY <1>2, <1>4 DEF Ordered, Known, Warranted, Descending
<1>6. ASSUME NEW mm PROVE Kept(NoRun, {}, mm)
  BY <1>2, <1>4 DEF Kept, JobsOf
<1> QED BY <1>3, <1>5, <1>6 DEF RunOK

(* One run takes a step that shows to nobody.                               *)
LEMMA RunMoves ==
  ASSUME MatchingInv, NEW r \in MatchRuns, NEW m, NEW o \in SUBSET Jobs,
         UNCHANGED <<job, settings, profile, match, approver, decided, consents>>,
         matching' = [matching EXCEPT ![r] = m], owed' = [owed EXCEPT ![r] = o],
         m \in RunRecord, RunOK(m, o, Matched),
         \A x \in MatchRuns \ {r} : m.rows \cap matching[x].rows = {}
  PROVE  MatchingInv'
<1>1. Matched' = Matched
  BY DEF Matched
<1>2. MatchingTypes'
  BY DEF MatchingInv, MatchingTypes
<1>3. /\ matching'[r] = m /\ owed'[r] = o
      /\ \A x \in MatchRuns \ {r} : matching'[x] = matching[x] /\ owed'[x] = owed[x]
  BY DEF MatchingInv, MatchingTypes
<1>4. ASSUME NEW x \in MatchRuns PROVE RunOK(matching'[x], owed'[x], Matched)
  BY <1>3, SMTT(30) DEF MatchingInv, RunsInv
<1>5. RunsInv'
  <2>1. ASSUME NEW x \in MatchRuns PROVE RunOK(matching[x], owed[x], Matched)'
    <3>1. RunOK(matching'[x], owed'[x], Matched)
      BY <1>4
    <3>2. Ordered(matching[x])' /\ Known(matching[x])'
      BY <3>1 DEF RunOK, Ordered, Known, Descending, MayPrecede
    <3>3. Warranted(matching[x])' /\ Kept(matching[x], owed[x], Matched)'
      BY <1>1, <3>1 DEF RunOK, Warranted, Agreed, Kept, JobsOf
    <3> QED BY <3>2, <3>3 DEF RunOK
  <2> QED BY <2>1 DEF RunsInv
<1>6. Apart'
  BY <1>3 DEF MatchingInv, Apart
<1>7. ReviewInv'
  BY <1>1 DEF MatchingInv, ReviewInv, Agreed
<1> QED BY <1>2, <1>5, <1>6, <1>7 DEF MatchingInv

(* Jobs that are known keep their time.                                     *)
Lasting == \A j \in Jobs : job[j] # NoJob => job'[j] # NoJob /\ job'[j].discovered = job[j].discovered

LEMMA OrderLasts ==
  ASSUME Lasting, NEW m \in RunRecord, Ordered(m), Known(m)
  PROVE  /\ Descending(m.todo)'
         /\ \A k, l \in DOMAIN m.batch : k < l => MayPrecede(m.batch[k].job, m.batch[l].job)'
         /\ \A k \in DOMAIN m.batch, l \in DOMAIN m.todo : MayPrecede(m.batch[k].job, m.todo[l])'
         /\ \A k \in DOMAIN m.todo : job'[m.todo[k]] # NoJob
         /\ \A k \in DOMAIN m.batch : job'[m.batch[k].job] # NoJob
<1>1. /\ \A k \in DOMAIN m.todo : m.todo[k] \in Jobs
      /\ \A k \in DOMAIN m.batch : m.batch[k].job \in Jobs
  <2>1. m.todo \in Seq(Jobs) /\ m.batch \in Seq(Candidate)
    BY DEF RunRecord
  <2>2. \A k \in DOMAIN m.batch : m.batch[k] \in Candidate
    BY <2>1
  <2> QED BY <2>1, <2>2 DEF Candidate
<1>2. /\ \A k \in DOMAIN m.todo : /\ job'[m.todo[k]] # NoJob
                                  /\ job'[m.todo[k]].discovered = job[m.todo[k]].discovered
      /\ \A k \in DOMAIN m.batch : /\ job'[m.batch[k].job] # NoJob
                                   /\ job'[m.batch[k].job].discovered = job[m.batch[k].job].discovered
  BY <1>1 DEF Lasting, Known
<1> QED BY <1>2 DEF Ordered, Descending, MayPrecede

(* Nothing moves in the runs, and nothing that they rest on is lost.        *)
LEMMA RunsRest ==
  ASSUME MatchingTypes, RunsInv, Apart, UNCHANGED <<matching, owed>>, Matched' = Matched,
         consents \subseteq consents', Lasting
  PROVE  RunsInv' /\ Apart'
<1>1. ASSUME NEW x \in MatchRuns PROVE RunOK(matching[x], owed[x], Matched)'
  <2>1. RunOK(matching[x], owed[x], Matched) /\ matching[x] \in RunRecord
    BY DEF RunsInv, MatchingTypes
  <2>2. Warranted(matching[x])'
    BY <2>1 DEF RunOK, Warranted, Agreed
  <2>3. Ordered(matching[x])' /\ Known(matching[x])'
    <3> DEFINE m == matching[x]
    <3>1. /\ Descending(m.todo)'
          /\ \A k, l \in DOMAIN m.batch : k < l => MayPrecede(m.batch[k].job, m.batch[l].job)'
          /\ \A k \in DOMAIN m.batch, l \in DOMAIN m.todo : MayPrecede(m.batch[k].job, m.todo[l])'
          /\ \A k \in DOMAIN m.todo : job'[m.todo[k]] # NoJob
          /\ \A k \in DOMAIN m.batch : job'[m.batch[k].job] # NoJob
      BY <2>1, OrderLasts DEF RunOK
    <3> QED BY <3>1 DEF Ordered, Known, Descending, MayPrecede
  <2>4. Kept(matching[x], owed[x], Matched)'
    BY <2>1 DEF RunOK, Kept, JobsOf
  <2> QED BY <2>2, <2>3, <2>4 DEF RunOK
<1> QED BY <1>1 DEF RunsInv, Apart

LEMMA SameJobsLast == job' = job => Lasting
  BY DEF Lasting

-----------------------------------------------------------------------------
(* Discovery and the user.                                                  *)

LEMMA UpsertedKeeps ==
  ASSUME MatchingInv, NEW j \in Jobs, NEW verdict \in {"clean", "scam"}, Upserted(j, verdict)
  PROVE  MatchingInv'
<1>1. /\ Matched' = Matched
      /\ UNCHANGED <<settings, profile, match, matching, approver, decided, consents, owed>>
  BY DEF Upserted, Matched
<1>2. PICK t \in IF job[j] = NoJob THEN Times ELSE {job[j].discovered} :
        job' = [job EXCEPT ![j] = [verdict |-> verdict, discovered |-> t]]
  BY DEF Upserted
<1>3. /\ job \in [Jobs -> JobRow]
      /\ [verdict |-> verdict, discovered |-> t] \in JobRow
      /\ [verdict |-> verdict, discovered |-> t] # NoJob
  <2>1. job \in [Jobs -> JobRow]
    BY DEF MatchingInv, MatchingTypes
  <2>2. t \in Times
    BY <1>2, <2>1 DEF JobRow
  <2>3. [verdict |-> verdict, discovered |-> t].verdict # NoJob.verdict
    BY DEF NoJob
  <2> QED BY <2>1, <2>2, <2>3 DEF JobRow
<1>4. Lasting
  BY <1>2, <1>3 DEF Lasting
<1>5. RunsInv' /\ Apart'
  BY <1>1, <1>4, RunsRest DEF MatchingInv
<1>6. MatchingTypes'
  <2>1. job' \in [Jobs -> JobRow]
    BY <1>2, <1>3
  <2> QED BY <1>1, <2>1 DEF MatchingInv, MatchingTypes
<1>7. ReviewInv'
  BY <1>1 DEF MatchingInv, ReviewInv, Agreed
<1> QED BY <1>5, <1>6, <1>7 DEF MatchingInv

LEMMA ChangeSettingsKeeps ==
  ASSUME MatchingInv, NEW s \in Settings, ChangeSettings(s) PROVE MatchingInv'
<1>1. /\ Matched' = Matched /\ UNCHANGED <<job, matching, owed>>
      /\ settings' = s /\ consents' = consents \cup Consent(s)
  BY DEF ChangeSettings, Matched
<1>2. RunsInv' /\ Apart'
  BY <1>1, RunsRest, SameJobsLast DEF MatchingInv
<1>3. MatchingTypes'
  BY DEF MatchingInv, MatchingTypes, ChangeSettings
<1>4. ReviewInv'
  BY <1>1 DEF MatchingInv, ReviewInv, Agreed, ChangeSettings, Consent
<1> QED BY <1>2, <1>3, <1>4 DEF MatchingInv

LEMMA ChangeProfileKeeps ==
  ASSUME MatchingInv, NEW p \in Profiles, ChangeProfile(p) PROVE MatchingInv'
<1>1. Matched' = Matched /\ UNCHANGED <<job, matching, owed, consents>>
  BY DEF ChangeProfile, Matched
<1>2. RunsInv' /\ Apart'
  BY <1>1, RunsRest, SameJobsLast DEF MatchingInv
<1>3. MatchingTypes'
  BY DEF MatchingInv, MatchingTypes, ChangeProfile
<1>4. ReviewInv'
  BY <1>1 DEF MatchingInv, ReviewInv, Agreed, ChangeProfile
<1> QED BY <1>2, <1>3, <1>4 DEF MatchingInv

LEMMA SetStatusKeeps ==
  ASSUME MatchingInv, NEW js \in SUBSET Jobs, NEW status \in {"approved", "rejected"},
         SetStatus(js, status)
  PROVE  MatchingInv'
<1>1. /\ js \subseteq Matched
      /\ match' = [j \in Jobs |-> IF j \in js THEN [match[j] EXCEPT !.status = status] ELSE match[j]]
      /\ decided' = [j \in Jobs |->
           IF j \notin js THEN decided[j]
           ELSE IF \E a \in Approvers : j \in approver[a].todo THEN "raced" ELSE status]
      /\ UNCHANGED <<job, settings, profile, matching, approver, consents, owed>>
  BY DEF SetStatus
<1>2. \A j \in Jobs : /\ match'[j] \in Row
                      /\ j \notin js => match'[j] = match[j]
                      /\ j \in js => match'[j].status = status
  BY <1>1, ZenonT(60) DEF MatchingInv, MatchingTypes, Row, MatchStatuses
<1>3. MatchingTypes'
  BY <1>1, <1>2 DEF MatchingInv, MatchingTypes
<1>4. Matched' = Matched
  <2>1. Matched' = {j \in Jobs : match'[j].status # "none"}
    BY <1>3, <1>1, <1>2, NoMatchIsNone, ZenonT(60) DEF Matched, MatchingTypes
  <2> QED BY <1>1, <1>2, <2>1, MatchedHaveStatus DEF MatchingInv
<1>5. RunsInv' /\ Apart'
  BY <1>1, <1>4, RunsRest, SameJobsLast DEF MatchingInv
<1>6. ReviewInv'
  BY <1>1, <1>2, <1>4 DEF MatchingInv, MatchingTypes, ReviewInv, Agreed
<1> QED BY <1>3, <1>5, <1>6 DEF MatchingInv

LEMMA SetFeedbackKeeps ==
  ASSUME MatchingInv, NEW j \in Jobs, NEW thumb \in {"up", "down"}, SetFeedback(j, thumb)
  PROVE  MatchingInv'
<1>1. /\ j \in Matched /\ match' = [match EXCEPT ![j].feedback = thumb]
      /\ UNCHANGED <<job, settings, profile, matching, approver, decided, consents, owed>>
  BY DEF SetFeedback
<1>2. \A i \in Jobs : /\ match'[i] \in Row
                      /\ i # j => match'[i] = match[i]
                      /\ match'[i].status = match[i].status /\ match'[i].score = match[i].score
  BY <1>1 DEF MatchingInv, MatchingTypes, Row
<1>3. MatchingTypes'
  BY <1>1, <1>2, MatchedHaveStatus DEF MatchingInv, MatchingTypes
<1>4. Matched' = Matched
  <2>1. Matched' = {i \in Jobs : match'[i].status # "none"}
    BY <1>3, <1>2, NoMatchIsNone DEF Matched, MatchingTypes
  <2> QED BY <1>2, <2>1, MatchedHaveStatus DEF MatchingInv
<1>5. RunsInv' /\ Apart'
  BY <1>1, <1>4, RunsRest, SameJobsLast DEF MatchingInv
<1>6. ReviewInv'
  BY <1>1, <1>2, <1>4 DEF MatchingInv, ReviewInv, Agreed
<1> QED BY <1>3, <1>5, <1>6 DEF MatchingInv

-----------------------------------------------------------------------------
(* Auto-approve cycles.                                                     *)

LEMMA CycleKeeps ==
  ASSUME MatchingInv, NEW a \in Approvers, Cycle(a) PROVE MatchingInv'
<1>1. /\ settings.enabled
      /\ approver' = [approver EXCEPT ![a] =
           [threshold |-> settings.threshold, todo |-> With("pending")]]
      /\ UNCHANGED <<job, settings, profile, match, matching, decided, consents, owed>>
  BY DEF Cycle
<1>2. With("pending") \subseteq Matched /\ \A j \in With("pending") : match[j].status = "pending"
  BY MatchedHaveStatus DEF MatchingInv, With
<1>3. Matched' = Matched
  BY <1>1 DEF Matched
<1>4. settings.threshold \in 0..Whole
  BY MatchingAssumption DEF MatchingInv, MatchingTypes
<1>5. MatchingTypes'
  BY <1>1, <1>4 DEF MatchingInv, MatchingTypes, With
<1>6. RunsInv' /\ Apart'
  BY <1>1, <1>3, RunsRest, SameJobsLast DEF MatchingInv
<1>7. ReviewInv'
  BY <1>1, <1>2, <1>3 DEF MatchingInv, MatchingTypes, ReviewInv, Agreed
<1> QED BY <1>5, <1>6, <1>7 DEF MatchingInv

LEMMA AutoApproveKeeps ==
  ASSUME MatchingInv, NEW a \in Approvers, NEW j \in Jobs, NEW ok \in BOOLEAN, AutoApprove(a, j, ok)
  PROVE  MatchingInv'
<1>1. /\ j \in approver[a].todo
      /\ approver' = [approver EXCEPT ![a] =
           IF approver[a].todo = {j} THEN NoCycle ELSE Rest(a, j)]
      /\ UNCHANGED <<job, settings, profile, matching, decided, consents, owed>>
      /\ \/ UNCHANGED match
         \/ /\ match[j].score >= approver[a].threshold
            /\ match' = [match EXCEPT ![j].status = "approved"]
  BY DEF AutoApprove, Rest
<1>0. /\ match \in [Jobs -> Row]
      /\ \/ match' = match
         \/ /\ match[j].score >= approver[a].threshold
            /\ match' = [match EXCEPT ![j].status = "approved"]
  BY <1>1 DEF MatchingInv, MatchingTypes
<1>2. /\ j \in Matched /\ match[j].status # "none" /\ decided[j] # "rejected"
      /\ approver[a].threshold \in consents
  BY <1>1, MatchedHaveStatus DEF MatchingInv, ReviewInv
<1>3. \A i \in Jobs : /\ match'[i] \in Row
                      /\ i # j => match'[i] = match[i]
                      /\ match'[i].status = "none" <=> match[i].status = "none"
  BY <1>0, <1>2 DEF Row, MatchStatuses
<1>4. match'[j].score = match[j].score
      /\ (match'[j] = match[j] \/ match[j].score >= approver[a].threshold)
  BY <1>0 DEF Row
<1>5. /\ approver' \in [Approvers -> [threshold : 0..Whole, todo : SUBSET Jobs]]
      /\ \A b \in Approvers : /\ approver'[b].todo # {} => approver'[b].threshold = approver[b].threshold
                              /\ approver'[b].todo \subseteq approver[b].todo
  <2>1. NoCycle \in [threshold : 0..Whole, todo : SUBSET Jobs] /\ NoCycle.todo = {}
    BY DEF NoCycle, Whole
  <2>2. ASSUME NEW b \in Approvers
        PROVE  /\ approver'[b] \in [threshold : 0..Whole, todo : SUBSET Jobs]
               /\ approver'[b].todo # {} => approver'[b].threshold = approver[b].threshold
               /\ approver'[b].todo \subseteq approver[b].todo
    <3>1. approver[b] \in [threshold : 0..Whole, todo : SUBSET Jobs]
      BY DEF MatchingInv, MatchingTypes
    <3>2. approver \in [Approvers -> [threshold : 0..Whole, todo : SUBSET Jobs]]
      BY DEF MatchingInv, MatchingTypes
    <3>3. CASE b # a
      <4>1. approver'[b] = approver[b]
        BY <1>1, <3>2, <3>3
      <4> QED BY <3>1, <4>1
    <3>4. CASE b = a /\ approver[a].todo = {j}
      <4>1. approver'[b] = NoCycle
        BY <1>1, <3>2, <3>4
      <4> QED BY <2>1, <4>1
    <3>5. CASE b = a /\ approver[a].todo # {j}
      <4>1. approver'[b] = Rest(a, j)
        BY <1>1, <3>2, <3>5
      <4>2. /\ Rest(a, j) \in [threshold : 0..Whole, todo : SUBSET Jobs]
            /\ Rest(a, j).threshold = approver[a].threshold
            /\ Rest(a, j).todo \subseteq approver[a].todo
        BY <3>1, <3>5 DEF Rest
      <4> QED BY <3>5, <4>1, <4>2
    <3> QED BY <3>3, <3>4, <3>5
  <2>3. DOMAIN approver' = Approvers /\ approver' = [b \in Approvers |-> approver'[b]]
    BY <1>1 DEF MatchingInv, MatchingTypes
  <2> QED BY <2>2, <2>3
<1>6. MatchingTypes'
  BY <1>1, <1>2, <1>3, <1>5 DEF MatchingInv, MatchingTypes
<1>7. Matched' = Matched
  <2>1. Matched' = {i \in Jobs : match'[i].status # "none"}
    BY <1>6, <1>3, NoMatchIsNone DEF Matched, MatchingTypes
  <2> QED BY <1>3, <2>1, MatchedHaveStatus DEF MatchingInv
<1>8. RunsInv' /\ Apart'
  BY <1>1, <1>7, RunsRest, SameJobsLast DEF MatchingInv
<1>9. ReviewInv'
  <2>1. /\ Agreed(settings)' /\ (settings'.enabled => settings'.threshold \in consents')
        /\ \A b \in Approvers : /\ approver'[b].todo \subseteq Matched'
                                /\ approver'[b].todo # {} => approver'[b].threshold \in consents'
    BY <1>1, <1>5, <1>7 DEF MatchingInv, ReviewInv, Agreed
  <2>2. \A i \in Jobs : decided'[i] = "rejected" =>
          match'[i].status = "rejected" /\ \A b \in Approvers : i \notin approver'[b].todo
    BY <1>1, <1>2, <1>3, <1>5 DEF MatchingInv, ReviewInv
  <2>3. \A i \in Jobs : match'[i].status = "approved" /\ decided'[i] = "none" =>
          \E t \in consents' : match'[i].score >= t
    BY <1>1, <1>2, <1>3, <1>4 DEF MatchingInv, ReviewInv
  <2> QED BY <2>1, <2>2, <2>3 DEF ReviewInv
<1> QED BY <1>6, <1>8, <1>9 DEF MatchingInv

-----------------------------------------------------------------------------
(* The reads of a run.                                                      *)

LEMMA OwnRun ==
  ASSUME MatchingInv, NEW r \in MatchRuns
  PROVE  /\ matching[r] \in RunRecord /\ owed[r] \in SUBSET Jobs
         /\ RunOK(matching[r], owed[r], Matched)
         /\ owed = [owed EXCEPT ![r] = owed[r]]
  BY DEF MatchingInv, MatchingTypes, RunsInv

(* Before the list is read there is nothing to keep.                        *)
LEMMA EarlyOK ==
  ASSUME MatchingInv, NEW r \in MatchRuns, NEW m \in RunRecord,
         UNCHANGED <<job, settings, profile, match, approver, decided, consents, owed>>,
         matching' = [matching EXCEPT ![r] = m],
         matching[r].at \notin {"score", "begin"}, m.at \in {"idle", "profile", "seen", "jobs"},
         m.todo = <<>>, m.batch = <<>>, m.row = 1, m.rows = {},
         m.at # "idle" => Agreed(m.settings)
  PROVE  MatchingInv'
<1>1. owed[r] = {} /\ owed' = [owed EXCEPT ![r] = {}]
  BY OwnRun DEF RunOK, Kept
<1>2. DOMAIN <<>> = {}
  OBVIOUS
<1>3. RunOK(m, {}, Matched)
  BY <1>2 DEF RunOK, Ordered, Known, Warranted, Kept, Descending, JobsOf
<1> QED BY <1>1, <1>3, RunMoves

LEMMA ReadKeeps ==
  ASSUME MatchingInv, NEW r \in MatchRuns,
         ReadUser(r) \/ ReadProfile(r) \/ ReadMatched(r) \/ ReadFails(r)
  PROVE  MatchingInv'
<1> DEFINE m == matching[r]
<1>0. /\ m \in RunRecord /\ (m.at # "idle" => Agreed(m.settings))
      /\ settings \in Settings /\ profile \in Profiles /\ Agreed(settings)
      /\ NoRun \in RunRecord /\ Matched \in SUBSET Jobs
  BY OwnRun, NoRunOK DEF MatchingInv, MatchingTypes, ReviewInv, RunOK, Warranted, Matched
<1>1. /\ NoRun.at = "idle" /\ NoRun.todo = <<>> /\ NoRun.batch = <<>>
      /\ NoRun.row = 1 /\ NoRun.rows = {}
  BY DEF NoRun
<1>2. CASE ReadUser(r)
  <2> DEFINE n == [NoRun EXCEPT !.at = "profile", !.settings = settings]
  <2>1. /\ n \in RunRecord /\ n.at = "profile" /\ n.settings = settings
        /\ n.todo = <<>> /\ n.batch = <<>> /\ n.row = 1 /\ n.rows = {}
    BY <1>0, <1>1 DEF RunRecord
  <2>2. matching' = [matching EXCEPT ![r] = n] /\ m.at = "idle"
    BY <1>2 DEF ReadUser
  <2> HIDE DEF n
  <2> QED BY <1>0, <1>2, <2>1, <2>2, EarlyOK DEF ReadUser
<1>3. CASE ReadFails(r)
  <2>1. matching' = [matching EXCEPT ![r] = NoRun] /\ m.at \notin {"score", "begin"}
    BY <1>3 DEF ReadFails
  <2> QED BY <1>0, <1>1, <1>3, <2>1, EarlyOK DEF ReadFails
<1>4. ASSUME m.at \in {"profile", "seen", "jobs"}
      PROVE  m.todo = <<>> /\ m.batch = <<>> /\ m.row = 1 /\ m.rows = {}
  BY <1>4, OwnRun DEF RunOK, Kept
<1>5. CASE ReadProfile(r)
  <2> DEFINE n == [m EXCEPT !.profile = profile, !.at = "seen"]
  <2>1. m.at = "profile" /\ matching' = [matching EXCEPT ![r] = IF profile.complete THEN n ELSE NoRun]
    BY <1>5 DEF ReadProfile, MatchingInv, MatchingTypes
  <2>2. /\ n \in RunRecord /\ n.at = "seen" /\ n.settings = m.settings
        /\ n.todo = <<>> /\ n.batch = <<>> /\ n.row = 1 /\ n.rows = {}
    BY <1>0, <1>4, <2>1 DEF RunRecord
  <2>3. Agreed(n.settings)
    BY <1>0, <2>1, <2>2
  <2> HIDE DEF n
  <2> QED BY <1>0, <1>1, <1>5, <2>1, <2>2, <2>3, EarlyOK DEF ReadProfile
<1>6. CASE ReadMatched(r)
  <2> DEFINE n == [m EXCEPT !.seen = Matched, !.at = "jobs"]
  <2>1. m.at = "seen" /\ matching' = [matching EXCEPT ![r] = n]
    BY <1>6 DEF ReadMatched, MatchingInv, MatchingTypes
  <2>2. /\ n \in RunRecord /\ n.at = "jobs" /\ n.settings = m.settings
        /\ n.todo = <<>> /\ n.batch = <<>> /\ n.row = 1 /\ n.rows = {}
    BY <1>0, <1>4, <2>1 DEF RunRecord
  <2>3. Agreed(n.settings)
    BY <1>0, <2>1, <2>2
  <2> HIDE DEF n
  <2> QED BY <1>0, <1>6, <2>1, <2>2, <2>3, EarlyOK DEF ReadMatched
<1> QED BY <1>2, <1>3, <1>5, <1>6

(* The list is in the order of the jobs.                                    *)
LEMMA NewestInOrder ==
  ASSUME NEW n \in Nat, NEW C \in SUBSET Jobs, NEW s \in [1..n -> C], Descending(s)
  PROVE  /\ Newest(s) \in Seq(Jobs) /\ Descending(Newest(s))
         /\ \A k \in DOMAIN Newest(s) : Newest(s)[k] \in C
<1>1. s \in Seq(Jobs) /\ Len(s) = n
  OBVIOUS
<1>2. PICK k \in 0..n : Newest(s) = SubSeq(s, 1, k)
  <2>1. Min({n, MaxJobsPerRun}) \in 0..n
    <3>1. \E x \in {n, MaxJobsPerRun} : \A y \in {n, MaxJobsPerRun} : x <= y
      BY MatchingAssumption
    <3>2. /\ Min({n, MaxJobsPerRun}) \in {n, MaxJobsPerRun}
          /\ \A y \in {n, MaxJobsPerRun} : Min({n, MaxJobsPerRun}) <= y
      BY <3>1, Zenon DEF Min
    <3> QED BY <3>2, MatchingAssumption
  <2> QED BY <1>1, <2>1 DEF Newest
<1>3. /\ SubSeq(s, 1, k) \in Seq(Jobs) /\ DOMAIN SubSeq(s, 1, k) = 1..k
      /\ \A i \in 1..k : SubSeq(s, 1, k)[i] = s[i]
  BY <1>1
<1> QED BY <1>2, <1>3 DEF Descending

LEMMA ReadJobsKeeps ==
  ASSUME MatchingInv, NEW r \in MatchRuns, ReadJobs(r) PROVE MatchingInv'
<1> DEFINE m == matching[r]
<1>1. /\ m \in RunRecord /\ m.at = "jobs" /\ Agreed(m.settings) /\ owed[r] = {}
      /\ m.todo = <<>> /\ m.batch = <<>> /\ m.row = 1 /\ m.rows = {}
  BY OwnRun DEF ReadJobs, RunOK, Warranted, Kept
<1>2. Cardinality(Clean) \in Nat /\ Clean \subseteq Jobs
  <2>1. Clean \subseteq Jobs
    BY DEF Clean
  <2> QED BY <2>1, FS_Subset, FS_CardinalityType, MatchingAssumption
<1>3. PICK s \in [1..Cardinality(Clean) -> Clean] :
        /\ Descending(s)
        /\ matching' = [matching EXCEPT ![r] =
             IF Newest(s) = <<>> THEN NoRun ELSE [m EXCEPT !.todo = Newest(s), !.at = "score"]]
  BY DEF ReadJobs, MatchingInv, MatchingTypes
<1>4. /\ Newest(s) \in Seq(Jobs) /\ Descending(Newest(s))
      /\ \A k \in DOMAIN Newest(s) : job[Newest(s)[k]] # NoJob
  <2>1. \A j \in Clean : job[j] # NoJob
    BY DEF Clean, NoJob
  <2> QED BY <1>2, <1>3, <2>1, NewestInOrder
<1>5. CASE Newest(s) = <<>>
  <2>1. /\ NoRun.at = "idle" /\ NoRun.todo = <<>> /\ NoRun.batch = <<>>
        /\ NoRun.row = 1 /\ NoRun.rows = {}
    BY DEF NoRun
  <2>2. NoRun \in RunRecord
    BY NoRunOK DEF MatchingInv, MatchingTypes
  <2> QED BY <1>1, <1>3, <1>5, <2>1, <2>2, EarlyOK DEF ReadJobs
<1>6. CASE Newest(s) # <<>>
  <2> DEFINE n == [m EXCEPT !.todo = Newest(s), !.at = "score"]
  <2>1. /\ n \in RunRecord /\ n.at = "score" /\ n.settings = m.settings
        /\ n.todo = Newest(s) /\ n.batch = <<>> /\ n.row = 1 /\ n.rows = {}
    BY <1>1, <1>4 DEF RunRecord
  <2>2. matching' = [matching EXCEPT ![r] = n]
    BY <1>3, <1>6
  <2> HIDE DEF n
  <2>3. DOMAIN <<>> = {}
    OBVIOUS
  <2>4. RunOK(n, {}, Matched)
    BY <1>1, <1>4, <1>6, <2>1, <2>3 DEF RunOK, Ordered, Known, Warranted, Kept, JobsOf
  <2>5. owed' = [owed EXCEPT ![r] = {}]
    BY <1>1, OwnRun DEF ReadJobs
  <2>6. \A x \in MatchRuns \ {r} : n.rows \cap matching[x].rows = {}
    BY <2>1
  <2> QED BY <2>1, <2>2, <2>4, <2>5, <2>6, RunMoves DEF ReadJobs
<1> QED BY <1>5, <1>6

-----------------------------------------------------------------------------
(* Scoring.                                                                 *)

(* A job that goes from the head of the list to the end of the batch keeps  *)
(* both in order, and so does one that is dropped.                          *)
LEMMA NextInOrder ==
  ASSUME NEW m \in RunRecord, Ordered(m), Known(m), m.todo # <<>>, NEW entry \in Candidate,
         entry.job = Head(m.todo),
         NEW n \in RunRecord, n.todo = Tail(m.todo), n.batch \in {m.batch, Append(m.batch, entry)}
  PROVE  Ordered(n) /\ Known(n)
<1>1. /\ m.todo \in Seq(Jobs) /\ m.batch \in Seq(Candidate)
  BY DEF RunRecord
<1>2. /\ Head(m.todo) = m.todo[1] /\ 1 \in DOMAIN m.todo
      /\ \A l \in DOMAIN n.todo : /\ l \in Nat \ {0} /\ l + 1 \in DOMAIN m.todo
                                  /\ n.todo[l] = m.todo[l + 1]
  BY <1>1
<1>3. Descending(n.todo)
  <2> SUFFICES ASSUME NEW k \in DOMAIN n.todo, NEW l \in DOMAIN n.todo, k < l
               PROVE  MayPrecede(n.todo[k], n.todo[l])
    BY DEF Descending
  <2>1. k + 1 < l + 1
    BY <1>2
  <2> QED BY <1>2, <2>1 DEF Ordered, Descending
<1>4. CASE n.batch = m.batch
  BY <1>2, <1>3, <1>4 DEF Ordered, Known
<1>5. CASE n.batch = Append(m.batch, entry)
  <2>1. /\ DOMAIN n.batch = DOMAIN m.batch \cup {Len(m.batch) + 1}
        /\ n.batch[Len(m.batch) + 1] = entry
        /\ \A k \in DOMAIN m.batch : k < Len(m.batch) + 1 /\ n.batch[k] = m.batch[k]
        /\ \A k \in DOMAIN m.batch : k \in Nat
    BY <1>1, <1>5
  <2>2. \A k \in DOMAIN m.batch : MayPrecede(m.batch[k].job, entry.job)
    BY <1>2 DEF Ordered
  <2>3. \A l \in DOMAIN n.todo : MayPrecede(entry.job, n.todo[l])
    <3>1. \A l \in DOMAIN n.todo : 1 < l + 1
      BY <1>2
    <3> QED BY <1>2, <3>1 DEF Ordered, Descending
  <2>4. ASSUME NEW k \in DOMAIN n.batch, NEW l \in DOMAIN n.batch, k < l
        PROVE  MayPrecede(n.batch[k].job, n.batch[l].job)
    <3>1. k \in DOMAIN m.batch
      BY <1>1, <2>1, <2>4
    <3> QED BY <2>1, <2>2, <2>4, <3>1 DEF Ordered
  <2>5. ASSUME NEW k \in DOMAIN n.batch, NEW l \in DOMAIN n.todo PROVE MayPrecede(n.batch[k].job, n.todo[l])
    BY <1>2, <2>1, <2>3 DEF Ordered
  <2>6. Known(n)
    BY <1>2, <2>1 DEF Known
  <2> QED BY <1>3, <2>4, <2>5, <2>6 DEF Ordered
<1> QED BY <1>4, <1>5

LEMMA ScoreNextKeeps ==
  ASSUME MatchingInv, NEW r \in MatchRuns, ScoreNext(r) PROVE MatchingInv'
<1> DEFINE m == matching[r]
           j == Head(m.todo)
           p == PostingOf[j]
           skipped == j \in m.seen \/ IsExcluded(p, m.profile)
<1>1. /\ m \in RunRecord /\ owed[r] \in SUBSET Jobs /\ RunOK(m, owed[r], Matched)
      /\ m.at = "score" /\ m.todo # <<>> /\ m.row = 1 /\ m.rows = {}
  BY OwnRun DEF ScoreNext, RunOK, Kept
<1>2. /\ j \in Jobs /\ Tail(m.todo) \in Seq(Jobs) /\ m.batch \in Seq(Candidate)
      /\ m.profile \in Profiles /\ m.settings \in Settings
  BY <1>1, SMTT(30) DEF RunRecord
<1>3. PICK score \in Scores(p, m.profile, Cosine[j]) :
        LET good == ~skipped /\ score >= MinMatchScore
            entry == [job |-> j, score |-> score, status |-> Status(m.settings, score)]
            batch == IF good THEN Append(m.batch, entry) ELSE m.batch
            at == AfterScoring(batch, Tail(m.todo))
        IN  /\ matching' = [matching EXCEPT ![r] =
                 IF at = "idle" THEN NoRun
                 ELSE [m EXCEPT !.todo = Tail(m.todo), !.batch = batch, !.at = at]]
            /\ owed' = [owed EXCEPT ![r] = IF good THEN owed[r] \cup {j} ELSE owed[r]]
  BY DEF ScoreNext, MatchingInv, MatchingTypes
<1> DEFINE good == ~skipped /\ score >= MinMatchScore
           entry == [job |-> j, score |-> score, status |-> Status(m.settings, score)]
           batch == IF good THEN Append(m.batch, entry) ELSE m.batch
           at == AfterScoring(batch, Tail(m.todo))
           n == [m EXCEPT !.todo = Tail(m.todo), !.batch = batch, !.at = at]
           o == IF good THEN owed[r] \cup {j} ELSE owed[r]
<1>4. entry \in Candidate /\ entry.job = j /\ entry.score = score
      /\ (entry.status = "approved" => \E t \in consents : score >= t)
  <2>1. score \in Marks
    BY <1>2 DEF Marks
  <2>2. Status(m.settings, score) \in {"pending", "approved"}
    BY DEF Status
  <2>3. Status(m.settings, score) = "approved" => \E t \in consents : score >= t
    BY <1>1 DEF Status, RunOK, Warranted, Agreed
  <2> QED BY <1>2, <2>1, <2>2, <2>3 DEF Candidate
<1> HIDE DEF skipped, p, entry
<1>5. /\ batch \in Seq(Candidate) /\ batch \in {m.batch, Append(m.batch, entry)}
      /\ good => batch # <<>> /\ batch = Append(m.batch, entry)
      /\ ~good => batch = m.batch
  BY <1>2, <1>4, SMTT(30)
<1>6. at \in {"idle", "score", "begin"}
      /\ (at = "idle" => batch = <<>>) /\ (at = "score" => Tail(m.todo) # <<>>)
  BY <1>5 DEF AfterScoring
<1>7. o \in SUBSET Jobs
  BY <1>1, <1>2
<1>8. owed' = [owed EXCEPT ![r] = o]
      /\ matching' = [matching EXCEPT ![r] = IF at = "idle" THEN NoRun ELSE n]
      /\ UNCHANGED <<job, settings, profile, match, approver, decided, consents>>
  BY <1>3, Zenon DEF ScoreNext, entry, skipped, p
<1> HIDE DEF good, batch, at, j
<1>9. CASE at = "idle"
  <2>1. owed[r] = {} /\ ~good
    <3>1. m.batch = <<>> /\ ~good
      BY <1>5, <1>6, <1>9
    <3>2. DOMAIN m.batch = {}
      BY <3>1
    <3> QED BY <1>1, <3>1, <3>2 DEF RunOK, Kept, JobsOf
  <2>2. o = {} /\ matching' = [matching EXCEPT ![r] = NoRun]
    BY <1>8, <1>9, <2>1
  <2>3. NoRun \in RunRecord /\ RunOK(NoRun, {}, Matched) /\ NoRun.rows = {}
    BY NoRunOK DEF MatchingInv, MatchingTypes, NoRun
  <2> QED BY <1>8, <2>2, <2>3, RunMoves
<1>10. CASE at # "idle"
  <2>1. /\ n \in RunRecord /\ n.todo = Tail(m.todo) /\ n.batch = batch /\ n.at = at
        /\ n.row = 1 /\ n.rows = {} /\ n.settings = m.settings
    BY <1>1, <1>2, <1>5, <1>6 DEF RunRecord
  <2> HIDE DEF n
  <2>2. Ordered(n) /\ Known(n)
    BY <1>1, <1>4, <1>5, <2>1, NextInOrder DEF RunOK, j
  <2>3. CASE good
    <3>1. /\ DOMAIN batch = DOMAIN m.batch \cup {Len(m.batch) + 1}
          /\ batch[Len(m.batch) + 1] = entry
          /\ \A k \in DOMAIN m.batch : batch[k] = m.batch[k]
      BY <1>2, <1>4, <1>5, <2>3
    <3>2. \A k \in DOMAIN batch : batch[k].status = "approved" =>
            \E t \in consents : batch[k].score >= t
      BY <1>1, <1>4, <3>1 DEF RunOK, Warranted
    <3>3. Warranted(n)
      BY <1>1, <2>1, <3>2 DEF RunOK, Warranted
    <3>4. JobsOf(n) = JobsOf(m) \cup {j}
      BY <1>4, <2>1, <3>1 DEF JobsOf
    <3>5. o \subseteq JobsOf(n)
      BY <1>1, <2>3, <3>4 DEF RunOK, Kept
    <3>6. \A k \in DOMAIN n.batch : k \in Nat \ {0}
      BY <1>5, <2>1
    <3>7. Len(n.batch) \in Nat
      BY <1>5, <2>1
    <3>8. Kept(n, o, Matched)
      BY <1>6, <1>10, <2>1, <3>5, <3>6, <3>7 DEF Kept
    <3> QED BY <1>7, <1>8, <1>10, <2>1, <2>2, <3>3, <3>8, RunMoves DEF RunOK
  <2>4. CASE ~good
    <3>1. n.batch = m.batch /\ o = owed[r]
      BY <1>5, <2>1, <2>4
    <3>2. Warranted(n)
      BY <1>1, <2>1, <3>1 DEF RunOK, Warranted
    <3>3. o \subseteq JobsOf(n)
      BY <1>1, <3>1, SMTT(30) DEF RunOK, Kept, JobsOf
    <3>4. \A k \in DOMAIN n.batch : k \in Nat \ {0}
      BY <1>5, <2>1
    <3>5. Len(n.batch) \in Nat
      BY <1>5, <2>1
    <3>6. Kept(n, o, Matched)
      BY <1>6, <1>10, <2>1, <3>3, <3>4, <3>5 DEF Kept
    <3> QED BY <1>7, <1>8, <1>10, <2>1, <2>2, <3>2, <3>6, RunMoves DEF RunOK
  <2> QED BY <2>3, <2>4
<1> QED BY <1>9, <1>10

-----------------------------------------------------------------------------
(* Insertion.                                                               *)

LEMMA InsertRowKeeps ==
  ASSUME MatchingInv, NEW r \in MatchRuns, InsertRow(r) PROVE MatchingInv'
<1> DEFINE m == matching[r]
           j == m.batch[m.row].job
           n == [m EXCEPT !.row = m.row + 1, !.rows = IF j \in Matched THEN m.rows ELSE m.rows \cup {j}]
<1>1. /\ m \in RunRecord /\ owed[r] \in SUBSET Jobs /\ RunOK(m, owed[r], Matched)
      /\ owed = [owed EXCEPT ![r] = owed[r]]
  BY OwnRun
<1>2. /\ m.at = "begin" /\ m.row <= Len(m.batch)
      /\ UNCHANGED <<job, settings, profile, match, approver, decided, consents, owed>>
      /\ matching' = [matching EXCEPT ![r] = n]
      /\ \A x \in MatchRuns \ {r} : j \notin matching[x].rows
  BY DEF InsertRow, Inserting, Awaits, Entry, MatchingInv, MatchingTypes
<1>3. /\ m.row \in Nat \ {0} /\ m.batch \in Seq(Candidate) /\ m.row \in DOMAIN m.batch
      /\ Len(m.batch) \in Nat /\ j \in Jobs
  <2>1. m.row \in Nat \ {0} /\ m.batch \in Seq(Candidate)
    BY <1>1, <1>2 DEF RunRecord, RunOK, Kept
  <2>2. m.row \in DOMAIN m.batch /\ Len(m.batch) \in Nat
    BY <1>2, <2>1
  <2>3. m.batch[m.row] \in Candidate
    BY <2>1, <2>2
  <2> QED BY <2>1, <2>2, <2>3 DEF Candidate
<1>4. /\ n \in RunRecord /\ n.at = "begin" /\ n.settings = m.settings /\ n.todo = m.todo
      /\ n.batch = m.batch /\ n.row = m.row + 1
      /\ n.rows = IF j \in Matched THEN m.rows ELSE m.rows \cup {j}
  <2>1. (IF j \in Matched THEN m.rows ELSE m.rows \cup {j}) \in SUBSET Jobs /\ m.row + 1 \in Nat
    BY <1>1, <1>3 DEF RunRecord
  <2> HIDE DEF j
  <2> QED BY <1>1, <1>2, <2>1 DEF RunRecord
<1> HIDE DEF n
<1>5. Ordered(n) /\ Known(n) /\ Warranted(n)
  BY <1>1, <1>2, <1>4, SMTT(30) DEF RunOK, Ordered, Known, Warranted
<1>6. Kept(n, owed[r], Matched)
  <2>1. n.row \in 1..(Len(n.batch) + 1)
    BY <1>2, <1>3, <1>4
  <2>2. owed[r] \subseteq JobsOf(n)
    BY <1>1, <1>4 DEF RunOK, Kept, JobsOf
  <2>3. n.rows \cap Matched = {}
    BY <1>1, <1>4 DEF RunOK, Kept
  <2>4. \A k \in DOMAIN m.batch : /\ k < m.row => k < m.row + 1
                                  /\ k < m.row + 1 => k < m.row \/ k = m.row
    BY <1>3
  <2>5. ASSUME NEW i \in n.rows PROVE \E k \in DOMAIN n.batch : k < n.row /\ n.batch[k].job = i
    <3>1. CASE i \in m.rows
      BY <1>1, <1>4, <2>4, <3>1 DEF RunOK, Kept
    <3>2. CASE i = j
      <4>1. m.row < n.row /\ m.row \in DOMAIN n.batch /\ n.batch[m.row].job = i
        BY <1>3, <1>4, <3>2
      <4> QED BY <4>1
    <3> QED BY <1>4, <3>1, <3>2
  <2>6. ASSUME NEW k \in DOMAIN n.batch, k < n.row PROVE n.batch[k].job \in Matched \cup n.rows
    BY <1>1, <1>4, <2>4, <2>6 DEF RunOK, Kept
  <2> QED BY <1>4, <2>1, <2>2, <2>3, <2>5, <2>6 DEF Kept
<1>7. \A x \in MatchRuns \ {r} : n.rows \cap matching[x].rows = {}
  BY <1>2, <1>4 DEF MatchingInv, Apart
<1>8. owed' = [owed EXCEPT ![r] = owed[r]]
  BY <1>1, <1>2
<1> QED BY <1>1, <1>2, <1>4, <1>5, <1>6, <1>7, <1>8, RunMoves DEF RunOK

(* After a transaction the run starts over with the rest of its list, or    *)
(* ends.                                                                    *)
AfterBatch(m) ==
  IF m.todo = <<>> THEN NoRun
                   ELSE [m EXCEPT !.batch = <<>>, !.row = 1, !.rows = {}, !.at = "score"]

LEMMA EndBatchOK ==
  ASSUME MatchingInv, NEW r \in MatchRuns, Inserting(r), NEW mm
  PROVE  /\ AfterBatch(matching[r]) \in RunRecord /\ AfterBatch(matching[r]).rows = {}
         /\ RunOK(AfterBatch(matching[r]), {}, mm)
<1> DEFINE m == matching[r]
<1>1. /\ m \in RunRecord /\ Agreed(m.settings) /\ Descending(m.todo)
      /\ \A k \in DOMAIN m.todo : job[m.todo[k]] # NoJob
  BY OwnRun DEF Inserting, RunOK, Warranted, Ordered, Known
<1>2. CASE m.todo = <<>>
  BY <1>2, NoRunOK DEF MatchingInv, MatchingTypes, AfterBatch, NoRun
<1>3. CASE m.todo # <<>>
  <2> DEFINE n == [m EXCEPT !.batch = <<>>, !.row = 1, !.rows = {}, !.at = "score"]
  <2>1. <<>> \in Seq(Candidate) /\ DOMAIN <<>> = {}
    OBVIOUS
  <2>2. /\ n \in RunRecord /\ n.at = "score" /\ n.settings = m.settings /\ n.todo = m.todo
        /\ n.batch = <<>> /\ n.row = 1 /\ n.rows = {}
    BY <1>1, <2>1 DEF RunRecord
  <2>3. AfterBatch(m) = n
    BY <1>3 DEF AfterBatch
  <2> HIDE DEF n
  <2>4. RunOK(n, {}, mm)
    BY <1>1, <1>3, <2>1, <2>2 DEF RunOK, Ordered, Known, Warranted, Kept, JobsOf
  <2> QED BY <2>2, <2>3, <2>4
<1> QED BY <1>2, <1>3

LEMMA BatchFails ==
  ASSUME MatchingInv, NEW r \in MatchRuns, Inserting(r), EndBatch(r),
         UNCHANGED <<job, settings, profile, match, approver, decided, consents>>,
         owed' = [owed EXCEPT ![r] = @ \ BatchJobs(r)]
  PROVE  MatchingInv'
<1>1. owed[r] \ BatchJobs(r) = {} /\ owed' = [owed EXCEPT ![r] = {}]
  BY OwnRun, ZenonT(60) DEF RunOK, Kept, JobsOf, BatchJobs, MatchingInv, MatchingTypes
<1>2. matching' = [matching EXCEPT ![r] = AfterBatch(matching[r])]
  BY DEF EndBatch, AfterBatch, MatchingInv, MatchingTypes
<1> QED BY <1>1, <1>2, EndBatchOK, RunMoves

(* The rows of the transaction become visible.                              *)
LEMMA StoredKeeps ==
  ASSUME MatchingInv, NEW r \in MatchRuns, Inserting(r), EndBatch(r), match' = Stored(r),
         UNCHANGED <<job, settings, profile, approver, decided, consents>>,
         owed' = [owed EXCEPT ![r] = {}]
  PROVE  MatchingInv'
<1> DEFINE m == matching[r]
<1>1. m \in RunRecord /\ RunOK(m, owed[r], Matched) /\ m.batch \in Seq(Candidate)
      /\ m.rows \cap Matched = {} /\ m.rows \subseteq Jobs
  BY OwnRun DEF RunRecord, RunOK, Kept
<1>2. ASSUME NEW j \in m.rows
      PROVE  /\ RowFor(r, j) \in Row /\ RowFor(r, j).status \in {"pending", "approved"}
             /\ RowFor(r, j).status = "approved" => \E t \in consents : RowFor(r, j).score >= t
  <2> DEFINE k == CHOOSE n \in DOMAIN m.batch : m.batch[n].job = j
  <2>1. k \in DOMAIN m.batch
    <3>1. \E n \in DOMAIN m.batch : m.batch[n].job = j
      BY <1>1 DEF RunOK, Kept
    <3> QED BY <3>1, Zenon
  <2>2. RowFor(r, j) = [status |-> m.batch[k].status, score |-> m.batch[k].score, feedback |-> "none"]
    BY DEF RowFor
  <2> HIDE DEF k
  <2>3. m.batch[k] \in Candidate
    BY <1>1, <2>1
  <2>4. m.batch[k].status \in {"pending", "approved"} /\ m.batch[k].score \in Marks
    BY <2>3 DEF Candidate
  <2>5. m.batch[k].status = "approved" => \E t \in consents : m.batch[k].score >= t
    BY <1>1, <2>1 DEF RunOK, Warranted
  <2> QED BY <2>2, <2>4, <2>5 DEF Row, MatchStatuses
<1>3. \A j \in Jobs : match'[j] = IF j \in m.rows THEN RowFor(r, j) ELSE match[j]
  BY DEF Stored
<1>4. matching' = [matching EXCEPT ![r] = AfterBatch(m)]
  BY DEF EndBatch, AfterBatch, MatchingInv, MatchingTypes
<1>5. AfterBatch(m) \in RunRecord /\ AfterBatch(m).rows = {} /\ RunOK(AfterBatch(m), {}, Matched')
  BY EndBatchOK
<1>6. MatchingTypes'
  <2>1. \A j \in Jobs : match'[j] \in Row /\ (match'[j].status = "none" => match'[j] = NoMatch)
    BY <1>2, <1>3 DEF MatchingInv, MatchingTypes
  <2>2. match' \in [Jobs -> Row]
    BY <2>1 DEF Stored
  <2> QED BY <1>4, <1>5, <2>1, <2>2 DEF MatchingInv, MatchingTypes
<1>7. Matched' = Matched \cup m.rows
  <2>1. Matched' = {j \in Jobs : match'[j].status # "none"}
    BY <1>6, NoMatchIsNone DEF Matched, MatchingTypes
  <2>2. \A j \in m.rows : match'[j].status # "none"
    BY <1>1, <1>2, <1>3
  <2>3. \A j \in Jobs \ m.rows : match'[j] = match[j]
    BY <1>3
  <2> QED BY <1>1, <2>1, <2>2, <2>3, MatchedHaveStatus DEF MatchingInv
<1>8. RunsInv'
  <2>1. RunOK(matching[r], owed[r], Matched)'
    <3>1. matching'[r] = AfterBatch(m) /\ owed'[r] = {}
      BY <1>4 DEF MatchingInv, MatchingTypes
    <3> QED BY <1>5, <3>1 DEF RunOK, Ordered, Known, Warranted, Kept, Agreed, Descending, MayPrecede, JobsOf
  <2>2. ASSUME NEW x \in MatchRuns, x # r PROVE RunOK(matching[x], owed[x], Matched)'
    <3>1. matching'[x] = matching[x] /\ owed'[x] = owed[x] /\ RunOK(matching[x], owed[x], Matched)
      BY <1>4, <2>2 DEF MatchingInv, MatchingTypes, RunsInv
    <3>2. matching[x].rows \cap Matched' = {}
      BY <1>7, <2>2, <3>1 DEF MatchingInv, Apart, RunOK, Kept
    <3>3. Kept(matching[x], owed[x], Matched')
      BY <1>7, <3>1, <3>2 DEF RunOK, Kept
    <3>4. Ordered(matching[x])' /\ Known(matching[x])' /\ Warranted(matching[x])'
      BY <3>1 DEF RunOK, Ordered, Known, Warranted, Agreed, Descending, MayPrecede
    <3>5. Kept(matching[x], owed[x], Matched)'
      BY <3>1, <3>3 DEF Kept, JobsOf
    <3> QED BY <3>4, <3>5 DEF RunOK
  <2> QED BY <2>1, <2>2 DEF RunsInv
<1>9. Apart'
  BY <1>4, <1>5 DEF MatchingInv, MatchingTypes, Apart
<1>10. ReviewInv'
  <2>1. /\ Agreed(settings)' /\ (settings'.enabled => settings'.threshold \in consents')
        /\ \A a \in Approvers : /\ approver'[a].todo \subseteq Matched'
                                /\ approver'[a].todo # {} => approver'[a].threshold \in consents'
    BY <1>7 DEF MatchingInv, ReviewInv, Agreed
  <2>2. ASSUME NEW j \in Jobs
        PROVE  /\ decided'[j] = "rejected" =>
                    match'[j].status = "rejected" /\ \A a \in Approvers : j \notin approver'[a].todo
               /\ match'[j].status = "approved" /\ decided'[j] = "none" =>
                    \E t \in consents' : match'[j].score >= t
    <3>1. CASE j \in m.rows
      <4>1. match[j].status = "none"
        BY <1>1, <3>1, MatchedHaveStatus DEF MatchingInv
      <4>2. decided[j] # "rejected"
        BY <4>1 DEF MatchingInv, ReviewInv
      <4> QED BY <1>2, <1>3, <3>1, <4>2
    <3>2. CASE j \notin m.rows
      BY <1>3, <3>2 DEF MatchingInv, ReviewInv
    <3> QED BY <3>1, <3>2
  <2> QED BY <2>1, <2>2 DEF ReviewInv
<1> QED BY <1>6, <1>8, <1>9, <1>10 DEF MatchingInv

LEMMA InsertFailsKeeps ==
  ASSUME MatchingInv, NEW r \in MatchRuns, InsertFails(r) PROVE MatchingInv'
  BY BatchFails DEF InsertFails

LEMMA CommitBatchKeeps ==
  ASSUME MatchingInv, NEW r \in MatchRuns, CommitBatch(r) PROVE MatchingInv'
<1> DEFINE m == matching[r]
<1>1. /\ m \in RunRecord /\ RunOK(m, owed[r], Matched) /\ Inserting(r) /\ m.row > Len(m.batch)
  BY OwnRun DEF CommitBatch
<1>2. \A k \in DOMAIN m.batch : k < m.row
  <2>1. m.batch \in Seq(Candidate) /\ m.row \in Nat
    BY <1>1 DEF RunRecord
  <2> QED BY <1>1, <2>1
<1>3. \A k \in DOMAIN m.batch : m.batch[k].job \in Matched \cup m.rows
  BY <1>1, <1>2 DEF RunOK, Kept
<1>4. owed[r] \ (Matched \cup m.rows) = {}
  BY <1>1, <1>3 DEF RunOK, Kept, JobsOf
<1>5. owed' = [owed EXCEPT ![r] = {}]
  BY <1>4 DEF CommitBatch, MatchingInv, MatchingTypes
<1> QED BY <1>1, <1>5, StoredKeeps DEF CommitBatch

LEMMA CommitFailsKeeps ==
  ASSUME MatchingInv, NEW r \in MatchRuns, CommitFails(r) PROVE MatchingInv'
<1>1. /\ Inserting(r) /\ EndBatch(r) /\ owed' = [owed EXCEPT ![r] = @ \ BatchJobs(r)]
      /\ UNCHANGED <<job, settings, profile, approver, decided, consents>>
      /\ UNCHANGED match \/ match' = Stored(r)
  BY DEF CommitFails
<1>2. CASE UNCHANGED match
  BY <1>1, <1>2, BatchFails
<1>3. CASE match' = Stored(r)
  <2>1. owed[r] \ BatchJobs(r) = {}
    BY OwnRun DEF RunOK, Kept, JobsOf, BatchJobs
  <2>2. owed' = [owed EXCEPT ![r] = {}]
    BY <1>1, <2>1 DEF MatchingInv, MatchingTypes
  <2> QED BY <1>1, <1>3, <2>2, StoredKeeps
<1> QED BY <1>1, <1>2, <1>3

-----------------------------------------------------------------------------
LEMMA MatchingInvInit == MatchingInit => MatchingInv
<1> SUFFICES ASSUME MatchingInit PROVE MatchingInv
  OBVIOUS
<1>1. NoMatch \in Row /\ NoMatch.status = "none"
  <2>1. 0 \in Marks
    BY DEF Marks
  <2> QED BY <2>1 DEF NoMatch, Row, MatchStatuses
<1>2. NoRun \in RunRecord /\ NoRun.rows = {} /\ \A mm : RunOK(NoRun, {}, mm)
  BY NoRunOK DEF MatchingInit, NoRun
<1>3. 0 \in 0..Whole
  BY DEF Whole
<1>4. MatchingTypes
  <2>1. job \in [Jobs -> JobRow]
    BY DEF MatchingInit, JobRow
  <2> QED BY <1>1, <1>2, <1>3, <2>1 DEF MatchingInit, MatchingTypes, NoCycle
<1>5. RunsInv /\ Apart
  BY <1>2 DEF MatchingInit, RunsInv, Apart
<1>6. ReviewInv
  BY <1>1 DEF MatchingInit, ReviewInv, Agreed, Consent, NoCycle
<1> QED BY <1>4, <1>5, <1>6 DEF MatchingInv

LEMMA MatchingInvNext == MatchingInv /\ [MatchingNext]_matchingVars => MatchingInv'
<1> SUFFICES ASSUME MatchingInv, [MatchingNext]_matchingVars PROVE MatchingInv'
  OBVIOUS
<1>1. ASSUME NEW j \in Jobs,
             (\E status \in {"approved", "rejected"} : UpdateMatchMe(j, status))
             \/ ApproveMatch(j) \/ RejectMatch(j)
      PROVE  MatchingInv'
  BY <1>1, SetStatusKeeps DEF UpdateMatchMe, ApproveMatch, RejectMatch
<1>2. ASSUME NEW js \in SUBSET Jobs, NEW status \in {"approved", "rejected"}, BulkAction(js, status)
      PROVE  MatchingInv'
  BY <1>2, SetStatusKeeps DEF BulkAction
<1>3. ASSUME NEW r \in MatchRuns, RunStep(r) PROVE MatchingInv'
  BY <1>3, ReadKeeps, ReadJobsKeeps, ScoreNextKeeps, InsertRowKeeps, InsertFailsKeeps,
     CommitBatchKeeps, CommitFailsKeeps DEF RunStep
<1>4. CASE UNCHANGED matchingVars
  <2>1. /\ UNCHANGED <<matching, owed, consents, job, settings, profile, match, approver, decided>>
        /\ Matched' = Matched
    BY <1>4 DEF matchingVars, Matched
  <2>2. RunsInv' /\ Apart'
    BY <2>1, RunsRest, SameJobsLast DEF MatchingInv
  <2> QED BY <2>1, <2>2 DEF MatchingInv, MatchingTypes, ReviewInv, Agreed
<1> QED
  BY <1>1, <1>2, <1>3, <1>4, UpsertedKeeps, ChangeSettingsKeeps, ChangeProfileKeeps,
     SetFeedbackKeeps, CycleKeeps, AutoApproveKeeps DEF MatchingNext

(* MatchingInv holds in every state.                                        *)
THEOREM MatchingInvariance == MatchingSpec => []MatchingInv
  BY MatchingInvInit, MatchingInvNext, PTL DEF MatchingSpec

-----------------------------------------------------------------------------
(* Among finitely many runs one has come to a job that is not newer than    *)
(* those of the others: the sets of those with an older job are ordered.    *)
LEMMA OldestEntry ==
  ASSUME NEW rs \in SUBSET MatchRuns, rs # {}, NEW age, \A r \in rs : age[r] \in Nat
  PROVE  \E r \in rs : \A other \in rs : age[r] <= age[other]
<1> DEFINE Below(r) == {x \in rs : age[x] < age[r]}
           T == {Below(r) : r \in rs}
<1>1. IsFiniteSet(rs)
  BY MatchingAssumption, FS_Subset
<1>2. IsWellFoundedOn(StrictSubsetOrdering(rs), SUBSET rs)
  BY <1>1, FS_FiniteSubsetsOfFinite, FS_StrictSubsetOrderingWellFounded
<1>3. T \subseteq SUBSET rs /\ T # {}
  OBVIOUS
<1>4. PICK U \in T : \A V \in T : ~ (<<V, U>> \in StrictSubsetOrdering(rs))
  BY <1>2, <1>3, WFMin
<1>5. PICK r \in rs : U = Below(r)
  OBVIOUS
<1>6. ASSUME NEW other \in rs, age[other] < age[r] PROVE FALSE
  <2>1. other \in Below(r) /\ other \notin Below(other)
    BY <1>6
  <2>2. Below(other) \subseteq Below(r)
    BY <1>6
  <2>3. Below(other) \in T /\ Below(other) \in SUBSET rs /\ U \in SUBSET rs
    BY <1>3
  <2>4. <<Below(other), U>> \in StrictSubsetOrdering(rs)
    BY <2>1, <2>2, <2>3, <1>5 DEF StrictSubsetOrdering
  <2> QED BY <2>3, <2>4, <1>4
<1> QED BY <1>6

(* Whoever waits, waits for a run that has gone on to another job, which is *)
(* not newer.                                                               *)
LEMMA AwaitedIsFurther ==
  ASSUME MatchingInv, NEW r1 \in MatchRuns, NEW r2 \in MatchRuns, Awaits(r1, r2),
         Inserting(r2), matching[r2].row <= Len(matching[r2].batch)
  PROVE  /\ MayPrecede(Entry(r1).job, Entry(r2).job)
         /\ job[Entry(r1).job].discovered \in Nat /\ job[Entry(r2).job].discovered \in Nat
<1> DEFINE m1 == matching[r1]
           m2 == matching[r2]
<1>1. /\ m1 \in RunRecord /\ RunOK(m1, owed[r1], Matched) /\ m1.at = "begin"
      /\ m2 \in RunRecord /\ RunOK(m2, owed[r2], Matched) /\ m2.at = "begin"
      /\ m1.row <= Len(m1.batch) /\ m2.row <= Len(m2.batch)
      /\ m1.batch[m1.row].job \in m2.rows
  BY OwnRun DEF Awaits, Inserting, Entry
<1>2. /\ m1.batch \in Seq(Candidate) /\ m1.row \in DOMAIN m1.batch
      /\ m2.batch \in Seq(Candidate) /\ m2.row \in DOMAIN m2.batch
  BY <1>1, SMTT(30) DEF RunRecord, RunOK, Kept
<1>3. m1.batch[m1.row] \in Candidate /\ m2.batch[m2.row] \in Candidate
  BY <1>2
<1>4. PICK k \in DOMAIN m2.batch : k < m2.row /\ m2.batch[k].job = m1.batch[m1.row].job
  BY <1>1 DEF RunOK, Kept
<1>5. MayPrecede(m2.batch[k].job, m2.batch[m2.row].job)
  BY <1>1, <1>2, <1>4 DEF RunOK, Ordered
<1>6. ASSUME NEW j \in Jobs PROVE job[j].discovered \in Nat
  <2>1. job[j] \in JobRow
    BY DEF MatchingInv, MatchingTypes
  <2>2. CASE job[j] = NoJob
    BY <2>2 DEF NoJob
  <2>3. CASE job[j] \in [verdict : {"clean", "scam"}, discovered : Times]
    <3>1. job[j].discovered \in Times
      BY <2>3
    <3> QED BY <3>1, MatchingAssumption
  <2> QED BY <2>1, <2>2, <2>3 DEF JobRow
<1>7. m1.batch[m1.row].job \in Jobs /\ m2.batch[m2.row].job \in Jobs
  BY <1>3 DEF Candidate
<1>8. /\ MayPrecede(m1.batch[m1.row].job, m2.batch[m2.row].job)
      /\ job[m1.batch[m1.row].job].discovered \in Nat
      /\ job[m2.batch[m2.row].job].discovered \in Nat
  BY <1>4, <1>5, <1>6, <1>7
<1> QED BY <1>8 DEF Entry

(* BulkInsert: for any number of jobs and of runs, transactions that wait   *)
(* in a circle have come to different jobs of the same time, since every    *)
(* list is in the order of discovered_at: the run with the oldest job waits *)
(* for one whose job is not newer.                                          *)
THEOREM CirclesNeedTies == MatchingSpec => []DeadlocksNeedTies
<1>1. ASSUME MatchingInv PROVE DeadlocksNeedTies
  <2> SUFFICES ASSUME NEW rs \in SUBSET MatchRuns, Circle(rs)
               PROVE  \E r, other \in rs :
                        /\ Awaits(r, other) /\ Entry(r).job # Entry(other).job
                        /\ job[Entry(r).job].discovered = job[Entry(other).job].discovered
    BY DEF DeadlocksNeedTies
  <2>1. ASSUME NEW r \in rs, NEW other \in rs, Awaits(r, other)
        PROVE  /\ MayPrecede(Entry(r).job, Entry(other).job)
               /\ job[Entry(r).job].discovered \in Nat /\ job[Entry(other).job].discovered \in Nat
    <3>1. Inserting(other) /\ matching[other].row <= Len(matching[other].batch)
      BY DEF Circle, Awaits
    <3> QED BY <1>1, <2>1, <3>1, AwaitedIsFurther
  <2> DEFINE age == [r \in rs |-> job[Entry(r).job].discovered]
  <2>2. \A r \in rs : age[r] \in Nat
    BY <2>1 DEF Circle
  <2>3. \A r \in rs : age[r] = job[Entry(r).job].discovered
    OBVIOUS
  <2> HIDE DEF age
  <2>4. PICK r \in rs : \A other \in rs : age[r] <= age[other]
    BY <2>2, OldestEntry DEF Circle
  <2>5. PICK other \in rs : Awaits(r, other)
    BY DEF Circle
  <2>6. age[r] <= age[other] /\ age[r] \in Nat /\ age[other] \in Nat
    BY <2>2, <2>4
  <2>7. Entry(r).job # Entry(other).job /\ age[r] >= age[other]
    BY <2>1, <2>3, <2>5 DEF MayPrecede
  <2> QED BY <2>3, <2>5, <2>6, <2>7
<1> QED BY <1>1, MatchingInvariance, PTL

(* What the user rejected, no run that was on its way and no cycle that     *)
(* lists it later changes, for any number of them.                          *)
THEOREM RejectionIsFinal == MatchingSpec => []RejectionStands
<1>1. MatchingInv => RejectionStands
  BY DEF MatchingInv, ReviewInv, RejectionStands
<1> QED BY <1>1, MatchingInvariance, PTL

(* RunForUser and ProcessPendingMatches approve only at a threshold the     *)
(* user agreed to, whatever the scorer answers and the user changes.        *)
THEOREM ApprovalHasConsent == MatchingSpec => []AutoApprovalWarranted
<1>1. MatchingInv => AutoApprovalWarranted
  BY DEF MatchingInv, ReviewInv, AutoApprovalWarranted
<1> QED BY <1>1, MatchingInvariance, PTL

(* A run that is over leaves no candidate without a match, but for batches  *)
(* that failed, for any number of runs that insert the same jobs.           *)
THEOREM NoCandidateLost == MatchingSpec => []CandidatesStored
<1>1. MatchingInv => CandidatesStored
  BY DEF MatchingInv, RunsInv, RunOK, Kept, CandidatesStored
<1> QED BY <1>1, MatchingInvariance, PTL

-----------------------------------------------------------------------------
-----------------------------------------------------------------------------
(* What scores are stored: ScoreNext lets no score below the minimum into   *)
(* its batch, and the check on match_score no score above the whole into    *)
(* the table, whatever the scorer answers. The batch has what it answered.  *)
RunGrades(m) ==
  /\ Len(m.batch) <= MatchBatch /\ (m.at = "score" => Len(m.batch) < MatchBatch)
  /\ m.at = "begin" => m.batch # <<>>
  /\ \A k \in DOMAIN m.batch :
       m.batch[k].score >= MinMatchScore /\ (k < m.row => Legal(m.batch[k].score))
  /\ \A k \in DOMAIN m.batch :
       m.batch[k].score \in Scores(PostingOf[m.batch[k].job], m.profile, Cosine[m.batch[k].job])

GradeInv ==
  /\ consents \subseteq 0..Whole
  /\ \A j \in Matched : match[j].score \in MinMatchScore..Whole
  /\ \A r \in MatchRuns : RunGrades(matching[r])

LEMMA LegalAndGood ==
  ASSUME NEW score \in 0..Whole, score >= MinMatchScore PROVE score \in MinMatchScore..Whole
<1>1. Whole \in Nat
  BY DEF Whole
<1>2. MinMatchScore \in 0..Whole
  BY MatchingAssumption
<1> QED BY <1>1, <1>2

(* One run takes a step.                                                    *)
LEMMA GradesOfRun ==
  ASSUME MatchingTypes, GradeInv, NEW r \in MatchRuns, NEW m, RunGrades(m),
         UNCHANGED <<match, consents>>, matching' = [matching EXCEPT ![r] = m]
  PROVE  GradeInv'
<1>1. \A x \in MatchRuns : matching'[x] = IF x = r THEN m ELSE matching[x]
  BY DEF MatchingTypes
<1>2. \A x \in MatchRuns : RunGrades(matching[x])'
  BY <1>1 DEF GradeInv, RunGrades, Legal
<1>3. Matched' = Matched
  BY DEF Matched
<1> QED BY <1>2, <1>3 DEF GradeInv

(* Someone else does, and no match has a new score.                         *)
LEMMA GradesOfMatches ==
  ASSUME GradeInv, UNCHANGED matching, consents' \subseteq 0..Whole, Matched' \subseteq Matched,
         \A j \in Matched' : match'[j].score = match[j].score
  PROVE  GradeInv'
  BY DEF GradeInv, RunGrades, Legal

LEMMA EmptyGrades ==
  ASSUME NEW m, m.batch = <<>>, m.at # "begin" PROVE RunGrades(m)
<1>1. Len(<<>>) = 0 /\ DOMAIN <<>> = {}
  OBVIOUS
<1> QED BY <1>1, MatchingAssumption DEF RunGrades

LEMMA NoRunGrades == RunGrades(NoRun)
  BY EmptyGrades DEF NoRun

LEMMA UserKeepsGrades ==
  ASSUME MatchingInv, GradeInv,
         \/ \E j \in Jobs, verdict \in {"clean", "scam"} : Upserted(j, verdict)
         \/ \E s \in Settings : ChangeSettings(s)
         \/ \E p \in Profiles : ChangeProfile(p)
         \/ \E js \in SUBSET Jobs, status \in {"approved", "rejected"} : SetStatus(js, status)
         \/ \E j \in Jobs, thumb \in {"up", "down"} : SetFeedback(j, thumb)
         \/ \E a \in Approvers : Cycle(a) \/ \E j \in Jobs, ok \in BOOLEAN : AutoApprove(a, j, ok)
  PROVE  GradeInv'
<1>1. MatchingTypes /\ consents \subseteq 0..Whole
  BY DEF MatchingInv, GradeInv
<1>2. ASSUME UNCHANGED <<match, matching, consents>> PROVE GradeInv'
  BY <1>1, <1>2, GradesOfMatches DEF Matched
<1>3. ASSUME NEW s \in Settings, ChangeSettings(s) PROVE GradeInv'
  <2>1. consents' \subseteq 0..Whole /\ UNCHANGED <<match, matching>>
    BY <1>1, <1>3, MatchingAssumption DEF ChangeSettings, Consent
  <2> QED BY <2>1, GradesOfMatches DEF Matched
<1>4. ASSUME NEW js \in SUBSET Jobs, NEW status, SetStatus(js, status) PROVE GradeInv'
  <2>1. /\ js \subseteq Matched /\ UNCHANGED <<matching, consents>>
        /\ match' = [j \in Jobs |-> IF j \in js THEN [match[j] EXCEPT !.status = status] ELSE match[j]]
    BY <1>4 DEF SetStatus
  <2>2. \A j \in Jobs : match'[j].score = match[j].score /\ (j \notin js => match'[j] = match[j])
    BY <1>1, <2>1 DEF MatchingTypes, Row
  <2>3. Matched' \subseteq Matched
    BY <2>1, <2>2 DEF Matched
  <2>4. \A j \in Matched' : match'[j].score = match[j].score
    BY <2>2 DEF Matched
  <2> QED BY <1>1, <2>1, <2>3, <2>4, GradesOfMatches
<1>5. ASSUME NEW j \in Jobs, NEW thumb, SetFeedback(j, thumb) PROVE GradeInv'
  <2>1. /\ j \in Matched /\ UNCHANGED <<matching, consents>>
        /\ match' = [match EXCEPT ![j].feedback = thumb]
    BY <1>5 DEF SetFeedback
  <2>2. \A i \in Jobs : match'[i].score = match[i].score /\ (i # j => match'[i] = match[i])
    BY <1>1, <2>1 DEF MatchingTypes, Row
  <2>3. Matched' \subseteq Matched
    BY <2>1, <2>2 DEF Matched
  <2>4. \A i \in Matched' : match'[i].score = match[i].score
    BY <2>2 DEF Matched
  <2> QED BY <1>1, <2>1, <2>3, <2>4, GradesOfMatches
<1>6. ASSUME NEW a \in Approvers, NEW j \in Jobs, NEW ok, AutoApprove(a, j, ok) PROVE GradeInv'
  <2>1. /\ j \in Matched /\ UNCHANGED <<matching, consents>>
        /\ match' = match \/ match' = [match EXCEPT ![j].status = "approved"]
    BY <1>6 DEF AutoApprove, MatchingInv, ReviewInv
  <2>2. \A i \in Jobs : match'[i].score = match[i].score /\ (i # j => match'[i] = match[i])
    BY <1>1, <2>1 DEF MatchingTypes, Row
  <2>3. Matched' \subseteq Matched
    BY <2>1, <2>2 DEF Matched
  <2>4. \A i \in Matched' : match'[i].score = match[i].score
    BY <2>2 DEF Matched
  <2> QED BY <1>1, <2>1, <2>3, <2>4, GradesOfMatches
<1> QED BY <1>2, <1>3, <1>4, <1>5, <1>6 DEF Upserted, ChangeProfile, Cycle

LEMMA ReadsKeepGrades ==
  ASSUME MatchingInv, GradeInv, NEW r \in MatchRuns,
         ReadUser(r) \/ ReadProfile(r) \/ ReadMatched(r) \/ ReadJobs(r) \/ ReadFails(r)
  PROVE  GradeInv'
<1> DEFINE m == matching[r]
<1>1. /\ MatchingTypes /\ m \in RunRecord /\ (m.at \notin {"score", "begin"} => m.batch = <<>>)
      /\ UNCHANGED <<match, consents>>
  BY OwnRun DEF MatchingInv, RunOK, Kept, ReadUser, ReadProfile, ReadMatched, ReadJobs, ReadFails
<1>2. ASSUME NEW n, n.batch = <<>>, n.at # "begin", matching' = [matching EXCEPT ![r] = n]
      PROVE  GradeInv'
  BY <1>1, <1>2, EmptyGrades, GradesOfRun DEF MatchingInv
<1>3. NoRun.batch = <<>> /\ NoRun.at # "begin"
  BY DEF NoRun
<1>4. CASE ReadUser(r)
  <2>1. /\ [NoRun EXCEPT !.at = "profile", !.settings = settings].batch = <<>>
        /\ [NoRun EXCEPT !.at = "profile", !.settings = settings].at # "begin"
    BY DEF NoRun
  <2> QED BY <1>2, <1>4, <2>1 DEF ReadUser
<1>5. CASE ReadProfile(r)
  <2> DEFINE n == IF profile.complete THEN [m EXCEPT !.profile = profile, !.at = "seen"] ELSE NoRun
  <2>1. n.batch = <<>> /\ n.at # "begin" /\ matching' = [matching EXCEPT ![r] = n]
    BY <1>1, <1>3, <1>5 DEF ReadProfile, RunRecord, MatchingTypes
  <2> HIDE DEF n
  <2> QED BY <1>2, <2>1
<1>6. CASE ReadMatched(r)
  <2> DEFINE n == [m EXCEPT !.seen = Matched, !.at = "jobs"]
  <2>1. n.batch = <<>> /\ n.at # "begin" /\ matching' = [matching EXCEPT ![r] = n]
    BY <1>1, <1>6 DEF ReadMatched, RunRecord, MatchingTypes
  <2> HIDE DEF n
  <2> QED BY <1>2, <2>1
<1>7. CASE ReadJobs(r)
  <2>1. PICK s : matching' = [matching EXCEPT ![r] =
                   IF Newest(s) = <<>> THEN NoRun ELSE [m EXCEPT !.todo = Newest(s), !.at = "score"]]
    BY <1>1, <1>7 DEF ReadJobs, MatchingTypes
  <2> DEFINE n == IF Newest(s) = <<>> THEN NoRun ELSE [m EXCEPT !.todo = Newest(s), !.at = "score"]
  <2>2. n.batch = <<>> /\ n.at # "begin" /\ matching' = [matching EXCEPT ![r] = n]
    BY <1>1, <1>3, <1>7, <2>1 DEF ReadJobs, RunRecord
  <2> HIDE DEF n
  <2> QED BY <1>2, <2>2
<1>8. CASE ReadFails(r)
  BY <1>2, <1>3, <1>8 DEF ReadFails
<1> QED BY <1>4, <1>5, <1>6, <1>7, <1>8, SMTT(30)

LEMMA ScoringKeepsGrades ==
  ASSUME MatchingInv, GradeInv, NEW r \in MatchRuns, ScoreNext(r) PROVE GradeInv'
<1> DEFINE m == matching[r]
           j == Head(m.todo)
           p == PostingOf[j]
           skipped == j \in m.seen \/ IsExcluded(p, m.profile)
<1>1. /\ MatchingTypes /\ m \in RunRecord /\ m.at = "score" /\ m.row = 1
      /\ m.batch \in Seq(Candidate) /\ RunGrades(m) /\ UNCHANGED <<match, consents>>
  BY OwnRun, SMTT(30) DEF MatchingInv, ScoreNext, RunOK, Kept, GradeInv, RunRecord
<1>2. PICK score \in Scores(p, m.profile, Cosine[j]) :
        LET good == ~skipped /\ score >= MinMatchScore
            entry == [job |-> j, score |-> score, status |-> Status(m.settings, score)]
            batch == IF good THEN Append(m.batch, entry) ELSE m.batch
            at == AfterScoring(batch, Tail(m.todo))
        IN  matching' = [matching EXCEPT ![r] =
              IF at = "idle" THEN NoRun
              ELSE [m EXCEPT !.todo = Tail(m.todo), !.batch = batch, !.at = at]]
  BY <1>1 DEF ScoreNext, MatchingTypes
<1> DEFINE good == ~skipped /\ score >= MinMatchScore
           entry == [job |-> j, score |-> score, status |-> Status(m.settings, score)]
           batch == IF good THEN Append(m.batch, entry) ELSE m.batch
           at == AfterScoring(batch, Tail(m.todo))
           n == [m EXCEPT !.todo = Tail(m.todo), !.batch = batch, !.at = at]
           ScoredIn(e) == /\ e.score >= MinMatchScore
                          /\ e.score \in Scores(PostingOf[e.job], m.profile, Cosine[e.job])
<1>3. /\ entry.score = score /\ entry.job = j
      /\ score \in Scores(PostingOf[j], m.profile, Cosine[j])
  OBVIOUS
<1> HIDE DEF skipped, entry, p, j
<1>4. /\ Len(m.batch) \in Nat /\ Len(m.batch) + 1 <= MatchBatch /\ MatchBatch \in Nat \ {0}
      /\ \A k \in DOMAIN m.batch : ScoredIn(m.batch[k])
  BY <1>1, MatchingAssumption DEF RunGrades
<1>5. /\ Len(batch) <= MatchBatch /\ Len(batch) \in Nat
      /\ \A k \in DOMAIN batch : k \in Nat \ {0} /\ ScoredIn(batch[k])
      /\ Len(batch) >= MatchBatch => batch # <<>>
  <2>1. CASE good
    <3>1. batch = Append(m.batch, entry) /\ score >= MinMatchScore
      BY <2>1
    <3>2. /\ DOMAIN Append(m.batch, entry) = DOMAIN m.batch \cup {Len(m.batch) + 1}
          /\ Len(Append(m.batch, entry)) = Len(m.batch) + 1
          /\ Append(m.batch, entry)[Len(m.batch) + 1] = entry
          /\ \A k \in DOMAIN m.batch : k \in Nat \ {0} /\ Append(m.batch, entry)[k] = m.batch[k]
          /\ Append(m.batch, entry) # <<>>
      BY <1>1
    <3> HIDE DEF batch
    <3> QED BY <1>3, <1>4, <3>1, <3>2
  <2>2. CASE ~good
    <3>1. batch = m.batch
      BY <2>2
    <3> HIDE DEF batch
    <3>2. /\ Len(m.batch) >= MatchBatch => FALSE
          /\ \A k \in DOMAIN m.batch : k \in Nat \ {0}
      BY <1>1, <1>4
    <3> QED BY <1>4, <3>1, <3>2
  <2> QED BY <2>1, <2>2
<1> HIDE DEF batch
<1>6. /\ at = "begin" => batch # <<>>
      /\ at = "score" => Len(batch) < MatchBatch
  BY <1>4, <1>5 DEF AfterScoring
<1>7. n.batch = batch /\ n.at = at /\ n.row = 1 /\ n.profile = m.profile
  BY <1>1 DEF RunRecord
<1>8. matching' = [matching EXCEPT ![r] = IF at = "idle" THEN NoRun ELSE n]
  BY <1>2 DEF batch, entry, skipped, p, j
<1> HIDE DEF at, n
<1>9. \A k \in DOMAIN batch : ~(k < 1)
  BY <1>5
<1>10. RunGrades(n)
  BY <1>5, <1>6, <1>7, <1>9 DEF RunGrades
<1> QED BY <1>1, <1>8, <1>10, NoRunGrades, GradesOfRun

LEMMA InsertRowKeepsGrades ==
  ASSUME MatchingInv, GradeInv, NEW r \in MatchRuns, InsertRow(r) PROVE GradeInv'
<1> DEFINE m == matching[r]
           rows == IF Entry(r).job \in Matched THEN m.rows ELSE m.rows \cup {Entry(r).job}
           n == [m EXCEPT !.row = m.row + 1, !.rows = rows]
<1>1. /\ MatchingTypes /\ m \in RunRecord /\ m.at = "begin" /\ RunGrades(m)
      /\ m.row \in Nat /\ m.batch \in Seq(Candidate) /\ Legal(m.batch[m.row].score)
      /\ UNCHANGED <<match, consents>> /\ matching' = [matching EXCEPT ![r] = n]
  BY OwnRun DEF MatchingInv, MatchingTypes, InsertRow, Inserting, Entry, GradeInv, RunRecord
<1>2. n.batch = m.batch /\ n.at = "begin" /\ n.row = m.row + 1 /\ n.profile = m.profile
  BY <1>1 DEF RunRecord
<1> HIDE DEF n
<1>3. \A k \in DOMAIN m.batch : k < m.row + 1 => k < m.row \/ k = m.row
  BY <1>1
<1>4. RunGrades(n)
  BY <1>1, <1>2, <1>3 DEF RunGrades
<1> QED BY <1>1, <1>4, GradesOfRun

LEMMA EndBatchGrades ==
  ASSUME MatchingInv, NEW r \in MatchRuns, EndBatch(r)
  PROVE  /\ RunGrades(AfterBatch(matching[r]))
         /\ matching' = [matching EXCEPT ![r] = AfterBatch(matching[r])]
<1> DEFINE m == matching[r]
<1>1. matching[r] \in RunRecord /\ matching' = [matching EXCEPT ![r] = AfterBatch(matching[r])]
  BY DEF EndBatch, AfterBatch, MatchingInv, MatchingTypes
<1>2. CASE m.todo = <<>>
  BY <1>1, <1>2, NoRunGrades DEF AfterBatch
<1>3. CASE m.todo # <<>>
  <2>1. AfterBatch(m).batch = <<>> /\ AfterBatch(m).at = "score"
    BY <1>1, <1>3 DEF AfterBatch, RunRecord
  <2> QED BY <1>1, <2>1, EmptyGrades
<1> QED BY <1>1, <1>2, <1>3

(* A transaction that ends has inserted all of its batch.                   *)
LEMMA TransactionKeepsGrades ==
  ASSUME MatchingInv, GradeInv, NEW r \in MatchRuns,
         InsertFails(r) \/ CommitBatch(r) \/ CommitFails(r)
  PROVE  GradeInv'
<1> DEFINE m == matching[r]
<1>1. EndBatch(r) /\ UNCHANGED consents /\ MatchingTypes /\ (UNCHANGED match \/ match' = Stored(r))
  BY DEF InsertFails, CommitBatch, CommitFails, MatchingInv
<1>2. CASE UNCHANGED match
  BY <1>1, <1>2, EndBatchGrades, GradesOfRun
<1>3. CASE match' = Stored(r) /\ m.row > Len(m.batch)
  <2>1. /\ m \in RunRecord /\ RunOK(m, owed[r], Matched) /\ m.batch \in Seq(Candidate)
        /\ m.row \in Nat /\ RunGrades(m)
    BY OwnRun DEF RunRecord, GradeInv
  <2>2. ASSUME NEW k \in DOMAIN m.batch PROVE m.batch[k].score \in MinMatchScore..Whole
    <3>1. k < m.row
      BY <1>3, <2>1
    <3>2. m.batch[k].score >= MinMatchScore /\ m.batch[k].score \in 0..Whole
      BY <2>1, <3>1 DEF RunGrades, Legal
    <3> QED BY <3>2, LegalAndGood
  <2>3. ASSUME NEW j \in m.rows PROVE RowFor(r, j).score \in MinMatchScore..Whole
    <3> DEFINE k == CHOOSE n \in DOMAIN m.batch : m.batch[n].job = j
    <3>1. \E n \in DOMAIN m.batch : m.batch[n].job = j
      BY <2>1 DEF RunOK, Kept
    <3>2. k \in DOMAIN m.batch
      BY <3>1, Zenon
    <3>3. RowFor(r, j).score = m.batch[k].score
      BY DEF RowFor
    <3> HIDE DEF k
    <3> QED BY <2>2, <3>2, <3>3
  <2>4. ASSUME NEW j \in Matched' PROVE match'[j].score \in MinMatchScore..Whole
    <3>1. j \in Jobs /\ match'[j] = IF j \in m.rows THEN RowFor(r, j) ELSE match[j]
      BY <1>3 DEF Matched, Stored
    <3>2. CASE j \in m.rows
      BY <2>3, <3>1, <3>2
    <3>3. CASE j \notin m.rows
      <4>1. match'[j] = match[j] /\ j \in Matched
        BY <3>1, <3>3 DEF Matched
      <4> QED BY <4>1 DEF GradeInv
    <3> QED BY <3>2, <3>3
  <2>5. \A x \in MatchRuns : RunGrades(matching'[x])
    <3>1. /\ RunGrades(AfterBatch(m))
          /\ \A x \in MatchRuns : matching'[x] = IF x = r THEN AfterBatch(m) ELSE matching[x]
      BY <1>1, EndBatchGrades DEF MatchingTypes
    <3> QED BY <3>1 DEF GradeInv
  <2>6. \A x \in MatchRuns : RunGrades(matching[x])'
    BY <2>5 DEF RunGrades, Legal
  <2> QED BY <1>1, <2>4, <2>6 DEF GradeInv
<1> QED BY <1>1, <1>2, <1>3 DEF InsertFails, CommitBatch, CommitFails

LEMMA GradeInvInit == MatchingInit => GradeInv
<1> SUFFICES ASSUME MatchingInit PROVE GradeInv
  OBVIOUS
<1>1. consents \subseteq 0..Whole
  BY MatchingAssumption DEF MatchingInit, Consent
<1>2. Matched = {} /\ \A r \in MatchRuns : matching[r] = NoRun
  BY DEF MatchingInit, Matched
<1> QED BY <1>1, <1>2, NoRunGrades DEF GradeInv

LEMMA GradeInvNext == MatchingInv /\ GradeInv /\ [MatchingNext]_matchingVars => GradeInv'
<1> SUFFICES ASSUME MatchingInv, GradeInv, [MatchingNext]_matchingVars PROVE GradeInv'
  OBVIOUS
<1>1. ASSUME NEW r \in MatchRuns, RunStep(r) PROVE GradeInv'
  BY <1>1, ReadsKeepGrades, ScoringKeepsGrades, InsertRowKeepsGrades, TransactionKeepsGrades
     DEF RunStep
<1>2. ASSUME NEW j \in Jobs,
             (\E status \in {"approved", "rejected"} : UpdateMatchMe(j, status))
             \/ ApproveMatch(j) \/ RejectMatch(j)
      PROVE  GradeInv'
  <2>1. {j} \in SUBSET Jobs
    OBVIOUS
  <2>2. \E status \in {"approved", "rejected"} : SetStatus({j}, status)
    BY <1>2 DEF UpdateMatchMe, ApproveMatch, RejectMatch
  <2> QED BY <2>1, <2>2, UserKeepsGrades
<1>3. ASSUME NEW js \in SUBSET Jobs, NEW status \in {"approved", "rejected"}, BulkAction(js, status)
      PROVE  GradeInv'
  BY <1>3, UserKeepsGrades DEF BulkAction
<1>4. CASE UNCHANGED matchingVars
  BY <1>4, GradesOfMatches DEF matchingVars, Matched, GradeInv
<1> QED BY <1>1, <1>2, <1>3, <1>4, UserKeepsGrades DEF MatchingNext

LEMMA GradeInvariance == MatchingSpec => []GradeInv
  BY GradeInvInit, GradeInvNext, MatchingInvariance, PTL DEF MatchingSpec

(* MatchingTypeOK.                                                          *)
THEOREM MatchingTypesHold == MatchingSpec => []MatchingTypeOK
<1>1. MatchingInv /\ GradeInv => MatchingTypeOK
  <2> SUFFICES ASSUME MatchingInv, GradeInv PROVE MatchingTypeOK
    OBVIOUS
  <2>1. ASSUME NEW j \in Matched
        PROVE  match[j].status \in MatchStatuses /\ match[j].feedback \in {"none", "up", "down"}
    <3>1. j \in Jobs /\ match[j] \in Row /\ match[j].status # "none"
      BY MatchedHaveStatus DEF MatchingInv, MatchingTypes, Matched
    <3> QED BY <3>1 DEF Row
  <2>2. ASSUME NEW r \in MatchRuns
        PROVE  /\ matching[r].at \in {"idle", "profile", "seen", "jobs", "score", "begin"}
               /\ Len(matching[r].batch) <= MatchBatch /\ matching[r].rows \subseteq BatchJobs(r)
               /\ Inserting(r) => matching[r].batch # <<>>
    <3>1. matching[r] \in RunRecord /\ RunOK(matching[r], owed[r], Matched) /\ RunGrades(matching[r])
      BY OwnRun DEF GradeInv
    <3> QED BY <3>1, SMTT(30) DEF RunRecord, RunOK, Kept, RunGrades, BatchJobs, Inserting
  <2> QED BY <2>1, <2>2 DEF MatchingTypeOK, MatchingInv, MatchingTypes, JobRow, ReviewInv, GradeInv
<1> QED BY <1>1, MatchingInvariance, GradeInvariance, PTL

-----------------------------------------------------------------------------
-----------------------------------------------------------------------------
(* The arithmetic of the scorer: what none of its dimensions exceeds, their *)
(* weighted sum does not exceed.                                            *)

LEMMA WholeIsNumber == Whole \in Nat
  BY DEF Whole

LEMMA Ratio ==
  ASSUME NEW a \in Nat, NEW n \in Nat \ {0}, a <= n PROVE (a * Whole) \div n \in 0..Whole
<1> DEFINE q == (a * Whole) \div n
           x == a * Whole
<1>1. x \in Nat /\ x <= n * Whole
  BY DEF Whole
<1> HIDE DEF x
<1>2. q \in Int /\ n * q <= x /\ x < n * q + n
  BY <1>1 DEF x
<1> HIDE DEF q
<1>3. q >= 0
  <2> SUFFICES ASSUME q <= -1 PROVE FALSE
    BY <1>2
  <2>1. n * q <= n * (-1)
    BY <1>2
  <2> QED BY <1>1, <1>2, <2>1
<1>4. q <= Whole
  <2> SUFFICES ASSUME q >= Whole + 1 PROVE FALSE
    BY <1>2 DEF Whole
  <2>1. n * q >= n * (Whole + 1)
    BY <1>2 DEF Whole
  <2>2. n * (Whole + 1) > n * Whole
    BY DEF Whole
  <2> QED BY <1>1, <1>2, <2>1, <2>2 DEF Whole
<1> QED BY <1>2, <1>3, <1>4 DEF q, x, Whole

LEMMA OfTwo ==
  ASSUME NEW a \in Int, NEW b \in Int
  PROVE  /\ Max({a, b}) = a \/ Max({a, b}) = b
         /\ Max({a, b}) >= a /\ Max({a, b}) >= b
         /\ Min({a, b}) = a \/ Min({a, b}) = b
         /\ Min({a, b}) <= a /\ Min({a, b}) <= b
<1>1. \E x \in {a, b} : \A y \in {a, b} : x >= y
  OBVIOUS
<1>2. Max({a, b}) \in {a, b} /\ \A y \in {a, b} : Max({a, b}) >= y
  BY <1>1, Zenon DEF Max
<1>3. \E x \in {a, b} : \A y \in {a, b} : x <= y
  OBVIOUS
<1>4. Min({a, b}) \in {a, b} /\ \A y \in {a, b} : Min({a, b}) <= y
  BY <1>3, Zenon DEF Min
<1> QED BY <1>2, <1>4

LEMMA UpTo ==
  ASSUME NEW n \in Nat PROVE IsFiniteSet(1..n) /\ Cardinality(1..n) = n
<1>1. IsFiniteSet(1..n) /\ Cardinality(1..n) = IF 1 > n THEN 0 ELSE n - 1 + 1
  BY FS_Interval
<1> QED BY <1>1

(* The sets of those above each are ordered, and one is the least.          *)
LEMMA GreatestMark ==
  ASSUME NEW K \in SUBSET (0..Whole), K # {}
  PROVE  Max(K) \in K
<1> DEFINE Above(k) == {m \in K : m > k}
           T == {Above(k) : k \in K}
<1>1. IsFiniteSet(0..Whole)
  <2>1. Whole \in Int /\ 0 \in Int
    BY WholeIsNumber
  <2> QED BY <2>1, FS_Interval
<1>2. IsFiniteSet(K)
  BY <1>1, FS_Subset
<1>3. IsWellFoundedOn(StrictSubsetOrdering(K), SUBSET K)
  BY <1>2, FS_FiniteSubsetsOfFinite, FS_StrictSubsetOrderingWellFounded
<1>4. T \subseteq SUBSET K /\ T # {}
  OBVIOUS
<1>5. PICK U \in T : \A V \in T : ~ (<<V, U>> \in StrictSubsetOrdering(K))
  BY <1>3, <1>4, WFMin
<1>6. PICK k \in K : U = Above(k)
  OBVIOUS
<1>7. \A m \in K : m \in Int
  BY WholeIsNumber
<1>8. \A m \in K : k >= m
  <2> SUFFICES ASSUME NEW m \in K, m > k PROVE FALSE
    BY <1>7
  <2>1. m \in Above(k) /\ m \notin Above(m)
    BY <1>7
  <2>2. Above(m) \subseteq Above(k)
    <3>1. \A j \in K : j > m => j > k
      BY <1>7
    <3> QED BY <3>1
  <2>3. Above(m) \in T /\ Above(m) \in SUBSET K /\ U \in SUBSET K
    BY <1>4
  <2>4. <<Above(m), U>> \in StrictSubsetOrdering(K)
    BY <2>1, <2>2, <2>3, <1>6 DEF StrictSubsetOrdering
  <2> QED BY <2>3, <2>4, <1>5
<1> QED BY <1>8 DEF Max

(* Each word of b that a has is a word of a of its own, unless b repeats it. *)
LEMMA OverlapBounded ==
  ASSUME NEW a \in Seq(STRING), NEW b \in Seq(STRING), ~Repeats(b, a)
  PROVE  WordOverlap(a, b) \in 0..Whole
<1> DEFINE S == {i \in DOMAIN b : b[i] \in Range(a)}
           shared == Cardinality(S)
           union == Len(a) + Len(b) - shared
           f == [i \in S |-> CHOOSE k \in DOMAIN a : a[k] = b[i]]
<1>1. /\ Len(a) \in Nat /\ Len(b) \in Nat /\ DOMAIN a = 1..Len(a) /\ DOMAIN b = 1..Len(b)
  OBVIOUS
<1>2. IsFiniteSet(1..Len(a)) /\ Cardinality(1..Len(a)) = Len(a)
      /\ IsFiniteSet(1..Len(b)) /\ Cardinality(1..Len(b)) = Len(b)
  BY <1>1, UpTo
<1>3. shared \in Nat /\ shared <= Len(b)
  <2>1. S \subseteq 1..Len(b)
    BY <1>1
  <2> QED BY <1>2, <2>1, FS_Subset, FS_CardinalityType
<1>4. shared <= Len(a)
  <2>1. \A i \in S : f[i] \in DOMAIN a /\ a[f[i]] = b[i]
    <3> SUFFICES ASSUME NEW i \in S PROVE f[i] \in DOMAIN a /\ a[f[i]] = b[i]
      OBVIOUS
    <3>1. \E k \in DOMAIN a : a[k] = b[i]
      BY DEF Range
    <3> QED BY <3>1, Zenon
  <2>2. f \in [S -> 1..Len(a)]
    BY <1>1, <2>1
  <2>3. IsInjective(f)
    <3> SUFFICES ASSUME NEW i \in S, NEW j \in S, f[i] = f[j] PROVE i = j
      BY DEF IsInjective
    <3>1. b[i] = b[j] /\ i \in DOMAIN b /\ j \in DOMAIN b /\ b[i] \in Range(a)
      BY <2>1
    <3> QED BY <3>1 DEF Repeats
  <2> HIDE DEF f
  <2>4. f \in Injection(S, 1..Len(a))
    BY <2>2, <2>3 DEF Injection
  <2> QED BY <1>2, <2>4, FS_Injection
<1> HIDE DEF S, shared
<1>5. union \in Nat /\ shared <= union
  BY <1>1, <1>3, <1>4
<1>6. WordOverlap(a, b) = IF a = <<>> \/ b = <<>> \/ union = 0 THEN 0
                                                             ELSE (shared * Whole) \div union
  BY DEF WordOverlap, shared, S
<1> HIDE DEF union
<1>7. 0 \in 0..Whole
  BY WholeIsNumber
<1> QED BY <1>3, <1>5, <1>6, <1>7, Ratio

-----------------------------------------------------------------------------
Dimension(x) == x \in Int /\ x <= Whole

LEMMA TitleBounded ==
  ASSUME NEW title \in Seq(STRING), NEW targets \in SUBSET Seq(STRING),
         \A t \in targets : ~Repeats(t, title)
  PROVE  Dimension(ScoreTitle(title, targets))
<1>1. Dimension(Whole \div 2) /\ Dimension(Whole)
  BY DEF Dimension, Whole
<1>2. CASE targets # {} /\ title \notin targets
  <2> DEFINE K == {WordOverlap(title, t) : t \in targets}
  <2>1. K \in SUBSET (0..Whole) /\ K # {}
    BY <1>2, OverlapBounded
  <2>2. Max(K) \in 0..Whole
    BY <2>1, GreatestMark
  <2>3. ScoreTitle(title, targets) = Max(K)
    BY <1>2 DEF ScoreTitle
  <2> HIDE DEF K
  <2> QED BY <2>2, <2>3, WholeIsNumber DEF Dimension
<1> QED BY <1>1, <1>2 DEF ScoreTitle

LEMMA LocationBounded ==
  ASSUME NEW p, NEW u PROVE Dimension(ScoreLocation(p, u))
<1>1. Dimension(LocationMatch(p.place, u.places))
  BY DEF LocationMatch, Dimension, Whole
<1>2. Dimension(Whole) /\ Dimension(0)
  BY DEF Dimension, Whole
<1> QED BY <1>1, <1>2 DEF ScoreLocation

LEMMA RangesBounded ==
  ASSUME NEW jobMin \in Nat, NEW jobMax \in Nat, NEW userMin \in Int, NEW userMax \in Int
  PROVE  Dimension(RangeOverlap(jobMin, jobMax, userMin, userMax))
<1> DEFINE start == Max({jobMin, userMin})
           end == Min({jobMax, userMax})
           near == (jobMax * Whole) \div userMin
           ratio == ((end - start) * Whole) \div (userMax - userMin)
<1>1. RangeOverlap(jobMin, jobMax, userMin, userMax) =
        IF end < start THEN IF jobMax < userMin THEN Max({0, near}) ELSE 1000
        ELSE IF userMax = userMin THEN Whole
        ELSE Min({Whole, ratio})
  BY DEF RangeOverlap
<1>2. /\ start \in Int /\ end \in Int
      /\ start >= jobMin /\ start >= userMin /\ end <= jobMax /\ end <= userMax
  <2>1. jobMin \in Int /\ jobMax \in Int
    OBVIOUS
  <2> QED BY <2>1, OfTwo
<1> HIDE DEF start, end
<1>3. ASSUME jobMax < userMin PROVE Dimension(Max({0, near}))
  <2>1. userMin \in Nat \ {0} /\ jobMax <= userMin
    BY <1>3
  <2>2. near \in 0..Whole
    BY <2>1, Ratio
  <2> HIDE DEF near
  <2>3. near \in Int /\ near <= Whole /\ 0 <= Whole /\ 0 \in Int
    BY <2>2, WholeIsNumber
  <2>4. Max({0, near}) = 0 \/ Max({0, near}) = near
    BY <2>3, OfTwo
  <2> QED BY <2>3, <2>4 DEF Dimension
<1>4. ASSUME ~(end < start), userMax # userMin PROVE Dimension(Min({Whole, ratio}))
  <2> DEFINE x == (end - start) * Whole
             n == userMax - userMin
  <2>1. x \in Int /\ n \in Nat \ {0}
    BY <1>2, <1>4, WholeIsNumber
  <2> HIDE DEF x, n
  <2>2. x \div n \in Int
    BY <2>1
  <2>3. ratio \in Int
    BY <2>2 DEF x, n
  <2> HIDE DEF ratio
  <2>4. /\ Min({Whole, ratio}) = Whole \/ Min({Whole, ratio}) = ratio
        /\ Min({Whole, ratio}) <= Whole
    BY <2>3, WholeIsNumber, OfTwo
  <2> QED BY <2>3, <2>4, WholeIsNumber DEF Dimension
<1>5. Dimension(Whole) /\ Dimension(1000)
  BY DEF Dimension, Whole
<1> HIDE DEF near, ratio
<1> QED BY <1>1, <1>3, <1>4, <1>5

LEMMA SalaryBounded ==
  ASSUME NEW p, NEW u, u.min \in Int, u.max \in Int,
         p.min \in Nat \cup {NotGiven}, p.max \in Nat \cup {NotGiven}
  PROVE  Dimension(ScoreSalary(p, u))
<1> DEFINE given(x, other) == IF x = NotGiven THEN other ELSE x
           jobMin == given(p.min, 0)
           jobMax == given(p.max, jobMin)
           userMin == given(u.min, 0)
           userMax == given(u.max, userMin + 50000)
<1>1. jobMin \in Nat /\ jobMax \in Nat /\ userMin \in Int /\ userMax \in Int
  BY DEF NotGiven
<1>2. \/ ScoreSalary(p, u) = Whole \div 2
      \/ ScoreSalary(p, u) = RangeOverlap(jobMin, jobMax, userMin, userMax)
  BY DEF ScoreSalary
<1>3. Dimension(Whole \div 2)
  BY DEF Dimension, Whole
<1> HIDE DEF jobMin, jobMax, userMin, userMax
<1> QED BY <1>1, <1>2, <1>3, RangesBounded

LEMMA SkillsBounded ==
  ASSUME NEW p, NEW u, IsFiniteSet(p.keywords)
  PROVE  Dimension(ScoreSkills(p, u))
<1>1. Dimension(3000) /\ Dimension(Whole \div 2)
  BY DEF Dimension, Whole
<1>2. CASE p.keywords # {}
  <2> DEFINE a == Cardinality(p.keywords \cap u.keywords)
             n == Cardinality(p.keywords)
  <2>1. a \in Nat /\ n \in Nat /\ a <= n
    BY FS_Subset, FS_CardinalityType
  <2>2. n # 0
    BY <1>2, FS_EmptySet
  <2>3. (a * Whole) \div n \in 0..Whole
    BY <2>1, <2>2, Ratio
  <2> DEFINE ratio == (a * Whole) \div n
  <2>4. ScoreSkills(p, u) = IF ~p.text \/ ~u.text THEN 3000 ELSE ratio
    BY <1>2 DEF ScoreSkills
  <2> HIDE DEF ratio
  <2>5. Dimension(ratio)
    BY <2>3, WholeIsNumber DEF ratio, Dimension
  <2> QED BY <1>1, <2>4, <2>5
<1> QED BY <1>1, <1>2 DEF ScoreSkills

LEMMA SeniorityBounded ==
  ASSUME NEW p, NEW u PROVE Dimension(ScoreSeniority(p, u))
  BY DEF ScoreSeniority, Dimension, Whole

(* Weights that make up a hundred, and six and four tenths.                 *)
LEMMA WeightedBounded ==
  ASSUME NEW a, NEW b, NEW c, NEW d, NEW e,
         Dimension(a), Dimension(b), Dimension(c), Dimension(d), Dimension(e)
  PROVE  Dimension((30 * a + 20 * b + 20 * c + 25 * d + 5 * e) \div 100)
  BY DEF Dimension, Whole

LEMMA CombinedBounded ==
  ASSUME NEW keyword, NEW semantic, Dimension(keyword), Dimension(semantic)
  PROVE  Dimension(Combined(keyword, semantic))
  BY DEF Dimension, Combined, Whole

LEMMA ScoresBounded ==
  ASSUME NEW j \in Jobs, NEW u \in Profiles, NEW mark \in Scores(PostingOf[j], u, Cosine[j]),
         \A t \in u.titles : ~Repeats(t, PostingOf[j].title)
  PROVE  Dimension(mark)
<1> DEFINE p == PostingOf[j]
<1>1. p \in Posting /\ IsFiniteSet(p.keywords) /\ u \in Profile
  BY ScorerAssumption
<1>2. /\ p.title \in Seq(STRING) /\ \A t \in u.titles : ~Repeats(t, p.title)
      /\ p.min \in Nat \cup {NotGiven} /\ p.max \in Nat \cup {NotGiven}
      /\ u.titles \in SUBSET Seq(STRING) /\ u.min \in Int /\ u.max \in Int
  BY <1>1 DEF Posting, Profile
<1>3. mark \in Scores(p, u, Cosine[j])
  OBVIOUS
<1> HIDE DEF p
<1>4. /\ Dimension(ScoreTitle(p.title, u.titles)) /\ Dimension(ScoreLocation(p, u))
      /\ Dimension(ScoreSalary(p, u)) /\ Dimension(ScoreSkills(p, u))
      /\ Dimension(ScoreSeniority(p, u))
  BY <1>1, <1>2, TitleBounded, LocationBounded, SalaryBounded, SkillsBounded, SeniorityBounded
<1>5. Dimension(Weighted(p, u))
  BY <1>4, WeightedBounded DEF Weighted
<1>6. \A s \in Semantic(Cosine[j]) : Dimension(s)
  <2>1. Cosine[j] \in Int /\ Cosine[j] <= Whole
    <3>1. Cosine[j] \in -Whole..Whole
      BY MatchingAssumption
    <3> QED BY <3>1, WholeIsNumber
  <2> QED BY <2>1 DEF Semantic, Dimension, Whole
<1> QED BY <1>3, <1>5, <1>6, CombinedBounded DEF Scores

(* IllegalOnlyByRepetition: whatever the postings and the profiles say and  *)
(* the embeddings answer, the check on match_score refuses a batch only for *)
(* a posting one of whose words is repeated in a title the user asks for.   *)
THEOREM OnlyRepeatedWordsAreIllegal == MatchingSpec => []IllegalOnlyByRepetition
<1>1. ASSUME MatchingInv, GradeInv PROVE IllegalOnlyByRepetition
  <2> SUFFICES ASSUME NEW r \in MatchRuns, NEW k \in DOMAIN matching[r].batch,
                      \A t \in matching[r].profile.titles :
                        ~Repeats(t, PostingOf[matching[r].batch[k].job].title)
               PROVE  matching[r].batch[k].score \in 0..Whole
    BY DEF IllegalOnlyByRepetition, Legal
  <2> DEFINE score == matching[r].batch[k].score
             j == matching[r].batch[k].job
  <2>1. j \in Jobs /\ matching[r].profile \in Profiles
    <3>1. matching[r].batch \in Seq(Candidate) /\ matching[r].profile \in Profiles
      BY <1>1 DEF MatchingInv, MatchingTypes, RunRecord
    <3>2. matching[r].batch[k] \in Candidate
      BY <3>1
    <3> QED BY <3>1, <3>2 DEF Candidate
  <2>2. score >= MinMatchScore /\ score \in Scores(PostingOf[j], matching[r].profile, Cosine[j])
    BY <1>1 DEF GradeInv, RunGrades
  <2>3. Dimension(score)
    BY <2>1, <2>2, ScoresBounded
  <2>4. MinMatchScore \in 0..Whole /\ Whole \in Nat
    BY MatchingAssumption, WholeIsNumber
  <2> HIDE DEF score
  <2>5. score \in 0..Whole
    BY <2>2, <2>3, <2>4 DEF Dimension
  <2> QED BY <2>5 DEF score
<1> QED BY <1>1, MatchingInvariance, GradeInvariance, PTL
=============================================================================
