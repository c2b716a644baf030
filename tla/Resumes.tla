------------------------------ MODULE Resumes ------------------------------
(***************************************************************************)
(* The resumes of one user: uploads, the primary resume, A/B testing, the  *)
(* choice Service.Submit makes among them, and the counters the database   *)
(* keeps per resume with triggers. Requests overlap, and each is a series  *)
(* of separate calls to S3 and PostgreSQL; the one transaction among them  *)
(* is that of SetPrimaryResume, which holds the rows it has updated.       *)
(***************************************************************************)
EXTENDS Naturals, FiniteSets

CONSTANTS
  ResumeIds,   \* keys of uploads
  Requests,    \* requests served at a time
  Submissions, \* applications that may be submitted
  Outcomes,    \* outcomes the user may record
  MaxCount,    \* bound on the interviews and offers of a resume
  ResumeFaults \* s3: a put is stored but reported to fail;  db: a statement fails;
               \* crash: a request ends half way

ASSUME ResumesAssumption ==
  /\ IsFiniteSet(ResumeIds) /\ IsFiniteSet(Submissions) /\ MaxCount \in Nat
  /\ "none" \notin ResumeIds
  /\ Outcomes \subseteq {"viewed", "rejected", "interview", "offer"}
  /\ ResumeFaults \subseteq {"s3", "db", "crash"}

VARIABLES
  account,     \* the users row exists
  rows,        \* resumes table: the ids in it
  resume,      \* resume[r]: its row
  files,       \* S3: the uploaded files
  ask,         \* ask[q]: where request q is, its resume, and the rows it saw or holds
  submitted,   \* submitted[a]: the application's resume, outcome, and the outcomes it had
  late,        \* a resume was inserted as primary beside others, or set as primary while
               \*   another SetPrimaryResume was under way that does not see it (history)
  removed,     \* a primary resume was deleted, and no other was set since (history)
  returned     \* applications that returned to an outcome they had (history)

resumeVars == <<account, rows, resume, files, ask, submitted, late, removed, returned>>
history == <<late, removed, returned>>

Fresh == [primary |-> FALSE, ab |-> FALSE, apps |-> 0, interview |-> 0, offer |-> 0]
Idle == [at |-> "idle", id |-> "none", rows |-> {}]
Unsubmitted == [resume |-> "none", outcome |-> "none", had |-> {}]

Primaries == {r \in rows : resume[r].primary}
ABEnabled == {r \in rows : resume[r].ab}
Used == {a \in Submissions : submitted[a] # Unsubmitted}
Locked(r) == \E q \in Requests : ask[q].at = "set" /\ r \in ask[q].rows

Goto(q, at, r) == ask' = [ask EXCEPT ![q].at = at, ![q].id = r]
End(q) == ask' = [ask EXCEPT ![q] = Idle]

ResumesInit ==
  /\ account = FALSE /\ rows = {} /\ files = {}
  /\ resume = [r \in ResumeIds |-> Fresh]
  /\ ask = [q \in Requests |-> Idle]
  /\ submitted = [a \in Submissions |-> Unsubmitted]
  /\ late = FALSE /\ removed = FALSE /\ returned = {}

-----------------------------------------------------------------------------
(* The first GET /me creates the user. Two of them may both find no user:   *)
(* the second insert breaks the UNIQUE constraint and its request fails.    *)
GetCurrentUser(q) ==
  /\ ask[q].at = "idle" /\ ~account
  /\ Goto(q, "create user", "none")
  /\ UNCHANGED <<account, rows, resume, files, submitted, history>>

CreateUser(q) ==
  /\ ask[q].at = "create user"
  /\ account' \in {TRUE} \cup (IF "db" \in ResumeFaults THEN {account} ELSE {})
  /\ End(q)
  /\ UNCHANGED <<rows, resume, files, submitted, history>>

-----------------------------------------------------------------------------
(* Mutant: the error of the put is ignored.                                 *)
PutFileUnchecked(q, r) ==
  /\ account /\ ask[q].at = "idle" /\ r \notin files
  /\ files' \in {files, files \cup {r}}
  /\ Goto(q, "count", r)
  /\ UNCHANGED <<account, rows, resume, submitted, history>>

(* UploadResume: the file goes to S3 under a new key, and then the resumes  *)
(* are counted to see whether this is the first.                            *)
PutFile(q, r) ==
  /\ account /\ ask[q].at = "idle" /\ r \notin files
  /\ files' = files \cup {r}
  /\ \/ Goto(q, "count", r)
     \/ "s3" \in ResumeFaults /\ UNCHANGED ask
  /\ UNCHANGED <<account, rows, resume, submitted, history>>

(* The error of the query is ignored: no resumes were found.                *)
CountResumes(q) ==
  /\ ask[q].at = "count"
  /\ \E first \in {rows = {}} \cup (IF "db" \in ResumeFaults THEN {TRUE} ELSE {}) :
       Goto(q, IF first THEN "insert primary" ELSE "insert", ask[q].id)
  /\ UNCHANGED <<account, rows, resume, files, submitted, history>>

(* When the insert fails the file stays behind.                             *)
CreateResume(q) ==
  /\ ask[q].at \in {"insert", "insert primary"}
  /\ LET primary == ask[q].at = "insert primary"
     IN  \/ /\ rows' = rows \cup {ask[q].id}
            /\ resume' = [resume EXCEPT ![ask[q].id] = [Fresh EXCEPT !.primary = primary]]
            /\ late' = (late \/ (primary /\ rows # {}))
            /\ removed' = (removed /\ ~primary)
         \/ ("db" \in ResumeFaults /\ UNCHANGED <<rows, resume, late, removed>>)
  /\ End(q)
  /\ UNCHANGED <<account, files, submitted, returned>>

-----------------------------------------------------------------------------
(* The id of a resume is chosen by its insert: before, nobody can name it.  *)
Uploading(q) == ask[q].at \in {"count", "insert", "insert primary"}
Named(r) == r \in files /\ \A q \in Requests : ~(Uploading(q) /\ ask[q].id = r)

(* SetPrimaryResume: the first statement takes the rows its snapshot shows, *)
(* waiting for whoever holds them; only the commit shows to others.         *)
SetPrimaryResume(q, r) ==
  /\ account /\ ask[q].at = "idle" /\ Named(r)
  /\ ask' = [ask EXCEPT ![q] = [at |-> "unset", id |-> r, rows |-> rows]]
  /\ UNCHANGED <<account, rows, resume, files, submitted, history>>

(* Mutant: without a transaction the unset shows at once.                   *)
UnsetPrimariesAtOnce(q) ==
  /\ ask[q].at = "unset" /\ \A r \in ask[q].rows : ~Locked(r)
  /\ ask' = [ask EXCEPT ![q].at = "set", ![q].rows = {}]
  /\ resume' = [r \in ResumeIds |-> [resume[r] EXCEPT !.primary = FALSE]]
  /\ UNCHANGED <<account, rows, files, submitted, history>>

UnsetPrimaries(q) ==
  /\ ask[q].at = "unset" /\ \A r \in ask[q].rows : ~Locked(r)
  /\ ask' = [ask EXCEPT ![q].at = "set", ![q].rows = @ \cap rows]
  /\ UNCHANGED <<account, rows, resume, files, submitted, history>>

(* Another change of the primary resume is under way whose snapshot is      *)
(* older than this resume.                                                  *)
Misses(q, r) == ask[q].at \in {"unset", "set"} /\ r \notin ask[q].rows

(* The chosen resume is set and the transaction commits, or the resume is   *)
(* not there and it is rolled back.                                         *)
SetChosen(q) ==
  /\ ask[q].at = "set" /\ \A o \in Requests \ {q} : ask[o].at = "set" => ask[q].id \notin ask[o].rows
  /\ IF ask[q].id \in rows
     THEN /\ resume' = [r \in ResumeIds |-> [resume[r] EXCEPT
               !.primary = (r = ask[q].id) \/ (@ /\ r \notin ask[q].rows)]]
          /\ removed' = FALSE
          /\ late' = (late \/ \E o \in Requests \ {q} : Misses(o, ask[q].id))
     ELSE UNCHANGED <<resume, removed, late>>
  /\ End(q)
  /\ UNCHANGED <<account, rows, files, submitted, returned>>

SetPrimaryFails(q) ==
  /\ "db" \in ResumeFaults /\ ask[q].at \in {"unset", "set"}
  /\ End(q)
  /\ UNCHANGED <<account, rows, resume, files, submitted, history>>

(* DeleteResume: a row that an application refers to cannot go. The file    *)
(* stays.                                                                   *)
DeleteResume(r) ==
  /\ r \in rows /\ ~Locked(r) /\ \A a \in Used : submitted[a].resume # r
  /\ rows' = rows \ {r}
  /\ resume' = [resume EXCEPT ![r] = Fresh]
  /\ removed' = (removed \/ resume[r].primary)
  /\ UNCHANGED <<account, files, ask, submitted, late, returned>>

UpdateResumeAB(r) ==
  /\ r \in rows /\ ~Locked(r)
  /\ resume' = [resume EXCEPT ![r].ab = ~@]
  /\ UNCHANGED <<account, rows, files, ask, submitted, history>>

-----------------------------------------------------------------------------
(* Submit: a resume that takes part in the A/B test, any of them as weights *)
(* are positive; if there is none or the query fails, a primary one.        *)
GetABResume(q) ==
  /\ account /\ ask[q].at = "idle" /\ Used # Submissions
  /\ \/ \E r \in ABEnabled : Goto(q, "create", r)
     \/ ((ABEnabled = {} \/ "db" \in ResumeFaults) /\ Goto(q, "primary", "none"))
  /\ UNCHANGED <<account, rows, resume, files, submitted, history>>

(* LIMIT 1 without an order.                                                *)
GetPrimaryResume(q) ==
  /\ ask[q].at = "primary"
  /\ \/ \E r \in Primaries : Goto(q, "create", r)
     \/ (Primaries = {} \/ "db" \in ResumeFaults) /\ End(q)
  /\ UNCHANGED <<account, rows, resume, files, submitted, history>>

(* The insert, whose trigger counts the application; it fails when the      *)
(* resume was deleted in between.                                           *)
CreateApplication(q, a) ==
  /\ ask[q].at = "create" /\ a \notin Used /\ ~Locked(ask[q].id)
  /\ IF ask[q].id \in rows
     THEN /\ submitted' = [submitted EXCEPT ![a].resume = ask[q].id]
          /\ resume' = [resume EXCEPT ![ask[q].id].apps = @ + 1]
     ELSE UNCHANGED <<submitted, resume>>
  /\ End(q)
  /\ UNCHANGED <<account, rows, files, history>>

CreateApplicationFails(q) ==
  /\ ask[q].at = "create" /\ "db" \in ResumeFaults
  /\ End(q)
  /\ UNCHANGED <<account, rows, resume, files, submitted, history>>

(* Mutant: the trigger does not look at the old outcome.                    *)
CountsOutcomeAlways(a, o, kind) == o = kind

(* update_resume_stats.                                                     *)
CountsOutcome(a, o, kind) == o = kind /\ submitted[a].outcome # kind

RecordOutcome(a, o) ==
  /\ a \in Used /\ ~Locked(submitted[a].resume)
  /\ LET r == submitted[a].resume
         more(kind) == IF CountsOutcome(a, o, kind) THEN 1 ELSE 0
     IN  /\ resume[r].interview + more("interview") <= MaxCount
         /\ resume[r].offer + more("offer") <= MaxCount
         /\ resume' = [resume EXCEPT ![r].interview = @ + more("interview"),
                                     ![r].offer = @ + more("offer")]
  /\ submitted' = [submitted EXCEPT ![a].outcome = o, ![a].had = @ \cup {o}]
  /\ returned' = IF o \in submitted[a].had /\ o # submitted[a].outcome
                 THEN returned \cup {a} ELSE returned
  /\ UNCHANGED <<account, rows, files, ask, late, removed>>

-----------------------------------------------------------------------------
(* The request ends half way; a transaction is rolled back.                 *)
RequestDies(q) ==
  /\ "crash" \in ResumeFaults /\ ask[q] # Idle
  /\ End(q)
  /\ UNCHANGED <<account, rows, resume, files, submitted, history>>

ResumesNext ==
  \/ \E q \in Requests :
       \/ GetCurrentUser(q) \/ CreateUser(q) \/ CountResumes(q) \/ CreateResume(q)
       \/ UnsetPrimaries(q) \/ SetChosen(q) \/ SetPrimaryFails(q)
       \/ GetABResume(q) \/ GetPrimaryResume(q) \/ CreateApplicationFails(q) \/ RequestDies(q)
       \/ \E r \in ResumeIds : PutFile(q, r) \/ SetPrimaryResume(q, r)
       \/ \E a \in Submissions : CreateApplication(q, a)
  \/ \E r \in ResumeIds : DeleteResume(r) \/ UpdateResumeAB(r)
  \/ \E a \in Submissions, o \in Outcomes : RecordOutcome(a, o)

ResumesSpec == ResumesInit /\ [][ResumesNext]_resumeVars

-----------------------------------------------------------------------------
(* Types.                                                                   *)
ResumesTypeOK ==
  /\ account \in BOOLEAN /\ late \in BOOLEAN /\ removed \in BOOLEAN
  /\ rows \subseteq ResumeIds /\ files \subseteq ResumeIds /\ returned \subseteq Used
  /\ resume \in [ResumeIds -> [primary : BOOLEAN, ab : BOOLEAN, apps : 0..Cardinality(Submissions),
                               interview : 0..MaxCount, offer : 0..MaxCount]]
  /\ \A r \in ResumeIds \ rows : resume[r] = Fresh
  /\ \A q \in Requests :
       /\ ask[q].at \in {"idle", "create user", "count", "insert", "insert primary",
                         "unset", "set", "primary", "create"}
       /\ ask[q].id \in ResumeIds \cup {"none"} /\ ask[q].rows \subseteq ResumeIds
  /\ submitted \in [Submissions -> [resume : ResumeIds \cup {"none"}, had : SUBSET Outcomes,
                                    outcome : Outcomes \cup {"none"}]]

(* The user has one primary resume. There are two only after an upload that *)
(* took itself for the first was inserted beside another, because the two   *)
(* overlapped or its query failed, or after a new resume was made primary   *)
(* while a change of the primary resume waited for a row with a snapshot    *)
(* from before the upload; and there is none, although there are resumes,   *)
(* only after the primary one was deleted. Otherwise changing the primary   *)
(* resume, to one that may be gone, while others do and while requests      *)
(* fail, never leaves two or none.                                          *)
PrimaryKept ==
  /\ Cardinality(Primaries) > 1 => late
  /\ rows # {} /\ Primaries = {} => removed

(* The counters of a resume are those of its applications: all of them are  *)
(* counted once, and an interview or an offer is counted once per           *)
(* application, unless it returned to that outcome, which counts again and  *)
(* lets the interview rate exceed a hundred percent.                        *)
CountersTrue ==
  \A r \in rows :
    LET of == {a \in Used : submitted[a].resume = r}
    IN  /\ resume[r].apps = Cardinality(of)
        /\ of \cap returned = {} =>
             /\ resume[r].interview = Cardinality({a \in of : "interview" \in submitted[a].had})
             /\ resume[r].offer = Cardinality({a \in of : "offer" \in submitted[a].had})

(* Every application has its resume, and the file of it: though a resume    *)
(* may be deleted between the choice and the insert, and an upload may end  *)
(* anywhere.                                                                *)
ApplicationHasFile == \A a \in Used : submitted[a].resume \in rows \cap files
=============================================================================
