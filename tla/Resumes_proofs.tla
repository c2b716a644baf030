--------------------------- MODULE Resumes_proofs ---------------------------
(***************************************************************************)
(* Proofs about Resumes, for any number of resumes, overlapping requests   *)
(* and applications, and any faults.                                       *)
(*                                                                         *)
(* Whether there will be one primary resume depends on what requests that  *)
(* are under way have seen. PrimaryInv says that a change of the primary   *)
(* resume that will find its resume has every primary one in its snapshot, *)
(* and that an upload that was not the first finds a resume, or one that   *)
(* was deleted, when it is inserted.                                       *)
(*                                                                         *)
(* That a resume's counters are true needs more than the counters: each    *)
(* column is the number of rows it counts, below its bound, and an outcome *)
(* is recorded of an application once. CounterInv says so of every resume. *)
(***************************************************************************)
EXTENDS Resumes, FiniteSetTheorems, TLAPS

Steps == {"idle", "create user", "count", "insert", "insert primary",
          "unset", "set", "primary", "create"}
Kinds == {"interview", "offer"}

RowTypes ==
  /\ account \in BOOLEAN /\ late \in BOOLEAN /\ removed \in BOOLEAN
  /\ rows \subseteq files /\ files \subseteq ResumeIds
  /\ resume \in [ResumeIds -> [primary : BOOLEAN, ab : BOOLEAN, apps : Nat,
                               interview : 0..MaxCount, offer : 0..MaxCount]]
  /\ \A r \in ResumeIds \ rows : resume[r] = Fresh
  /\ ask \in [Requests -> [at : Steps, id : ResumeIds \cup {"none"}, rows : SUBSET ResumeIds]]

(* An upload has its file, and nobody else inserts its row.                 *)
UploadInv ==
  \A q \in Requests : Uploading(q) =>
    /\ ask[q].id \in files \ rows
    /\ \A o \in Requests \ {q} : Uploading(o) => ask[o].id # ask[q].id
    /\ \A o \in Requests : ask[o].at \in {"unset", "set"} => ask[o].id # ask[q].id

ChangeInv ==
  \A q \in Requests : ask[q].at \in {"unset", "set"} =>
    /\ ask[q].id \in files
    /\ ~late /\ ask[q].id \in rows => Primaries \subseteq ask[q].rows

OnePrimary == ~late => \A p, r \in Primaries : p = r
SomePrimary == ~removed => (rows # {} => Primaries # {})
                           /\ (rows = {} => \A q \in Requests : ask[q].at # "insert")

PrimaryInv == RowTypes /\ UploadInv /\ ChangeInv /\ OnePrimary /\ SomePrimary

-----------------------------------------------------------------------------
(* A request that ends, or comes to a step outside uploads and changes,     *)
(* leaves the uploads of the others as they were.                           *)
LEMMA UploadsKept ==
  ASSUME UploadInv, UNCHANGED <<rows, files>>,
         \A q \in Requests : ask'[q] = ask[q] \/ ask'[q].at \in {"idle", "create user", "primary", "create"}
  PROVE  UploadInv'
<1>1. \A q \in Requests : ask'[q].at \in {"count", "insert", "insert primary", "unset", "set"} =>
        ask'[q] = ask[q]
  OBVIOUS
<1>2. SUFFICES ASSUME NEW q \in Requests, Uploading(q)'
               PROVE  /\ ask'[q].id \in files \ rows
                      /\ \A o \in Requests \ {q} : Uploading(o)' => ask'[o].id # ask'[q].id
                      /\ \A o \in Requests : ask'[o].at \in {"unset", "set"} => ask'[o].id # ask'[q].id
  BY DEF UploadInv
<1>3. ask'[q] = ask[q] /\ Uploading(q)
  BY <1>1, <1>2 DEF Uploading
<1>4. ask[q].id \in files \ rows
  BY <1>3 DEF UploadInv
<1>5. ASSUME NEW o \in Requests \ {q}, Uploading(o)' PROVE ask'[o].id # ask'[q].id
  <2>1. ask'[o] = ask[o] /\ Uploading(o)
    BY <1>1, <1>5 DEF Uploading
  <2> QED BY <1>3, <2>1 DEF UploadInv
<1>6. ASSUME NEW o \in Requests, ask'[o].at \in {"unset", "set"} PROVE ask'[o].id # ask'[q].id
  <2>1. ask'[o] = ask[o]
    BY <1>1, <1>6
  <2> QED BY <1>3, <1>6, <2>1 DEF UploadInv
<1> QED BY <1>3, <1>4, <1>5, <1>6

(* The requests are as they were, or one of them has ended or has come to a *)
(* step outside uploads and changes.                                        *)
LEMMA QuietStep ==
  ASSUME PrimaryInv, UNCHANGED <<rows, files, late, removed>>, account' \in BOOLEAN,
         resume' \in [ResumeIds -> [primary : BOOLEAN, ab : BOOLEAN, apps : Nat,
                                    interview : 0..MaxCount, offer : 0..MaxCount]],
         \A r \in ResumeIds : resume'[r].primary = resume[r].primary,
         \A r \in ResumeIds \ rows : resume'[r] = Fresh,
         ask' \in [Requests -> [at : Steps, id : ResumeIds \cup {"none"}, rows : SUBSET ResumeIds]],
         \A q \in Requests : ask'[q] = ask[q] \/ ask'[q].at \in {"idle", "create user", "primary", "create"}
  PROVE  PrimaryInv'
<1>1. Primaries' = Primaries
  BY DEF Primaries, PrimaryInv, RowTypes
<1>2. RowTypes'
  BY DEF PrimaryInv, RowTypes
<1>3. UploadInv'
  BY UploadsKept DEF PrimaryInv
<1>4. ChangeInv'
  BY <1>1 DEF PrimaryInv, ChangeInv
<1>5. OnePrimary' /\ SomePrimary'
  BY <1>1 DEF PrimaryInv, OnePrimary, SomePrimary
<1> QED BY <1>2, <1>3, <1>4, <1>5 DEF PrimaryInv

(* A request moves, to an upload of its own resume or out of one.           *)
LEMMA UploadStep ==
  ASSUME UploadInv, NEW q \in Requests,
         \A o \in Requests \ {q} : ask'[o] = ask[o],
         \A o \in Requests \ {q} : Uploading(o) => ask[o].id \in files' \ rows',
         ask'[q].at \in {"count", "insert", "insert primary"} =>
           /\ ask'[q].id \in files' \ rows'
           /\ \A o \in Requests \ {q} : (Uploading(o) \/ ask[o].at \in {"unset", "set"})
                                       => ask[o].id # ask'[q].id,
         ask'[q].at \in {"unset", "set"} =>
           \A o \in Requests \ {q} : Uploading(o) => ask[o].id # ask'[q].id
  PROVE  UploadInv'
<1> SUFFICES ASSUME NEW a \in Requests, ask'[a].at \in {"count", "insert", "insert primary"}
             PROVE  /\ ask'[a].id \in files' \ rows'
                    /\ \A o \in Requests \ {a} :
                         ask'[o].at \in {"count", "insert", "insert primary"} => ask'[o].id # ask'[a].id
                    /\ \A o \in Requests : ask'[o].at \in {"unset", "set"} => ask'[o].id # ask'[a].id
  BY DEF UploadInv, Uploading
<1>1. CASE a = q
  BY <1>1 DEF Uploading
<1>2. CASE a # q
  <2>1. /\ ask'[a] = ask[a] /\ Uploading(a) /\ ask[a].id \in files' \ rows'
        /\ \A o \in Requests \ {a} : Uploading(o) => ask[o].id # ask[a].id
        /\ \A o \in Requests : ask[o].at \in {"unset", "set"} => ask[o].id # ask[a].id
    BY <1>2 DEF UploadInv, Uploading
  <2>2. \A o \in Requests \ {a, q} : ask'[o] = ask[o]
    OBVIOUS
  <2> QED BY <1>2, <2>1, <2>2 DEF Uploading
<1> QED BY <1>1, <1>2

LEMMA OneAsk ==
  ASSUME PrimaryInv, NEW q \in Requests, NEW at \in Steps, NEW r \in ResumeIds \cup {"none"}
  PROVE  /\ Goto(q, at, r) =>
              /\ ask' \in [Requests -> [at : Steps, id : ResumeIds \cup {"none"}, rows : SUBSET ResumeIds]]
              /\ ask'[q].at = at /\ ask'[q].id = r /\ \A o \in Requests \ {q} : ask'[o] = ask[o]
         /\ End(q) =>
              /\ ask' \in [Requests -> [at : Steps, id : ResumeIds \cup {"none"}, rows : SUBSET ResumeIds]]
              /\ ask'[q].at = "idle" /\ \A o \in Requests \ {q} : ask'[o] = ask[o]
<1>1. ask \in [Requests -> [at : Steps, id : ResumeIds \cup {"none"}, rows : SUBSET ResumeIds]]
  BY DEF PrimaryInv, RowTypes
<1>2. Idle \in [at : Steps, id : ResumeIds \cup {"none"}, rows : SUBSET ResumeIds] /\ Idle.at = "idle"
  BY DEF Idle, Steps
<1> QED BY <1>1, <1>2 DEF Goto, End

LEMMA FirstLoginKeeps ==
  ASSUME PrimaryInv, NEW q \in Requests, GetCurrentUser(q) \/ CreateUser(q) PROVE PrimaryInv'
<1>1. /\ UNCHANGED <<rows, resume, files, late, removed>> /\ account' \in BOOLEAN
      /\ Goto(q, "create user", "none") \/ End(q)
  BY DEF GetCurrentUser, CreateUser, history, PrimaryInv, RowTypes
<1>2. "create user" \in Steps
  BY DEF Steps
<1> QED BY <1>1, <1>2, OneAsk, QuietStep DEF PrimaryInv, RowTypes

LEMMA SubmitKeeps ==
  ASSUME PrimaryInv, NEW q \in Requests,
         GetABResume(q) \/ GetPrimaryResume(q) \/ CreateApplicationFails(q)
         \/ SetPrimaryFails(q) \/ RequestDies(q)
  PROVE  PrimaryInv'
<1>1. /\ UNCHANGED <<account, rows, resume, files, late, removed>>
      /\ \/ End(q)
         \/ \E r \in ResumeIds : Goto(q, "create", r)
         \/ Goto(q, "primary", "none")
  BY DEF GetABResume, GetPrimaryResume, CreateApplicationFails, SetPrimaryFails, RequestDies,
         history, PrimaryInv, RowTypes, ABEnabled, Primaries
<1>2. {"create", "primary"} \subseteq Steps
  BY DEF Steps
<1>3. /\ ask' \in [Requests -> [at : Steps, id : ResumeIds \cup {"none"}, rows : SUBSET ResumeIds]]
      /\ \A o \in Requests : ask'[o] = ask[o] \/ ask'[o].at \in {"idle", "create user", "primary", "create"}
  BY <1>1, <1>2, OneAsk
<1> QED BY <1>1, <1>3, QuietStep DEF PrimaryInv, RowTypes

-----------------------------------------------------------------------------
(* Uploads.                                                                 *)

LEMMA PutFileKeeps ==
  ASSUME PrimaryInv, NEW q \in Requests, NEW r \in ResumeIds, PutFile(q, r) PROVE PrimaryInv'
<1>1. /\ ask[q].at = "idle" /\ r \notin files /\ files' = files \cup {r}
      /\ UNCHANGED <<account, rows, resume, late, removed>>
  BY DEF PutFile, history
<1>2. /\ ask' \in [Requests -> [at : Steps, id : ResumeIds \cup {"none"}, rows : SUBSET ResumeIds]]
      /\ ask'[q] = ask[q] \/ (ask'[q].at = "count" /\ ask'[q].id = r)
      /\ \A o \in Requests \ {q} : ask'[o] = ask[o]
  <2>1. "count" \in Steps
    BY DEF Steps
  <2> QED BY <2>1, OneAsk DEF PutFile, PrimaryInv, RowTypes
<1>3. RowTypes'
  BY <1>1, <1>2 DEF PrimaryInv, RowTypes
<1>4. UploadInv'
  <2>1. \A o \in Requests : Uploading(o) \/ ask[o].at \in {"unset", "set"} => ask[o].id \in files
    BY DEF PrimaryInv, UploadInv, ChangeInv
  <2>2. \A o \in Requests : Uploading(o) => ask[o].id \notin rows
    BY DEF PrimaryInv, UploadInv
  <2>3. r \notin rows /\ ~Uploading(q)
    BY <1>1 DEF PrimaryInv, RowTypes, Uploading
  <2>4. \A o \in Requests \ {q} : Uploading(o) => ask[o].id \in files' \ rows'
    BY <1>1, <2>1, <2>2
  <2>5. CASE ask' = ask
    BY <1>1, <2>1, <2>2, <2>5 DEF PrimaryInv, UploadInv, Uploading
  <2>6. CASE ask'[q].at = "count" /\ ask'[q].id = r
    <3>1. r \in files' \ rows'
      BY <1>1, <2>3
    <3>2. \A o \in Requests \ {q} : (Uploading(o) \/ ask[o].at \in {"unset", "set"}) => ask[o].id # r
      BY <1>1, <2>1
    <3> QED BY <1>2, <2>4, <2>6, <3>1, <3>2, UploadStep DEF PrimaryInv
  <2> QED BY <1>2, <2>5, <2>6 DEF PrimaryInv, RowTypes
<1>5. Primaries' = Primaries
  BY <1>1 DEF Primaries
<1>6. ChangeInv'
  BY <1>1, <1>2, <1>5 DEF PrimaryInv, ChangeInv
<1>7. OnePrimary' /\ SomePrimary'
  BY <1>1, <1>2, <1>5 DEF PrimaryInv, OnePrimary, SomePrimary
<1> QED BY <1>3, <1>4, <1>6, <1>7 DEF PrimaryInv

LEMMA CountResumesKeeps ==
  ASSUME PrimaryInv, NEW q \in Requests, CountResumes(q) PROVE PrimaryInv'
<1>1. /\ ask[q].at = "count" /\ UNCHANGED <<account, rows, resume, files, late, removed>>
  BY DEF CountResumes, history
<1>2. /\ ask' \in [Requests -> [at : Steps, id : ResumeIds \cup {"none"}, rows : SUBSET ResumeIds]]
      /\ ask'[q].at \in {"insert", "insert primary"} /\ ask'[q].id = ask[q].id
      /\ ask'[q].at = "insert" => rows # {}
      /\ \A o \in Requests \ {q} : ask'[o] = ask[o]
  <2>1. {"insert", "insert primary"} \subseteq Steps /\ ask[q].id \in ResumeIds \cup {"none"}
    BY DEF Steps, PrimaryInv, RowTypes
  <2>2. PICK first \in BOOLEAN : /\ Goto(q, IF first THEN "insert primary" ELSE "insert", ask[q].id)
                                 /\ ~first => rows # {}
    BY DEF CountResumes
  <2> QED BY <2>1, <2>2, OneAsk
<1>3. RowTypes'
  BY <1>1, <1>2 DEF PrimaryInv, RowTypes
<1>4. UploadInv'
  <2>1. Uploading(q) /\ ask'[q].at \notin {"unset", "set"}
    BY <1>1, <1>2 DEF Uploading
  <2>2. /\ \A o \in Requests : Uploading(o) => ask[o].id \in files \ rows
        /\ \A o \in Requests \ {q} : (Uploading(o) \/ ask[o].at \in {"unset", "set"})
                                    => ask[o].id # ask[q].id
    BY <2>1 DEF PrimaryInv, UploadInv
  <2> QED BY <1>1, <1>2, <2>1, <2>2, UploadStep DEF PrimaryInv
<1>5. Primaries' = Primaries
  BY <1>1 DEF Primaries
<1>6. ChangeInv'
  BY <1>1, <1>2, <1>5 DEF PrimaryInv, ChangeInv
<1>7. OnePrimary' /\ SomePrimary'
  BY <1>1, <1>2, <1>5 DEF PrimaryInv, OnePrimary, SomePrimary
<1> QED BY <1>3, <1>4, <1>6, <1>7 DEF PrimaryInv

(* A request whose insert has failed ends like any other.                   *)
LEMMA CreateResumeKeeps ==
  ASSUME PrimaryInv, NEW q \in Requests, CreateResume(q) PROVE PrimaryInv'
<1> DEFINE id == ask[q].id
           primary == ask[q].at = "insert primary"
<1>1. /\ ask[q].at \in {"insert", "insert primary"} /\ UNCHANGED <<account, files>>
      /\ ask' \in [Requests -> [at : Steps, id : ResumeIds \cup {"none"}, rows : SUBSET ResumeIds]]
      /\ ask'[q].at = "idle" /\ \A o \in Requests \ {q} : ask'[o] = ask[o]
  <2>1. End(q) /\ "idle" \in Steps
    BY DEF CreateResume, Steps
  <2> QED BY <2>1, OneAsk DEF CreateResume
<1>2. id \in files \ rows /\ id \in ResumeIds
      /\ \A o \in Requests \ {q} : (Uploading(o) \/ ask[o].at \in {"unset", "set"}) => ask[o].id # id
  BY <1>1 DEF PrimaryInv, RowTypes, UploadInv, Uploading
<1>3. CASE /\ rows' = rows \cup {id}
           /\ resume' = [resume EXCEPT ![id] = [Fresh EXCEPT !.primary = primary]]
           /\ late' = (late \/ (primary /\ rows # {})) /\ removed' = (removed /\ ~primary)
  <2>1. /\ primary => resume'[id] = [Fresh EXCEPT !.primary = TRUE]
        /\ ~primary => resume'[id] = [Fresh EXCEPT !.primary = FALSE]
        /\ \A r \in ResumeIds \ {id} : resume'[r] = resume[r]
    <3> HIDE DEF primary, id
    <3>1. resume'[id] = [Fresh EXCEPT !.primary = primary]
          /\ \A r \in ResumeIds \ {id} : resume'[r] = resume[r]
      BY <1>2, <1>3 DEF PrimaryInv, RowTypes
    <3>2. CASE primary
      <4>1. primary = TRUE
        BY <3>2
      <4> QED BY <3>1, <3>2, <4>1
    <3>3. CASE ~primary
      <4>1. primary \in BOOLEAN
        BY DEF primary
      <4>2. primary = FALSE
        BY <3>3, <4>1
      <4> QED BY <3>1, <3>3, <4>2
    <3> QED BY <3>1, <3>2, <3>3
  <2>2. RowTypes'
    <3>1. resume'[id] \in [primary : BOOLEAN, ab : BOOLEAN, apps : Nat,
                           interview : 0..MaxCount, offer : 0..MaxCount]
      <4>1. 0 \in Nat /\ 0 \in 0..MaxCount
        BY ResumesAssumption
      <4>2. CASE primary
        BY <2>1, <4>1, <4>2 DEF Fresh
      <4>3. CASE ~primary
        BY <2>1, <4>1, <4>3 DEF Fresh
      <4> QED BY <4>2, <4>3
    <3>2. resume' \in [ResumeIds -> [primary : BOOLEAN, ab : BOOLEAN, apps : Nat,
                                     interview : 0..MaxCount, offer : 0..MaxCount]]
      BY <1>3, <2>1, <3>1 DEF PrimaryInv, RowTypes
    <3>3. \A r \in ResumeIds \ rows' : resume'[r] = Fresh
      BY <1>2, <1>3, <2>1 DEF PrimaryInv, RowTypes
    <3>4. late' \in BOOLEAN /\ removed' \in BOOLEAN
      BY <1>3 DEF PrimaryInv, RowTypes
    <3>5. account' \in BOOLEAN /\ rows' \subseteq files' /\ files' \subseteq ResumeIds
      BY <1>1, <1>2, <1>3 DEF PrimaryInv, RowTypes
    <3> QED BY <1>1, <3>2, <3>3, <3>4, <3>5 DEF RowTypes
  <2>3. Primaries' = IF primary THEN Primaries \cup {id} ELSE Primaries
    <3>1. resume'[id].primary = primary /\ id \notin rows
      <4>1. CASE primary
        BY <1>2, <2>1, <4>1 DEF Fresh
      <4>2. CASE ~primary
        BY <1>2, <2>1, <4>2 DEF Fresh
      <4> QED BY <4>1, <4>2
    <3>2. rows \subseteq ResumeIds /\ \A r \in rows : resume'[r].primary = resume[r].primary
      BY <1>2, <2>1 DEF PrimaryInv, RowTypes
    <3> QED BY <1>3, <3>1, <3>2, Zenon DEF Primaries
  <2>4. UploadInv'
    <3>1. \A o \in Requests : Uploading(o) => ask[o].id \in files \ rows
      BY DEF PrimaryInv, UploadInv
    <3>2. ask'[q].at \notin {"count", "insert", "insert primary", "unset", "set"}
      BY <1>1
    <3> QED BY <1>1, <1>2, <1>3, <3>1, <3>2, UploadStep DEF PrimaryInv
  <2>5. ChangeInv'
    <3> SUFFICES ASSUME NEW o \in Requests, ask'[o].at \in {"unset", "set"}
                 PROVE  /\ ask'[o].id \in files
                        /\ ~late' /\ ask'[o].id \in rows' => Primaries' \subseteq ask'[o].rows
      BY <1>1 DEF ChangeInv
    <3>1. o # q /\ ask'[o] = ask[o] /\ ask[o].id # id
      BY <1>1, <1>2
    <3>2. ask[o].id \in files /\ (~late /\ ask[o].id \in rows => Primaries \subseteq ask[o].rows)
      BY <3>1 DEF PrimaryInv, ChangeInv
    <3> QED BY <1>3, <2>3, <3>1, <3>2
  <2>6. OnePrimary'
    BY <1>3, <2>3 DEF PrimaryInv, OnePrimary, Primaries
  <2>7. SomePrimary'
    BY <1>1, <1>3, <2>3 DEF PrimaryInv, SomePrimary
  <2> QED BY <2>2, <2>4, <2>5, <2>6, <2>7 DEF PrimaryInv
<1>4. CASE UNCHANGED <<rows, resume, late, removed>>
  BY <1>1, <1>4, QuietStep DEF PrimaryInv, RowTypes
<1> QED BY <1>3, <1>4 DEF CreateResume

-----------------------------------------------------------------------------
(* Changes of the primary resume.                                           *)

LEMMA SetPrimaryResumeKeeps ==
  ASSUME PrimaryInv, NEW q \in Requests, NEW r \in ResumeIds, SetPrimaryResume(q, r)
  PROVE  PrimaryInv'
<1>1. /\ Named(r) /\ ask' = [ask EXCEPT ![q] = [at |-> "unset", id |-> r, rows |-> rows]]
      /\ UNCHANGED <<account, rows, resume, files, late, removed>>
  BY DEF SetPrimaryResume, history
<1>2. /\ ask' \in [Requests -> [at : Steps, id : ResumeIds \cup {"none"}, rows : SUBSET ResumeIds]]
      /\ ask'[q] = [at |-> "unset", id |-> r, rows |-> rows]
      /\ \A o \in Requests \ {q} : ask'[o] = ask[o]
  BY <1>1 DEF PrimaryInv, RowTypes, Steps
<1>3. RowTypes'
  BY <1>1, <1>2 DEF PrimaryInv, RowTypes
<1>4. UploadInv'
  <2>1. ASSUME NEW o \in Requests, Uploading(o)'
        PROVE  o # q /\ ask'[o] = ask[o] /\ Uploading(o)
    <3>1. ask'[q].at = "unset"
      BY <1>2
    <3>2. o # q
      BY <2>1, <3>1 DEF Uploading
    <3>3. ask'[o] = ask[o]
      BY <1>2, <3>2
    <3> QED BY <2>1, <3>2, <3>3 DEF Uploading
  <2>2. \A o \in Requests : Uploading(o) => ask[o].id \in files \ rows /\ ask[o].id # r
    BY <1>1 DEF PrimaryInv, UploadInv, Named
  <2>3. SUFFICES ASSUME NEW x \in Requests, Uploading(x)'
                 PROVE  /\ ask'[x].id \in files' \ rows'
                        /\ \A o \in Requests \ {x} : Uploading(o)' => ask'[o].id # ask'[x].id
                        /\ \A o \in Requests : ask'[o].at \in {"unset", "set"} => ask'[o].id # ask'[x].id
    BY DEF UploadInv
  <2>4. x # q /\ ask'[x] = ask[x] /\ Uploading(x) /\ ask[x].id \in files' \ rows' /\ ask[x].id # r
    BY <1>1, <2>1, <2>2, <2>3
  <2>5. \A o \in Requests \ {x} : Uploading(o)' => ask'[o].id # ask'[x].id
    BY <2>1, <2>4 DEF PrimaryInv, UploadInv
  <2>6. ASSUME NEW o \in Requests, ask'[o].at \in {"unset", "set"} PROVE ask'[o].id # ask'[x].id
    <3>1. CASE o = q
      BY <1>2, <2>4, <3>1
    <3>2. CASE o # q
      <4>1. ask'[o] = ask[o]
        BY <1>2, <3>2
      <4> QED BY <2>4, <2>6, <4>1 DEF PrimaryInv, UploadInv
    <3> QED BY <3>1, <3>2
  <2> QED BY <2>4, <2>5, <2>6
<1>5. Primaries' = Primaries /\ Primaries \subseteq rows
  BY <1>1 DEF Primaries
<1>6. ChangeInv'
  BY <1>1, <1>2, <1>5 DEF PrimaryInv, ChangeInv, Named
<1>7. OnePrimary' /\ SomePrimary'
  BY <1>1, <1>2, <1>5 DEF PrimaryInv, OnePrimary, SomePrimary
<1> QED BY <1>3, <1>4, <1>6, <1>7 DEF PrimaryInv

LEMMA UnsetPrimariesKeeps ==
  ASSUME PrimaryInv, NEW q \in Requests, UnsetPrimaries(q) PROVE PrimaryInv'
<1>1. /\ ask[q].at = "unset" /\ UNCHANGED <<account, rows, resume, files, late, removed>>
      /\ ask' = [ask EXCEPT ![q].at = "set", ![q].rows = @ \cap rows]
  BY DEF UnsetPrimaries, history
<1>2. /\ ask' \in [Requests -> [at : Steps, id : ResumeIds \cup {"none"}, rows : SUBSET ResumeIds]]
      /\ ask'[q].at = "set" /\ ask'[q].id = ask[q].id /\ ask'[q].rows = ask[q].rows \cap rows
      /\ \A o \in Requests \ {q} : ask'[o] = ask[o]
  BY <1>1 DEF PrimaryInv, RowTypes, Steps
<1>3. RowTypes'
  BY <1>1, <1>2 DEF PrimaryInv, RowTypes
<1>4. UploadInv'
  <2>1. \A o \in Requests : Uploading(o) => ask[o].id \in files \ rows /\ ask[o].id # ask[q].id
    BY <1>1 DEF PrimaryInv, UploadInv
  <2>2. ask'[q].at \notin {"count", "insert", "insert primary"}
    BY <1>2
  <2>3. \A o \in Requests \ {q} : Uploading(o) => ask[o].id \in files' \ rows' /\ ask[o].id # ask'[q].id
    BY <1>1, <1>2, <2>1
  <2> QED BY <1>2, <2>2, <2>3, UploadStep DEF PrimaryInv
<1>5. Primaries' = Primaries /\ Primaries \subseteq rows
  BY <1>1 DEF Primaries
<1>6. ChangeInv'
  BY <1>1, <1>2, <1>5 DEF PrimaryInv, ChangeInv
<1>7. OnePrimary' /\ SomePrimary'
  BY <1>1, <1>2, <1>5 DEF PrimaryInv, OnePrimary, SomePrimary
<1> QED BY <1>3, <1>4, <1>6, <1>7 DEF PrimaryInv

(* The chosen resume becomes primary, and the other primary ones were in    *)
(* the snapshot.                                                            *)
LEMMA SetChosenKeeps ==
  ASSUME PrimaryInv, NEW q \in Requests, SetChosen(q) PROVE PrimaryInv'
<1> DEFINE id == ask[q].id
<1>1. /\ ask[q].at = "set" /\ UNCHANGED <<account, rows, files>>
      /\ ask' \in [Requests -> [at : Steps, id : ResumeIds \cup {"none"}, rows : SUBSET ResumeIds]]
      /\ ask'[q].at = "idle" /\ \A o \in Requests \ {q} : ask'[o] = ask[o]
  <2>1. End(q) /\ "idle" \in Steps
    BY DEF SetChosen, Steps
  <2> QED BY <2>1, OneAsk DEF SetChosen
<1>2. CASE id \notin rows
  BY <1>1, <1>2, QuietStep DEF SetChosen, PrimaryInv, RowTypes
<1>3. CASE id \in rows
  <2>1. /\ resume' = [r \in ResumeIds |-> [resume[r] EXCEPT
               !.primary = (r = id) \/ (@ /\ r \notin ask[q].rows)]]
        /\ ~removed' /\ late' = (late \/ \E o \in Requests \ {q} : Misses(o, id))
        /\ removed' \in BOOLEAN
    BY <1>3 DEF SetChosen
  <2>2. /\ resume' \in [ResumeIds -> [primary : BOOLEAN, ab : BOOLEAN, apps : Nat,
                                    interview : 0..MaxCount, offer : 0..MaxCount]]
        /\ \A r \in ResumeIds : resume'[r].primary =
             ((r = id) \/ (resume[r].primary /\ r \notin ask[q].rows))
        /\ \A r \in ResumeIds : r # id /\ ~resume[r].primary => resume'[r] = resume[r]
    BY <2>1 DEF PrimaryInv, RowTypes
  <2>3. RowTypes'
    <3>1. \A r \in ResumeIds \ rows : resume'[r] = Fresh
      BY <1>3, <2>2 DEF PrimaryInv, RowTypes, Fresh
    <3>2. late' \in BOOLEAN
      BY <2>1
    <3> QED BY <1>1, <2>1, <2>2, <3>1, <3>2 DEF PrimaryInv, RowTypes
  <2>4. UploadInv'
    BY <1>1, UploadsKept DEF PrimaryInv
  <2>5. Primaries' = {id} \cup (Primaries \ ask[q].rows) /\ id \in Primaries'
    BY <1>1, <1>3, <2>2 DEF Primaries, PrimaryInv, RowTypes
  <2>6. ChangeInv'
    <3> SUFFICES ASSUME NEW o \in Requests, ask'[o].at \in {"unset", "set"}
                 PROVE  /\ ask'[o].id \in files
                        /\ ~late' /\ ask'[o].id \in rows => Primaries' \subseteq ask'[o].rows
      BY <1>1 DEF ChangeInv
    <3>1. o # q /\ ask'[o] = ask[o]
      BY <1>1
    <3>2. ask[o].id \in files /\ (~late /\ ask[o].id \in rows => Primaries \subseteq ask[o].rows)
      BY <3>1 DEF PrimaryInv, ChangeInv
    <3>3. ~late' => ~late /\ id \in ask[o].rows
      BY <2>1, <3>1 DEF Misses
    <3> QED BY <2>5, <3>1, <3>2, <3>3
  <2>7. OnePrimary'
    <3>1. ~late' => Primaries \subseteq ask[q].rows
      BY <1>1, <1>3, <2>1 DEF PrimaryInv, ChangeInv
    <3> QED BY <2>5, <3>1 DEF OnePrimary
  <2>8. SomePrimary'
    BY <1>1, <1>3, <2>5 DEF SomePrimary
  <2> QED BY <2>3, <2>4, <2>6, <2>7, <2>8 DEF PrimaryInv
<1> QED BY <1>2, <1>3

LEMMA DeleteResumeKeeps ==
  ASSUME PrimaryInv, NEW r \in ResumeIds, DeleteResume(r) PROVE PrimaryInv'
<1>1. /\ r \in rows /\ rows' = rows \ {r} /\ resume' = [resume EXCEPT ![r] = Fresh]
      /\ removed' = (removed \/ resume[r].primary) /\ UNCHANGED <<account, files, ask, late>>
  BY DEF DeleteResume
<1>2. RowTypes'
  <2>1. Fresh \in [primary : BOOLEAN, ab : BOOLEAN, apps : Nat,
                   interview : 0..MaxCount, offer : 0..MaxCount]
    BY ResumesAssumption DEF Fresh
  <2>2. resume' \in [ResumeIds -> [primary : BOOLEAN, ab : BOOLEAN, apps : Nat,
                                   interview : 0..MaxCount, offer : 0..MaxCount]]
    BY <1>1, <2>1 DEF PrimaryInv, RowTypes
  <2>3. \A x \in ResumeIds \ rows' : resume'[x] = Fresh
    BY <1>1 DEF PrimaryInv, RowTypes
  <2>4. resume[r].primary \in BOOLEAN
    BY DEF PrimaryInv, RowTypes
  <2> QED BY <1>1, <2>2, <2>3, <2>4 DEF PrimaryInv, RowTypes
<1>3. UploadInv'
  <2>1. \A q \in Requests : Uploading(q)' <=> Uploading(q)
    BY <1>1 DEF Uploading
  <2> QED BY <1>1, <2>1 DEF PrimaryInv, UploadInv
<1>4. Primaries' = Primaries \ {r} /\ (r \in Primaries <=> resume[r].primary)
  BY <1>1 DEF Primaries, PrimaryInv, RowTypes
<1>5. ChangeInv' /\ OnePrimary'
  BY <1>1, <1>4 DEF PrimaryInv, ChangeInv, OnePrimary
<1>6. SomePrimary'
  <2>1. ~removed' => ~removed /\ r \notin Primaries
    BY <1>1, <1>4
  <2>2. ~removed' => Primaries' = Primaries /\ Primaries # {} /\ Primaries \subseteq rows
    BY <1>1, <1>4, <2>1 DEF PrimaryInv, SomePrimary, Primaries
  <2>3. ~removed' => rows' # {}
    BY <1>1, <2>1, <2>2
  <2> QED BY <2>2, <2>3 DEF SomePrimary
<1> QED BY <1>2, <1>3, <1>5, <1>6 DEF PrimaryInv

-----------------------------------------------------------------------------
(* Submissions: an application refers to a row of the table.                *)
SubmittedInv ==
  /\ submitted \in [Submissions -> [resume : ResumeIds \cup {"none"}, had : SUBSET Outcomes,
                                    outcome : Outcomes \cup {"none"}]]
  /\ \A a \in Used : submitted[a].resume \in rows

ResumesInv == PrimaryInv /\ SubmittedInv

LEMMA UpdateResumeABKeeps ==
  ASSUME PrimaryInv, NEW r \in ResumeIds, UpdateResumeAB(r) PROVE PrimaryInv'
<1>1. /\ r \in rows /\ resume' = [resume EXCEPT ![r].ab = ~@]
      /\ UNCHANGED <<account, rows, files, ask, late, removed>>
  BY DEF UpdateResumeAB, history
<1>2. /\ resume' \in [ResumeIds -> [primary : BOOLEAN, ab : BOOLEAN, apps : Nat,
                                   interview : 0..MaxCount, offer : 0..MaxCount]]
      /\ \A x \in ResumeIds : resume'[x].primary = resume[x].primary
      /\ \A x \in ResumeIds \ rows : resume'[x] = Fresh
  BY <1>1 DEF PrimaryInv, RowTypes
<1> QED BY <1>1, <1>2, QuietStep DEF PrimaryInv, RowTypes

LEMMA CreateApplicationKeeps ==
  ASSUME ResumesInv, NEW q \in Requests, NEW a \in Submissions, CreateApplication(q, a)
  PROVE  ResumesInv'
<1> DEFINE id == ask[q].id
<1>1. /\ a \notin Used /\ UNCHANGED <<account, rows, files, late, removed>>
      /\ ask' \in [Requests -> [at : Steps, id : ResumeIds \cup {"none"}, rows : SUBSET ResumeIds]]
      /\ ask'[q].at = "idle" /\ \A o \in Requests \ {q} : ask'[o] = ask[o]
  <2>1. End(q) /\ "idle" \in Steps
    BY DEF CreateApplication, Steps
  <2> QED BY <2>1, OneAsk DEF CreateApplication, history, ResumesInv
<1>2. rows \subseteq ResumeIds
  BY DEF ResumesInv, PrimaryInv, RowTypes
<1>3. CASE id \notin rows
  <2>1. UNCHANGED <<submitted, resume>>
    BY <1>3 DEF CreateApplication
  <2>2. PrimaryInv'
    BY <1>1, <2>1, QuietStep DEF ResumesInv, PrimaryInv, RowTypes
  <2> QED BY <1>1, <2>1, <2>2 DEF ResumesInv, SubmittedInv, Used
<1>4. CASE id \in rows
  <2>1. /\ submitted' = [submitted EXCEPT ![a].resume = id]
        /\ resume' = [resume EXCEPT ![id].apps = @ + 1]
    BY <1>4 DEF CreateApplication
  <2>2. /\ resume' \in [ResumeIds -> [primary : BOOLEAN, ab : BOOLEAN, apps : Nat,
                                     interview : 0..MaxCount, offer : 0..MaxCount]]
        /\ \A x \in ResumeIds : resume'[x].primary = resume[x].primary
        /\ \A x \in ResumeIds \ rows : resume'[x] = Fresh
    BY <1>2, <1>4, <2>1 DEF ResumesInv, PrimaryInv, RowTypes
  <2>3. PrimaryInv'
    BY <1>1, <2>2, QuietStep DEF ResumesInv, PrimaryInv, RowTypes
  <2>4. /\ submitted' \in [Submissions -> [resume : ResumeIds \cup {"none"}, had : SUBSET Outcomes,
                                          outcome : Outcomes \cup {"none"}]]
        /\ submitted'[a].resume = id /\ \A x \in Submissions \ {a} : submitted'[x] = submitted[x]
    BY <1>2, <1>4, <2>1 DEF ResumesInv, SubmittedInv
  <2>5. \A x \in Used' : submitted'[x].resume \in rows'
    BY <1>1, <1>4, <2>4 DEF ResumesInv, SubmittedInv, Used
  <2> QED BY <2>3, <2>4, <2>5 DEF ResumesInv, SubmittedInv
<1> QED BY <1>3, <1>4

LEMMA RecordOutcomeKeeps ==
  ASSUME ResumesInv, NEW a \in Submissions, NEW o \in Outcomes, RecordOutcome(a, o)
  PROVE  ResumesInv'
<1> DEFINE r == submitted[a].resume
           more(kind) == IF CountsOutcome(a, o, kind) THEN 1 ELSE 0
<1>1. /\ a \in Used /\ UNCHANGED <<account, rows, files, ask, late, removed>>
      /\ resume[r].interview + more("interview") <= MaxCount
      /\ resume[r].offer + more("offer") <= MaxCount
      /\ resume' = [resume EXCEPT ![r].interview = @ + more("interview"),
                                  ![r].offer = @ + more("offer")]
      /\ submitted' = [submitted EXCEPT ![a].outcome = o, ![a].had = @ \cup {o}]
  BY DEF RecordOutcome
<1>2. r \in rows /\ r \in ResumeIds
  BY <1>1 DEF ResumesInv, SubmittedInv, PrimaryInv, RowTypes
<1>3. more("interview") \in {0, 1} /\ more("offer") \in {0, 1}
  OBVIOUS
<1> HIDE DEF more, r
<1>4. /\ resume[r] \in [primary : BOOLEAN, ab : BOOLEAN, apps : Nat,
                        interview : 0..MaxCount, offer : 0..MaxCount]
      /\ resume[r].interview + more("interview") \in 0..MaxCount
      /\ resume[r].offer + more("offer") \in 0..MaxCount
  BY <1>1, <1>2, <1>3, ResumesAssumption DEF ResumesInv, PrimaryInv, RowTypes
<1>5. resume' = [resume EXCEPT ![r] = [resume[r] EXCEPT
                   !.interview = @ + more("interview"), !.offer = @ + more("offer")]]
  BY <1>1, <1>2, <1>4 DEF ResumesInv, PrimaryInv, RowTypes
<1>6. /\ resume'[r] \in [primary : BOOLEAN, ab : BOOLEAN, apps : Nat,
                         interview : 0..MaxCount, offer : 0..MaxCount]
      /\ resume'[r].primary = resume[r].primary
      /\ \A x \in ResumeIds \ {r} : resume'[x] = resume[x]
  BY <1>2, <1>4, <1>5 DEF ResumesInv, PrimaryInv, RowTypes
<1>7. /\ resume' \in [ResumeIds -> [primary : BOOLEAN, ab : BOOLEAN, apps : Nat,
                                   interview : 0..MaxCount, offer : 0..MaxCount]]
      /\ \A x \in ResumeIds : resume'[x].primary = resume[x].primary
      /\ \A x \in ResumeIds \ rows : resume'[x] = Fresh
  BY <1>2, <1>5, <1>6 DEF ResumesInv, PrimaryInv, RowTypes
<1>8. PrimaryInv'
  BY <1>1, <1>7, QuietStep DEF ResumesInv, PrimaryInv, RowTypes
<1>9. /\ submitted' \in [Submissions -> [resume : ResumeIds \cup {"none"}, had : SUBSET Outcomes,
                                        outcome : Outcomes \cup {"none"}]]
      /\ \A x \in Submissions : submitted'[x].resume = submitted[x].resume
      /\ \A x \in Submissions \ {a} : submitted'[x] = submitted[x]
  BY <1>1 DEF ResumesInv, SubmittedInv
<1>10. \A x \in Used' : submitted'[x].resume \in rows'
  BY <1>1, <1>9 DEF ResumesInv, SubmittedInv, Used
<1> QED BY <1>8, <1>9, <1>10 DEF ResumesInv, SubmittedInv

-----------------------------------------------------------------------------
LEMMA ResumesInvInit == ResumesInit => ResumesInv
<1> SUFFICES ASSUME ResumesInit PROVE ResumesInv
  OBVIOUS
<1>1. Fresh \in [primary : BOOLEAN, ab : BOOLEAN, apps : Nat,
                 interview : 0..MaxCount, offer : 0..MaxCount]
  BY ResumesAssumption DEF Fresh
<1>2. Idle \in [at : Steps, id : ResumeIds \cup {"none"}, rows : SUBSET ResumeIds]
      /\ Idle.at = "idle"
  BY DEF Idle, Steps
<1>3. RowTypes
  BY <1>1, <1>2 DEF ResumesInit, RowTypes
<1>4. \A q \in Requests : ask[q].at = "idle"
  BY <1>2 DEF ResumesInit
<1>5. UploadInv /\ ChangeInv
  BY <1>4 DEF UploadInv, ChangeInv, Uploading
<1>6. Primaries = {} /\ rows = {}
  BY DEF ResumesInit, Primaries
<1>7. OnePrimary /\ SomePrimary
  BY <1>4, <1>6 DEF OnePrimary, SomePrimary
<1>8. Unsubmitted \in [resume : ResumeIds \cup {"none"}, had : SUBSET Outcomes,
                       outcome : Outcomes \cup {"none"}]
  BY DEF Unsubmitted
<1>9. SubmittedInv
  BY <1>8 DEF ResumesInit, SubmittedInv, Used
<1> QED BY <1>3, <1>5, <1>7, <1>9 DEF ResumesInv, PrimaryInv

LEMMA ResumesInvNext == ResumesInv /\ [ResumesNext]_resumeVars => ResumesInv'
<1> SUFFICES ASSUME ResumesInv, [ResumesNext]_resumeVars PROVE ResumesInv'
  OBVIOUS
<1> USE DEF ResumesInv
<1>1. ASSUME UNCHANGED submitted, UNCHANGED rows \/ \E i \in ResumeIds : rows' = rows \cup {i}, PrimaryInv'
      PROVE  ResumesInv'
  BY <1>1 DEF SubmittedInv, Used
<1>2. ASSUME NEW q \in Requests, GetCurrentUser(q) \/ CreateUser(q) PROVE ResumesInv'
  BY <1>1, <1>2, FirstLoginKeeps DEF GetCurrentUser, CreateUser
<1>3. ASSUME NEW q \in Requests, NEW r \in ResumeIds, PutFile(q, r) PROVE ResumesInv'
  BY <1>1, <1>3, PutFileKeeps DEF PutFile
<1>4. ASSUME NEW q \in Requests, CountResumes(q) PROVE ResumesInv'
  BY <1>1, <1>4, CountResumesKeeps DEF CountResumes
<1>5. ASSUME NEW q \in Requests, CreateResume(q) PROVE ResumesInv'
  <2>1. ask[q].id \in ResumeIds
    BY <1>5 DEF CreateResume, PrimaryInv, RowTypes, UploadInv, Uploading
  <2> QED BY <1>1, <1>5, <2>1, CreateResumeKeeps DEF CreateResume
<1>6. ASSUME NEW q \in Requests, NEW r \in ResumeIds, SetPrimaryResume(q, r) PROVE ResumesInv'
  BY <1>1, <1>6, SetPrimaryResumeKeeps DEF SetPrimaryResume
<1>7. ASSUME NEW q \in Requests, UnsetPrimaries(q) PROVE ResumesInv'
  BY <1>1, <1>7, UnsetPrimariesKeeps DEF UnsetPrimaries
<1>8. ASSUME NEW q \in Requests, SetChosen(q) PROVE ResumesInv'
  BY <1>1, <1>8, SetChosenKeeps DEF SetChosen
<1>9. ASSUME NEW q \in Requests,
             GetABResume(q) \/ GetPrimaryResume(q) \/ CreateApplicationFails(q)
             \/ SetPrimaryFails(q) \/ RequestDies(q)
      PROVE  ResumesInv'
  BY <1>1, <1>9, SubmitKeeps
     DEF GetABResume, GetPrimaryResume, CreateApplicationFails, SetPrimaryFails, RequestDies
<1>10. ASSUME NEW r \in ResumeIds, DeleteResume(r) PROVE ResumesInv'
  <2>1. UNCHANGED submitted /\ rows' = rows \ {r} /\ \A a \in Used : submitted[a].resume # r
    BY <1>10 DEF DeleteResume
  <2>2. SubmittedInv'
    BY <2>1 DEF SubmittedInv, Used
  <2> QED BY <1>10, <2>2, DeleteResumeKeeps
<1>11. ASSUME NEW r \in ResumeIds, UpdateResumeAB(r) PROVE ResumesInv'
  BY <1>1, <1>11, UpdateResumeABKeeps DEF UpdateResumeAB
<1>12. CASE UNCHANGED resumeVars
  BY <1>12 DEF resumeVars, PrimaryInv, SubmittedInv, RowTypes, UploadInv, ChangeInv, OnePrimary,
               SomePrimary, Primaries, Used, Uploading
<1> QED
  BY <1>2, <1>3, <1>4, <1>5, <1>6, <1>7, <1>8, <1>9, <1>10, <1>11, <1>12,
     CreateApplicationKeeps, RecordOutcomeKeeps DEF ResumesNext

THEOREM ResumesInvariance == ResumesSpec => []ResumesInv
BY ResumesInvInit, ResumesInvNext, PTL DEF ResumesSpec

(* PrimaryKept, for any number of resumes and of overlapping requests: two   *)
(* primary resumes only after a late first upload or a change of the primary *)
(* one that does not see it, none only after the deletion of the primary one.*)
THEOREM OneStaysPrimary == ResumesSpec => []PrimaryKept
<1>1. ResumesInv => PrimaryKept
  <2> SUFFICES ASSUME ResumesInv PROVE PrimaryKept
    OBVIOUS
  <2>1. ASSUME ~late PROVE ~(Cardinality(Primaries) > 1)
    <3>1. CASE Primaries = {}
      BY <3>1, FS_EmptySet
    <3>2. CASE Primaries # {}
      <4>1. PICK p \in Primaries : Primaries = {p}
        BY <2>1, <3>2 DEF ResumesInv, PrimaryInv, OnePrimary
      <4> QED BY <4>1, FS_Singleton
    <3> QED BY <3>1, <3>2
  <2>2. rows # {} /\ Primaries = {} => removed
    BY DEF ResumesInv, PrimaryInv, SomePrimary
  <2> QED BY <2>1, <2>2 DEF PrimaryKept
<1> QED BY <1>1, ResumesInvariance, PTL

(* ApplicationHasFile: an application's resume is in the table and in S3,   *)
(* for any number of uploads and deletions that end anywhere.               *)
THEOREM ResumeStays == ResumesSpec => []ApplicationHasFile
<1>1. ResumesInv => ApplicationHasFile
  BY DEF ResumesInv, SubmittedInv, PrimaryInv, RowTypes, ApplicationHasFile
<1> QED BY <1>1, ResumesInvariance, PTL

-----------------------------------------------------------------------------
(* What the triggers count. An outcome that is counted while it is already  *)
(* among those the application had marks the application as returned, so    *)
(* the counters of a resume whose applications never returned are the sizes *)
(* of two sets.                                                             *)
Of(r) == {a \in Submissions : submitted[a].resume = r}
Had(r, kind) == {a \in Of(r) : kind \in submitted[a].had}

CounterInv ==
  /\ returned \subseteq Used
  /\ \A a \in Submissions :
       /\ submitted[a].outcome # "none" => submitted[a].outcome \in submitted[a].had
       /\ submitted[a].resume = "none" => submitted[a] = Unsubmitted
  /\ \A r \in rows :
       /\ resume[r].apps = Cardinality(Of(r))
       /\ Of(r) \cap returned = {} =>
            /\ resume[r].interview = Cardinality(Had(r, "interview"))
            /\ resume[r].offer = Cardinality(Had(r, "offer"))

LEMMA FiniteApplications ==
  ASSUME NEW S \in SUBSET Submissions
  PROVE  IsFiniteSet(S) /\ Cardinality(S) \in Nat /\ Cardinality(S) <= Cardinality(Submissions)
  BY ResumesAssumption, FS_Subset, FS_CardinalityType

(* A resume that is not in the table has no applications.                   *)
LEMMA OfRows ==
  ASSUME ResumesInv, CounterInv, NEW r \in ResumeIds
  PROVE  /\ Of(r) = {a \in Used : submitted[a].resume = r}
         /\ r \notin rows => Of(r) = {}
<1>1. r # "none"
  BY ResumesAssumption
<1>2. \A a \in Submissions : submitted[a].resume = r => a \in Used
  BY <1>1 DEF Used, Unsubmitted
<1> QED BY <1>2 DEF Of, Used, ResumesInv, SubmittedInv

(* No application changes, and no counter of a row that stays.              *)
LEMMA CountersSame ==
  ASSUME CounterInv, UNCHANGED <<submitted, returned>>, rows' \subseteq rows,
         \A r \in rows' : /\ resume'[r].apps = resume[r].apps
                          /\ resume'[r].interview = resume[r].interview
                          /\ resume'[r].offer = resume[r].offer
  PROVE  CounterInv'
<1>1. \A r : Of(r)' = Of(r) /\ \A kind : Had(r, kind)' = Had(r, kind)
  BY DEF Of, Had
<1> QED BY <1>1 DEF CounterInv, Used

LEMMA CountersOfResume ==
  ASSUME ResumesInv, CounterInv, NEW q \in Requests, CreateResume(q) PROVE CounterInv'
<1> DEFINE id == ask[q].id  primary == ask[q].at = "insert primary"
<1>1. UNCHANGED <<submitted, returned>>
  BY DEF CreateResume
<1>2. id \in ResumeIds \ rows /\ resume \in [ResumeIds -> [primary : BOOLEAN, ab : BOOLEAN, apps : Nat,
        interview : 0..MaxCount, offer : 0..MaxCount]] /\ rows \subseteq ResumeIds
  BY DEF CreateResume, ResumesInv, PrimaryInv, RowTypes, UploadInv, Uploading
<1>3. CASE UNCHANGED <<rows, resume>>
  BY <1>1, <1>3, CountersSame
<1>4. CASE rows' = rows \cup {id} /\ resume' = [resume EXCEPT ![id] = [Fresh EXCEPT !.primary = primary]]
  <2>1. /\ resume'[id] = [Fresh EXCEPT !.primary = primary]
        /\ \A r \in rows : resume'[r] = resume[r]
    BY <1>2, <1>4
  <2> HIDE DEF primary
  <2>2. resume'[id].apps = 0 /\ resume'[id].interview = 0 /\ resume'[id].offer = 0
    BY <2>1 DEF Fresh
  <2>3. \A r : Of(r)' = Of(r) /\ \A kind : Had(r, kind)' = Had(r, kind)
    BY <1>1 DEF Of, Had
  <2>4. Of(id) = {}
    BY <1>2, OfRows
  <2>5. Had(id, "interview") = {} /\ Had(id, "offer") = {} /\ Cardinality({}) = 0
    BY <2>4, FS_EmptySet DEF Had
  <2> HIDE DEF id
  <2>6. ASSUME NEW r \in rows'
        PROVE  /\ resume'[r].apps = Cardinality(Of(r))
               /\ Of(r) \cap returned = {} =>
                    /\ resume'[r].interview = Cardinality(Had(r, "interview"))
                    /\ resume'[r].offer = Cardinality(Had(r, "offer"))
    <3>1. CASE r = id
      BY <2>2, <2>4, <2>5, <3>1
    <3>2. CASE r \in rows
      BY <2>1, <3>2 DEF CounterInv
    <3> QED BY <1>4, <3>1, <3>2
  <2> QED BY <1>1, <2>3, <2>6 DEF CounterInv, Used
<1> QED BY <1>3, <1>4 DEF CreateResume

(* An application more, whose outcomes are none.                            *)
LEMMA CountersOfApplication ==
  ASSUME ResumesInv, CounterInv, NEW q \in Requests, NEW a \in Submissions, CreateApplication(q, a)
  PROVE  CounterInv'
<1> DEFINE id == ask[q].id
<1>1. a \notin Used /\ UNCHANGED <<rows, returned>> /\ rows \subseteq ResumeIds
  BY DEF CreateApplication, history, ResumesInv, PrimaryInv, RowTypes
<1>2. CASE UNCHANGED <<submitted, resume>>
  BY <1>1, <1>2, CountersSame
<1>3. CASE /\ id \in rows /\ submitted' = [submitted EXCEPT ![a].resume = id]
           /\ resume' = [resume EXCEPT ![id].apps = @ + 1]
  <2>1. /\ submitted[a] = Unsubmitted /\ id \in ResumeIds /\ id # "none"
        /\ submitted \in [Submissions -> [resume : ResumeIds \cup {"none"}, had : SUBSET Outcomes,
                                          outcome : Outcomes \cup {"none"}]]
        /\ resume \in [ResumeIds -> [primary : BOOLEAN, ab : BOOLEAN, apps : Nat,
                                     interview : 0..MaxCount, offer : 0..MaxCount]]
    BY <1>1, <1>3, ResumesAssumption DEF Used, ResumesInv, SubmittedInv, PrimaryInv, RowTypes
  <2> HIDE DEF id
  <2>2. /\ \A x \in Submissions : submitted'[x].had = submitted[x].had
                                  /\ submitted'[x].outcome = submitted[x].outcome
        /\ submitted'[a].resume = id /\ \A x \in Submissions \ {a} : submitted'[x] = submitted[x]
    BY <1>3, <2>1
  <2>3. /\ \A r \in rows : resume'[r].interview = resume[r].interview /\ resume'[r].offer = resume[r].offer
        /\ resume'[id].apps = resume[id].apps + 1
        /\ \A r \in rows \ {id} : resume'[r].apps = resume[r].apps
    BY <1>1, <1>3, <2>1
  <2>4. \A r \in rows : Of(r)' = IF r = id THEN Of(r) \cup {a} ELSE Of(r)
    <3> SUFFICES ASSUME NEW r \in rows PROVE Of(r)' = IF r = id THEN Of(r) \cup {a} ELSE Of(r)
      OBVIOUS
    <3>1. r # "none" /\ submitted[a].resume = "none"
      BY <1>1, <2>1, ResumesAssumption DEF Unsubmitted
    <3> QED BY <2>2, <3>1 DEF Of
  <2>5. \A r \in rows, kind \in Kinds : Had(r, kind)' = Had(r, kind)
    <3> SUFFICES ASSUME NEW r \in rows, NEW kind \in Kinds, NEW x \in Of(r)' \cup Of(r)
                 PROVE  x \in Had(r, kind)' <=> x \in Had(r, kind)
      BY DEF Had
    <3>1. Of(r) \subseteq Submissions /\ x \in Submissions
      BY <2>4 DEF Of
    <3>2. CASE x = a
      <4>1. submitted[a].had = {} /\ submitted'[a].had = {}
        BY <2>1, <2>2 DEF Unsubmitted
      <4> QED BY <3>2, <4>1 DEF Had
    <3>3. CASE x # a
      BY <2>2, <2>4, <3>1, <3>3 DEF Had
    <3> QED BY <3>2, <3>3
  <2>6. a \notin Of(id) /\ a \notin returned
    BY <1>1, <2>1, ResumesAssumption DEF Of, Unsubmitted, CounterInv
  <2>7. Cardinality(Of(id) \cup {a}) = Cardinality(Of(id)) + 1
    <3>1. IsFiniteSet(Of(id))
      BY FiniteApplications DEF Of
    <3> QED BY <2>6, <3>1, FS_AddElement
  <2>8. ASSUME NEW r \in rows
        PROVE  /\ resume'[r].apps = Cardinality(Of(r)')
               /\ Of(r)' \cap returned = {} =>
                    /\ resume'[r].interview = Cardinality(Had(r, "interview")')
                    /\ resume'[r].offer = Cardinality(Had(r, "offer")')
    <3>1. Had(r, "interview")' = Had(r, "interview") /\ Had(r, "offer")' = Had(r, "offer")
      BY <2>5 DEF Kinds
    <3>2. Of(r)' \cap returned = {} => Of(r) \cap returned = {}
      BY <2>4
    <3>3. resume'[r].apps = Cardinality(Of(r)')
      <4>1. resume[r].apps = Cardinality(Of(r))
        BY DEF CounterInv
      <4>2. CASE r = id
        BY <2>3, <2>4, <2>7, <4>1, <4>2
      <4>3. CASE r # id
        BY <2>3, <2>4, <4>1, <4>3
      <4> QED BY <4>2, <4>3
    <3> QED BY <2>3, <3>1, <3>2, <3>3 DEF CounterInv
  <2>9. returned' \subseteq Used'
    <3>1. \A x \in Used : x # a /\ submitted'[x] = submitted[x] /\ x \in Submissions
      BY <1>1, <2>2 DEF Used
    <3>2. Used \subseteq Used'
      BY <3>1 DEF Used
    <3> QED BY <1>1, <3>2 DEF CounterInv
  <2>10. \A x \in Submissions :
           /\ submitted'[x].outcome # "none" => submitted'[x].outcome \in submitted'[x].had
           /\ submitted'[x].resume = "none" => submitted'[x] = Unsubmitted
    BY <2>1, <2>2 DEF CounterInv
  <2> QED BY <1>1, <2>8, <2>9, <2>10 DEF CounterInv
<1> QED BY <1>2, <1>3 DEF CreateApplication

(* An outcome is counted when it is new to the application, or the          *)
(* application is marked.                                                   *)
LEMMA CountersOfOutcome ==
  ASSUME ResumesInv, CounterInv, NEW a \in Submissions, NEW o \in Outcomes, RecordOutcome(a, o)
  PROVE  CounterInv'
<1>0. PICK r : r = submitted[a].resume
  OBVIOUS
<1> DEFINE more(kind) == IF CountsOutcome(a, o, kind) THEN 1 ELSE 0
           again == o \in submitted[a].had /\ o # submitted[a].outcome
<1>1. /\ a \in Used /\ rows' = rows /\ r \in rows /\ rows \subseteq ResumeIds
      /\ resume' = [resume EXCEPT ![r].interview = @ + more("interview"),
                                  ![r].offer = @ + more("offer")]
      /\ submitted' = [submitted EXCEPT ![a].outcome = o, ![a].had = @ \cup {o}]
      /\ returned' = IF again THEN returned \cup {a} ELSE returned
  BY <1>0 DEF RecordOutcome, ResumesInv, SubmittedInv, PrimaryInv, RowTypes
<1>2. /\ submitted \in [Submissions -> [resume : ResumeIds \cup {"none"}, had : SUBSET Outcomes,
                                        outcome : Outcomes \cup {"none"}]]
      /\ resume \in [ResumeIds -> [primary : BOOLEAN, ab : BOOLEAN, apps : Nat,
                                   interview : 0..MaxCount, offer : 0..MaxCount]]
  BY DEF ResumesInv, SubmittedInv, PrimaryInv, RowTypes
<1>3. \A kind \in Kinds : more(kind) = IF o = kind /\ submitted[a].outcome # kind THEN 1 ELSE 0
  BY DEF CountsOutcome
<1>4. r # "none" /\ r \in ResumeIds
  BY <1>1, ResumesAssumption
<1> HIDE DEF more, again
<1>5. /\ \A x \in Submissions : submitted'[x].resume = submitted[x].resume
      /\ submitted'[a].had = submitted[a].had \cup {o} /\ submitted'[a].outcome = o
      /\ \A x \in Submissions \ {a} : submitted'[x] = submitted[x]
  BY <1>1, <1>2
<1>6. /\ \A x \in rows : resume'[x].apps = resume[x].apps
      /\ \A x \in rows \ {r} : resume'[x] = resume[x]
      /\ resume'[r].interview = resume[r].interview + more("interview")
      /\ resume'[r].offer = resume[r].offer + more("offer")
  <2> DEFINE s == [resume[r] EXCEPT !.interview = @ + more("interview"), !.offer = @ + more("offer")]
  <2>1. resume' = [resume EXCEPT ![r] = s]
    BY <1>1, <1>2, <1>4
  <2>2. /\ s.apps = resume[r].apps /\ s.interview = resume[r].interview + more("interview")
        /\ s.offer = resume[r].offer + more("offer")
    BY <1>2, <1>4
  <2> HIDE DEF s
  <2> QED BY <1>1, <1>2, <2>1, <2>2
<1>7. \A x : Of(x)' = Of(x)
  BY <1>5 DEF Of
<1>8. ASSUME NEW kind \in Kinds, ~again
      PROVE  Cardinality(Had(r, kind)') = Cardinality(Had(r, kind)) + more(kind)
  <2>1. a \in Of(r)
    BY <1>0 DEF Of
  <2>2. Had(r, kind)' = IF o = kind THEN Had(r, kind) \cup {a} ELSE Had(r, kind)
    BY <1>5, <1>7, <2>1 DEF Had, Of
  <2>3. IsFiniteSet(Had(r, kind)) /\ Cardinality(Had(r, kind)) \in Nat
    BY FiniteApplications DEF Had, Of
  <2>4. CASE o = kind /\ submitted[a].outcome # kind
    <3>1. a \notin Had(r, kind)
      BY <1>8, <2>4 DEF Had, again
    <3> QED BY <1>3, <2>2, <2>3, <2>4, <3>1, FS_AddElement
  <2>5. CASE o = kind /\ submitted[a].outcome = kind
    <3>1. submitted[a].outcome \in submitted[a].had
      BY <2>5 DEF CounterInv, Kinds
    <3>2. a \in Had(r, kind)
      BY <2>1, <2>5, <3>1 DEF Had
    <3>3. Had(r, kind)' = Had(r, kind)
      BY <2>2, <3>2
    <3> QED BY <1>3, <2>3, <2>5, <3>3
  <2>6. CASE o # kind
    BY <1>3, <2>2, <2>3, <2>6
  <2> QED BY <2>4, <2>5, <2>6
<1>9. \A x \in rows \ {r} : \A kind : Had(x, kind)' = Had(x, kind)
  BY <1>0, <1>5, <1>7 DEF Had, Of
<1>10. ASSUME NEW x \in rows
       PROVE  /\ resume'[x].apps = Cardinality(Of(x)')
              /\ Of(x)' \cap returned' = {} =>
                   /\ resume'[x].interview = Cardinality(Had(x, "interview")')
                   /\ resume'[x].offer = Cardinality(Had(x, "offer")')
  <2>1. resume'[x].apps = Cardinality(Of(x)')
    BY <1>6, <1>7 DEF CounterInv
  <2>2. Of(x)' \cap returned' = {} => Of(x) \cap returned = {}
    BY <1>1, <1>7
  <2>3. CASE x = r
    <3>1. a \in Of(r)
      BY <1>0 DEF Of
    <3>2. Of(r)' \cap returned' = {} => ~again
      BY <1>1, <1>7, <3>1
    <3>3. {"interview", "offer"} = Kinds
      BY DEF Kinds
    <3>4. ASSUME ~again
          PROVE  /\ Cardinality(Had(r, "interview")') = Cardinality(Had(r, "interview")) + more("interview")
                 /\ Cardinality(Had(r, "offer")') = Cardinality(Had(r, "offer")) + more("offer")
      BY <1>8, <3>3, <3>4
    <3>5. ASSUME Of(r)' \cap returned' = {}
          PROVE  /\ resume'[r].interview = Cardinality(Had(r, "interview")')
                 /\ resume'[r].offer = Cardinality(Had(r, "offer")')
      <4>1. resume[r].interview = Cardinality(Had(r, "interview")) /\ resume[r].offer = Cardinality(Had(r, "offer"))
        BY <1>1, <2>2, <2>3, <3>5 DEF CounterInv
      <4> QED BY <1>6, <3>2, <3>4, <3>5, <4>1
    <3> QED BY <2>1, <2>3, <3>5
  <2>4. CASE x # r
    BY <1>6, <1>9, <2>1, <2>2, <2>4 DEF CounterInv
  <2> QED BY <2>3, <2>4
<1>11. returned' \subseteq Used'
  <2>1. \A x \in Used : x \in Submissions /\ (x = a \/ submitted'[x] = submitted[x])
    BY <1>5 DEF Used
  <2>2. submitted'[a] # Unsubmitted
    BY <1>0, <1>4, <1>5 DEF Unsubmitted
  <2>3. Used \subseteq Used'
    BY <2>1, <2>2 DEF Used
  <2> QED BY <1>1, <2>3 DEF CounterInv
<1>12. \A x \in Submissions :
         /\ submitted'[x].outcome # "none" => submitted'[x].outcome \in submitted'[x].had
         /\ submitted'[x].resume = "none" => submitted'[x] = Unsubmitted
  BY <1>0, <1>4, <1>5 DEF CounterInv
<1> QED BY <1>1, <1>10, <1>11, <1>12 DEF CounterInv

LEMMA CounterInit == ResumesInit => CounterInv
  BY DEF ResumesInit, CounterInv, Unsubmitted, Used

LEMMA CounterNext == ResumesInv /\ CounterInv /\ [ResumesNext]_resumeVars => CounterInv'
<1> SUFFICES ASSUME ResumesInv, CounterInv, [ResumesNext]_resumeVars PROVE CounterInv'
  OBVIOUS
<1>1. /\ resume \in [ResumeIds -> [primary : BOOLEAN, ab : BOOLEAN, apps : Nat,
                                   interview : 0..MaxCount, offer : 0..MaxCount]]
      /\ rows \subseteq ResumeIds
  BY DEF ResumesInv, PrimaryInv, RowTypes
<1>2. ASSUME UNCHANGED <<rows, resume, submitted, returned>> PROVE CounterInv'
  BY <1>2, CountersSame
<1>3. ASSUME NEW q \in Requests,
             \/ GetCurrentUser(q) \/ CreateUser(q) \/ CountResumes(q)
             \/ UnsetPrimaries(q) \/ SetPrimaryFails(q) \/ GetABResume(q) \/ GetPrimaryResume(q)
             \/ CreateApplicationFails(q) \/ RequestDies(q)
      PROVE  CounterInv'
  BY <1>2, <1>3 DEF GetCurrentUser, CreateUser, CountResumes, UnsetPrimaries, SetPrimaryFails,
     GetABResume, GetPrimaryResume, CreateApplicationFails, RequestDies, history
<1>4. ASSUME NEW q \in Requests, NEW r \in ResumeIds, PutFile(q, r) \/ SetPrimaryResume(q, r)
      PROVE  CounterInv'
  BY <1>2, <1>4 DEF PutFile, SetPrimaryResume, history
<1>5. ASSUME NEW q \in Requests, SetChosen(q) PROVE CounterInv'
  <2>1. CASE UNCHANGED resume
    BY <1>2, <1>5, <2>1 DEF SetChosen
  <2>2. CASE resume' = [r \in ResumeIds |-> [resume[r] EXCEPT
                          !.primary = (r = ask[q].id) \/ (@ /\ r \notin ask[q].rows)]]
    <3>1. UNCHANGED <<rows, submitted, returned>>
      BY <1>5 DEF SetChosen
    <3>2. ASSUME NEW r \in rows
          PROVE  /\ resume'[r].apps = resume[r].apps /\ resume'[r].interview = resume[r].interview
                 /\ resume'[r].offer = resume[r].offer
      BY <1>1, <2>2
    <3> QED BY <3>1, <3>2, CountersSame
  <2> QED BY <1>5, <2>1, <2>2 DEF SetChosen
<1>6. ASSUME NEW r \in ResumeIds, DeleteResume(r) PROVE CounterInv'
  <2>1. /\ rows' = rows \ {r} /\ resume' = [resume EXCEPT ![r] = Fresh]
        /\ UNCHANGED <<submitted, returned>>
    BY <1>6 DEF DeleteResume
  <2>2. \A x \in rows' : resume'[x] = resume[x]
    BY <1>1, <2>1
  <2> QED BY <2>1, <2>2, CountersSame
<1>7. ASSUME NEW r \in ResumeIds, UpdateResumeAB(r) PROVE CounterInv'
  <2>1. resume' = [resume EXCEPT ![r].ab = ~@] /\ UNCHANGED <<rows, submitted, returned>>
    BY <1>7 DEF UpdateResumeAB, history
  <2>2. ASSUME NEW x \in rows
        PROVE  /\ resume'[x].apps = resume[x].apps /\ resume'[x].interview = resume[x].interview
               /\ resume'[x].offer = resume[x].offer
    BY <1>1, <2>1
  <2> QED BY <2>1, <2>2, CountersSame
<1>8. CASE UNCHANGED resumeVars
  BY <1>2, <1>8 DEF resumeVars
<1> QED BY <1>3, <1>4, <1>5, <1>6, <1>7, <1>8, CountersOfResume, CountersOfApplication,
           CountersOfOutcome DEF ResumesNext

LEMMA CounterInvariance == ResumesSpec => []CounterInv
  BY CounterInit, CounterNext, ResumesInvariance, PTL DEF ResumesSpec

(* CountersTrue: the counters the triggers keep are the numbers of          *)
(* applications, of those that led to an interview and of those that led to *)
(* an offer, for any number of resumes, requests and recorded outcomes.     *)
THEOREM CountersAreTrue == ResumesSpec => []CountersTrue
<1>1. ResumesInv /\ CounterInv => CountersTrue
  <2> SUFFICES ASSUME ResumesInv, CounterInv, NEW r \in rows
               PROVE  LET of == {a \in Used : submitted[a].resume = r}
                      IN  /\ resume[r].apps = Cardinality(of)
                          /\ of \cap returned = {} =>
                               /\ resume[r].interview
                                    = Cardinality({a \in of : "interview" \in submitted[a].had})
                               /\ resume[r].offer
                                    = Cardinality({a \in of : "offer" \in submitted[a].had})
    BY DEF CountersTrue
  <2>1. r \in ResumeIds
    BY DEF ResumesInv, PrimaryInv, RowTypes
  <2>2. Of(r) = {a \in Used : submitted[a].resume = r}
    BY <2>1, OfRows
  <2> QED BY <2>2 DEF CounterInv, Had
<1> QED BY <1>1, ResumesInvariance, CounterInvariance, PTL

(* ResumesTypeOK: no resume counts more applications than there are.        *)
THEOREM ResumeTypesHold == ResumesSpec => []ResumesTypeOK
<1>1. ResumesInv /\ CounterInv => ResumesTypeOK
  <2> SUFFICES ASSUME ResumesInv, CounterInv PROVE ResumesTypeOK
    OBVIOUS
  <2>1. ASSUME NEW r \in ResumeIds
        PROVE  resume[r] \in [primary : BOOLEAN, ab : BOOLEAN, apps : 0..Cardinality(Submissions),
                              interview : 0..MaxCount, offer : 0..MaxCount]
    <3>1. resume[r] \in [primary : BOOLEAN, ab : BOOLEAN, apps : Nat,
                         interview : 0..MaxCount, offer : 0..MaxCount]
      BY DEF ResumesInv, PrimaryInv, RowTypes
    <3>2. Cardinality(Submissions) \in Nat
      BY FiniteApplications
    <3>3. resume[r].apps <= Cardinality(Submissions)
      <4>1. CASE r \in rows
        <5>1. Of(r) \in SUBSET Submissions
          BY DEF Of
        <5> QED BY <4>1, <5>1, FiniteApplications DEF CounterInv
      <4>2. CASE r \notin rows
        <5>1. resume[r] = Fresh
          BY <4>2 DEF ResumesInv, PrimaryInv, RowTypes
        <5> QED BY <3>2, <5>1 DEF Fresh
      <4> QED BY <4>1, <4>2
    <3>4. resume[r].apps \in 0..Cardinality(Submissions)
      BY <3>1, <3>2, <3>3
    <3> QED BY <3>1, <3>4
  <2>2. resume \in [ResumeIds -> [primary : BOOLEAN, ab : BOOLEAN, apps : 0..Cardinality(Submissions),
                                  interview : 0..MaxCount, offer : 0..MaxCount]]
    BY <2>1 DEF ResumesInv, PrimaryInv, RowTypes
  <2>3. /\ account \in BOOLEAN /\ late \in BOOLEAN /\ removed \in BOOLEAN
        /\ rows \subseteq ResumeIds /\ files \subseteq ResumeIds /\ returned \subseteq Used
        /\ \A r \in ResumeIds \ rows : resume[r] = Fresh
    BY DEF ResumesInv, PrimaryInv, RowTypes, CounterInv
  <2>4. \A q \in Requests :
          /\ ask[q].at \in {"idle", "create user", "count", "insert", "insert primary",
                            "unset", "set", "primary", "create"}
          /\ ask[q].id \in ResumeIds \cup {"none"} /\ ask[q].rows \subseteq ResumeIds
    BY DEF ResumesInv, PrimaryInv, RowTypes, Steps
  <2>5. submitted \in [Submissions -> [resume : ResumeIds \cup {"none"}, had : SUBSET Outcomes,
                                       outcome : Outcomes \cup {"none"}]]
    BY DEF ResumesInv, SubmittedInv
  <2> QED BY <2>2, <2>3, <2>4, <2>5 DEF ResumesTypeOK
<1> QED BY <1>1, ResumesInvariance, CounterInvariance, PTL
=============================================================================
