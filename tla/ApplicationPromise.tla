------------------------ MODULE ApplicationPromise ------------------------
(***************************************************************************)
(* What the apply engine promises about an application, whatever fails:    *)
(* it is accepted at most once, filed with the employer only when its      *)
(* documents are ready, filed a second time only after the queue delivered *)
(* some of its work again, and recorded as submitted only when it really   *)
(* was filed. None of these facts is ever taken back.                      *)
(***************************************************************************)
CONSTANTS
  Applications,
  Filings        \* everything that may file a form: one attempt of one job

VARIABLES
  accepted,     \* applications with a row
  prepared,     \* applications with documents to send
  forms,        \* the filings of each application
  redelivered,  \* applications some work of which was delivered twice
  recorded      \* applications with a submission date

vars == <<accepted, prepared, forms, redelivered, recorded>>

Init ==
  /\ accepted = {} /\ prepared = {} /\ redelivered = {} /\ recorded = {}
  /\ forms = [a \in Applications |-> {}]

Accept(a) ==
  /\ a \notin accepted
  /\ accepted' = accepted \cup {a}
  /\ UNCHANGED <<prepared, forms, redelivered, recorded>>

Prepare(a) ==
  /\ a \in accepted
  /\ prepared' = prepared \cup {a}
  /\ UNCHANGED <<accepted, forms, redelivered, recorded>>

Redeliver(a) ==
  /\ a \in accepted
  /\ redelivered' = redelivered \cup {a}
  /\ UNCHANGED <<accepted, prepared, forms, recorded>>

File(a, f) ==
  /\ a \in prepared
  /\ \A b \in Applications : f \notin forms[b]
  /\ forms[a] # {} => a \in redelivered
  /\ forms' = [forms EXCEPT ![a] = @ \cup {f}]
  /\ UNCHANGED <<accepted, prepared, redelivered, recorded>>

Record(a) ==
  /\ forms[a] # {}
  /\ recorded' = recorded \cup {a}
  /\ UNCHANGED <<accepted, prepared, forms, redelivered>>

Next ==
  \E a \in Applications :
    \/ Accept(a) \/ Prepare(a) \/ Redeliver(a) \/ Record(a)
    \/ \E f \in Filings : File(a, f)

Spec == Init /\ [][Next]_vars

=============================================================================
