------------------------------- MODULE VleMarks -------------------------------
(***************************************************************************)
(* Marks that the VLE connector submits to the SRS                         *)
(* (services/mark-submission-service.ts): a receipt per source reference   *)
(* says which mark the SRS made of it.  The SRS route stores a mark for    *)
(* every call it serves; it does not compare source references.            *)
(*                                                                         *)
(* reconcileMarks submits the receipts without a mark; no code writes one. *)
(***************************************************************************)
EXTENDS ServiceCalls, Integers

CONSTANT References   \* of a registration, a component and a submission in the VLE

VARIABLES
  marks,       \* how many marks the SRS has stored for each reference
  receipt,     \* the number of the mark that the receipt names, or 0
  unanswered   \* references a submission of which failed after its mark was stored

markVars == <<marks, receipt, unanswered>>

\* A submission whose mark is stored and whose receipt is not.
Outstanding(r) ==
  \E q \in Requests : req[q].at = "storeReceipt" /\ req[q].reference = r

\* A mutant for Submitted: the receipt is not looked for.
SubmittedNever(r) == FALSE

\* getMarkReceipt finds a receipt with a mark.
Submitted(r) == receipt[r] # 0

MarksInit ==
  /\ marks = [r \in References |-> 0]
  /\ receipt = [r \in References |-> 0]
  /\ unanswered = {}

-------------------------------------------------------------------------------
\* submitMark: a mark that has been submitted is not submitted again.
ReadReceipt(q) ==
  /\ req[q].at = "submitMark"
  /\ Reads(q, IF Submitted(req[q].reference) THEN Done ELSE [req[q] EXCEPT !.at = "ingestMark"])
  /\ UNCHANGED markVars

\* ingestMark of the SRS: the transaction that stores the mark.
IngestMark(q) ==
  /\ req[q].at = "ingestMark"
  /\ LET r == req[q].reference IN
       /\ marks' = [marks EXCEPT ![r] = @ + 1]
       /\ Writes(q, {r}, [at |-> "storeReceipt", reference |-> r, mark |-> marks[r] + 1])
  /\ UNCHANGED <<receipt, unanswered>>

\* upsertMarkReceipt replaces what it finds.
StoreReceipt(q) ==
  /\ req[q].at = "storeReceipt"
  /\ receipt' = [receipt EXCEPT ![req[q].reference] = req[q].mark]
  /\ Writes(q, {req[q].reference}, Done)
  /\ UNCHANGED <<marks, unanswered>>

\* What is left of a request that fails: the steps of ingestMark after its commit,
\* the answer, or the receipt may be what failed.
MarkFails(q) ==
  /\ unanswered' = IF req[q].at = "storeReceipt" THEN unanswered \cup {req[q].reference}
                                                 ELSE unanswered
  /\ UNCHANGED <<marks, receipt>>

SubmitStep(q) == ReadReceipt(q) \/ IngestMark(q) \/ StoreReceipt(q)

===============================================================================
