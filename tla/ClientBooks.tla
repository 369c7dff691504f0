----------------------------- MODULE ClientBooks -----------------------------
(***************************************************************************)
(* The client's own books: sales and expenses a client enters through the  *)
(* portal wait as drafts until staff post or dismiss them (the             *)
(* /client-books routes of src/src/modules/accounting/                     *)
(* accounting.routes.ts).  Sales drafts are modelled; expense drafts run   *)
(* through the same statements and post a journal entry instead.           *)
(*                                                                         *)
(* An approval claims the draft, posts the sale in a transaction keyed by  *)
(* the draft, and then writes the sale's id on the draft: three commits,   *)
(* any of which may fail, or be the last before the process stops.  Every  *)
(* other handler decides in one conditional statement.  The content of a   *)
(* draft is its amounts; the duplicate-date check is left out, as the      *)
(* client may confirm a second entry for a date, and so is the edit of a   *)
(* sale once it is posted, which never looks at the draft.                 *)
(***************************************************************************)
EXTENDS Naturals

CONSTANTS
  Drafts,    \* draft_id of v3_client_sales_drafts
  Contents,  \* what the client or the reviewer may enter
  Requests,  \* approvals in flight
  NoContent

ASSUME NoContentAssumption == NoContent \notin Contents

VARIABLES
  draft,    \* v3_client_sales_drafts
  sale,     \* v3_sales_input made for a draft, with its idempotency key
  req,      \* approvals: the draft claimed, what is to be posted, and the step
  stranded, \* drafts whose approval was cut short, its claim not taken back
  retried   \* drafts put back to Pending although their sale was posted

vars == <<draft, sale, req, stranded, retried>>
history == <<stranded, retried>>

-----------------------------------------------------------------------------
MaybeContent == Contents \cup {NoContent}

\* overrides: staff_overrides; linked: resulting_sale_id is set.
Draft == [status: {"None", "Pending", "Approved", "Dismissed", "Deleted"},
          content: MaybeContent, overrides: MaybeContent, linked: BOOLEAN]
NoDraft == [status |-> "None", content |-> NoContent,
            overrides |-> NoContent, linked |-> FALSE]

\* made: how many sales were inserted; live: the last is still in the books.
Sale == [made: {0, 1}, content: MaybeContent, live: BOOLEAN]
NoSale == [made |-> 0, content |-> NoContent, live |-> FALSE]

Idle == [op |-> "idle"]
Request == {Idle} \cup [op: {"post", "link", "undo"}, draft: Drafts, content: Contents]

\* What the books say was reviewed: the reviewer's lines, or else the client's.
Reviewed(d) == IF draft[d].overrides = NoContent THEN draft[d].content ELSE draft[d].overrides

TypeOK ==
  /\ draft \in [Drafts -> Draft]
  /\ sale \in [Drafts -> Sale]
  /\ req \in [Requests -> Request]
  /\ stranded \subseteq Drafts /\ retried \subseteq Drafts
  /\ \A d \in Drafts : sale[d].live => sale[d].made = 1 /\ sale[d].content \in Contents
  /\ \A d \in Drafts : draft[d].linked => sale[d].made = 1

Init ==
  /\ draft = [d \in Drafts |-> NoDraft]
  /\ sale = [d \in Drafts |-> NoSale]
  /\ req = [r \in Requests |-> Idle]
  /\ stranded = {} /\ retried = {}

-----------------------------------------------------------------------------
Pending(d) == draft[d].status = "Pending"
Begin(r, step) == req[r] = Idle /\ req' = [req EXCEPT ![r] = step]
Go(r, op) == req' = [req EXCEPT ![r].op = op]
Done(r) == req' = [req EXCEPT ![r] = Idle]

(***************************************************************************)
(* The client                                                              *)
(***************************************************************************)
\* POST /client-books/sales-drafts.
Submit(d, c) ==
  /\ draft[d].status = "None"
  /\ draft' = [draft EXCEPT ![d] = [NoDraft EXCEPT !.status = "Pending", !.content = c]]
  /\ UNCHANGED <<sale, req, history>>

\* PATCH /client-books/sales-drafts/:draftId, a conditional UPDATE.
EditableAfterReview(d) == draft[d].status \in {"Pending", "Approved"} \* mutation
Editable(d) == Pending(d)

Edit(d, c) ==
  /\ Editable(d)
  /\ draft' = [draft EXCEPT ![d].content = c]
  /\ UNCHANGED <<sale, req, history>>

\* POST /client-books/sales-drafts/:draftId/delete.
Delete(d) ==
  /\ Pending(d)
  /\ draft' = [draft EXCEPT ![d].status = "Deleted"]
  /\ UNCHANGED <<sale, req, history>>

(***************************************************************************)
(* Staff                                                                   *)
(***************************************************************************)
\* POST /client-books/sales-drafts/:draftId/dismiss.
DismissableInReview(d) == draft[d].status \in {"Pending", "Approved"} \* mutation
Dismissable(d) == Pending(d)

Dismiss(d) ==
  /\ Dismissable(d)
  /\ draft' = [draft EXCEPT ![d].status = "Dismissed"]
  /\ UNCHANGED <<sale, req, history>>

\* The reviewer corrects card and EBT: a statement before the approval's claim.
ReviseTender(d, c) ==
  /\ Pending(d)
  /\ draft' = [draft EXCEPT ![d].content = c]
  /\ UNCHANGED <<sale, req, history>>

\* approveSalesDraft claims the draft, with the reviewer's lines or without
\* (approve-bulk), and works on the row the claim returned.
Claim(r, d, o) ==
  /\ Pending(d)
  /\ Begin(r, [op |-> "post", draft |-> d,
               content |-> IF o = NoContent THEN draft[d].content ELSE o])
  /\ draft' = [draft EXCEPT ![d].status = "Approved", ![d].overrides = o]
  /\ UNCHANGED <<sale, history>>

\* createSalesInputRecord: the transaction's idempotency key is the draft's, and
\* a second call gets the answer of the first.
KeyFree(d) == sale[d].made = 0

PostSale(r) ==
  /\ req[r].op = "post"
  /\ LET d == req[r].draft IN
       IF KeyFree(d)
       THEN sale' = [sale EXCEPT ![d] = [made |-> 1, content |-> req[r].content, live |-> TRUE]]
       ELSE UNCHANGED sale
  /\ Go(r, "link")
  /\ UNCHANGED <<draft, history>>

PostFails(r) ==
  /\ req[r].op = "post"
  /\ Go(r, "undo")
  /\ UNCHANGED <<draft, sale, history>>

Link(r) ==
  /\ req[r].op = "link"
  /\ draft' = [draft EXCEPT ![req[r].draft].linked = TRUE]
  /\ Done(r)
  /\ UNCHANGED <<sale, history>>

\* The audit entry, or the UPDATE of the draft, fails after the sale is posted.
LinkFails(r) ==
  /\ req[r].op = "link"
  /\ retried' = retried \cup {req[r].draft}
  /\ Go(r, "undo")
  /\ UNCHANGED <<draft, sale, stranded>>

\* The catch of approveSalesDraft.
LeftClaimed(d) == draft[d]                                           \* mutation
Unclaimed(d) == [draft[d] EXCEPT !.status = "Pending"]

Undo(r) ==
  /\ req[r].op = "undo"
  /\ draft' = [draft EXCEPT ![req[r].draft] = Unclaimed(req[r].draft)]
  /\ Done(r)
  /\ UNCHANGED <<sale, history>>

\* The catch's own UPDATE throws, as it may when what failed is the database.
UndoFails(r) ==
  /\ req[r].op = "undo"
  /\ stranded' = stranded \cup {req[r].draft}
  /\ Done(r)
  /\ UNCHANGED <<draft, sale, retried>>

\* POST /sales/:saleId/delete: the draft is not told.
DeleteSale(d) ==
  /\ sale[d].live
  /\ sale' = [sale EXCEPT ![d].live = FALSE]
  /\ UNCHANGED <<draft, req, history>>

\* The process stops; nothing takes an approval up again.
Restart ==
  /\ \E r \in Requests : req[r] # Idle
  /\ stranded' = stranded \cup {d \in Drafts : \E r \in Requests :
                                  req[r] # Idle /\ req[r].draft = d}
  /\ req' = [r \in Requests |-> Idle]
  /\ UNCHANGED <<draft, sale, retried>>

-----------------------------------------------------------------------------
Finish(r) ==
  PostSale(r) \/ PostFails(r) \/ Link(r) \/ LinkFails(r) \/ Undo(r) \/ UndoFails(r)

Next ==
  \/ \E d \in Drafts, c \in Contents : Submit(d, c) \/ Edit(d, c) \/ ReviseTender(d, c)
  \/ \E d \in Drafts : Delete(d) \/ Dismiss(d) \/ DeleteSale(d)
  \/ \E r \in Requests, d \in Drafts, o \in MaybeContent : Claim(r, d, o)
  \/ \E r \in Requests : Finish(r)
  \/ Restart

\* A handler that is running takes its next step, unless the process stops.
Fairness == \A r \in Requests : WF_vars(Finish(r))
Spec == Init /\ [][Next]_vars /\ Fairness

-----------------------------------------------------------------------------
(***************************************************************************)
(* Properties                                                              *)
(***************************************************************************)
\* For each submission at most one sale is ever posted, by an approval, and
\* none once the submission was dismissed or deleted: claims, failures, retries
\* and restarts behave as PostOnce says.
Stage(row, made) ==
  CASE made.live -> "posted"
    [] made.made = 1 /\ ~made.live -> "removed"
    [] made.made = 0 /\ row.status = "None" -> "absent"
    [] made.made = 0 /\ row.status \in {"Pending", "Approved"} -> "waiting"
    [] made.made = 0 /\ row.status \in {"Dismissed", "Deleted"} -> "withdrawn"
Review == [d \in Drafts |-> Stage(draft[d], sale[d])]
PO == INSTANCE PostOnce WITH state <- Review, posted <- [d \in Drafts |-> sale[d].made]
PostsOnce == PO!Spec

\* The conditional UPDATE of the client's edit: what was posted is what the
\* approved submission shows, unless a failure after the posting had put it
\* back to Pending.
PostedAsReviewed ==
  \A d \in Drafts \ retried :
    draft[d].status = "Approved" /\ sale[d].made = 1 => sale[d].content = Reviewed(d)

\* The catch that rolls the claim back: an approval that is claimed ends with
\* the sale on the draft or with the draft Pending again, unless the process
\* stopped under it or the catch's own statement failed.
ReviewEnds ==
  \A d \in Drafts :
    draft[d].status = "Approved" ~>
      draft[d].linked \/ draft[d].status = "Pending" \/ d \in stranded

\* approveSalesDraft, of its catch: "so a real posting failure doesn't strand
\* the draft in an 'Approved' state with nothing actually posted behind it".
\* Refuted when the catch cannot write either, and by a restart.
NothingStranded ==
  \A d \in Drafts : draft[d].status = "Approved" =>
    sale[d].made = 1 \/ \E r \in Requests : req[r] # Idle /\ req[r].draft = d
=============================================================================
