-------------------------- MODULE ClientBooksProofs --------------------------
(***************************************************************************)
(* Proofs about ClientBooks, for any number of drafts, contents and        *)
(* approvals in flight: types, that what is posted was reviewed, and that  *)
(* the review implements PostOnce.                                         *)
(***************************************************************************)
EXTENDS ClientBooks, TLAPS

\* A claimed draft is Approved, one approval works on it, and what is to be
\* posted is what the draft shows.
Claimed ==
  /\ \A r \in Requests : req[r] # Idle => draft[req[r].draft].status = "Approved"
  /\ \A r, q \in Requests :
       req[r] # Idle /\ req[q] # Idle /\ req[r].draft = req[q].draft => r = q
  /\ \A r \in Requests : req[r] # Idle /\ req[r].op = "post" =>
       req[r].content = Reviewed(req[r].draft)

\* A sale comes from a submission; until a failure after the posting there is a
\* sale only for an approved draft, and none when the approval is still to post
\* or is to be undone.  An approval that links a sale has posted one.
Sold ==
  /\ \A d \in Drafts : draft[d].status = "None" => sale[d].made = 0
  /\ \A d \in Drafts \ retried : sale[d].made = 1 =>
       draft[d].status = "Approved" /\ sale[d].content = Reviewed(d)
  /\ \A r \in Requests : req[r] # Idle /\ req[r].op \in {"post", "undo"} =>
       req[r].draft \in retried \/ sale[req[r].draft].made = 0
  /\ \A r \in Requests : req[r] # Idle /\ req[r].op = "link" =>
       sale[req[r].draft].made = 1

\* A draft that was submitted has a content.
Filled == \A d \in Drafts : draft[d].status # "None" => draft[d].content \in Contents

Inv == TypeOK /\ Filled /\ Claimed /\ Sold

LEMMA IdleRequest == \A r \in Requests : TypeOK =>
  /\ req[r] \in Request
  /\ req[r] # Idle => /\ req[r].op \in {"post", "link", "undo"}
                      /\ req[r].draft \in Drafts /\ req[r].content \in Contents
  /\ req[r] = Idle <=> req[r].op = "idle"
  BY DEF TypeOK, Request, Idle

LEMMA InitInv == Init => Inv
  BY NoContentAssumption
  DEF Init, Inv, TypeOK, Filled, Claimed, Sold, NoDraft, NoSale, Draft, Sale, MaybeContent, Request, Idle

\* A draft nobody has claimed takes another row; no sale is touched.
LEMMA UnclaimedChanges ==
  ASSUME Inv, NEW d \in Drafts, NEW new \in Draft,
         draft[d].status \in {"None", "Pending"},
         draft' = [draft EXCEPT ![d] = new],
         new.status \in {"Pending", "Dismissed", "Deleted"},
         new.content \in Contents,
         new.linked => draft[d].linked,
         UNCHANGED <<sale, req, stranded, retried>>
  PROVE  Inv'
<1>1. \A r \in Requests : req[r] # Idle => req[r].draft \in Drafts \ {d}
  BY IdleRequest DEF Inv, Claimed
<1>2. draft'[d] = new /\ \A e \in Drafts \ {d} : draft'[e] = draft[e]
  BY DEF Inv, TypeOK
<1>3. \A e \in Drafts \ {d} : Reviewed(e)' = Reviewed(e)
  BY <1>2 DEF Reviewed
<1>4. d \notin retried => sale[d].made # 1
  BY DEF Inv, Sold
<1>5. TypeOK'
  BY <1>2 DEF Inv, TypeOK
<1>6. Filled'
  BY <1>2 DEF Inv, Filled
<1>7. Claimed'
  BY <1>1, <1>2, <1>3 DEF Inv, Claimed
<1>8. Sold'
  BY <1>1, <1>2, <1>3, <1>4 DEF Inv, Sold
<1> QED
  BY <1>5, <1>6, <1>7, <1>8 DEF Inv

LEMMA SubmitStep ==
  ASSUME Inv, NEW d \in Drafts, NEW c \in Contents, Submit(d, c)
  PROVE  Inv'
<1> DEFINE new == [NoDraft EXCEPT !.status = "Pending", !.content = c]
<1>1. new \in Draft /\ new.status = "Pending" /\ new.content = c /\ ~new.linked
  BY DEF NoDraft, Draft, MaybeContent
<1>2. draft[d].status = "None" /\ draft' = [draft EXCEPT ![d] = new]
  BY DEF Submit
<1> QED
  BY <1>1, <1>2, UnclaimedChanges DEF Submit, history

\* The PATCH of the client and the correction of the reviewer.
LEMMA ContentSteps ==
  ASSUME Inv, NEW d \in Drafts, NEW c \in Contents, Edit(d, c) \/ ReviseTender(d, c)
  PROVE  Inv'
<1> DEFINE new == [draft[d] EXCEPT !.content = c]
<1>1. draft[d] \in Draft /\ draft[d].status = "Pending"
  BY DEF Edit, ReviseTender, Editable, Pending, Inv, TypeOK
<1>2. /\ new \in Draft /\ new.status = "Pending" /\ new.content = c
      /\ new.linked = draft[d].linked
  BY <1>1 DEF Draft, MaybeContent
<1>3. draft' = [draft EXCEPT ![d] = new]
  BY DEF Edit, ReviseTender, Inv, TypeOK
<1> QED
  BY <1>1, <1>2, <1>3, UnclaimedChanges DEF Edit, ReviseTender, history

LEMMA WithdrawSteps ==
  ASSUME Inv, NEW d \in Drafts, Delete(d) \/ Dismiss(d)
  PROVE  Inv'
<1> DEFINE new(status) == [draft[d] EXCEPT !.status = status]
<1>1. draft[d] \in Draft /\ draft[d].status = "Pending" /\ draft[d].content \in Contents
  BY DEF Delete, Dismiss, Dismissable, Pending, Inv, TypeOK, Filled
<1>2. \A status \in {"Dismissed", "Deleted"} :
        /\ new(status) \in Draft /\ new(status).status = status
        /\ new(status).content = draft[d].content /\ new(status).linked = draft[d].linked
  BY <1>1 DEF Draft
<1>3. \E status \in {"Dismissed", "Deleted"} : draft' = [draft EXCEPT ![d] = new(status)]
  BY DEF Delete, Dismiss, Inv, TypeOK
<1>4. UNCHANGED <<sale, req, stranded, retried>>
  BY DEF Delete, Dismiss, history
<1> HIDE DEF new
<1> QED
  BY <1>1, <1>2, <1>3, <1>4, UnclaimedChanges

LEMMA ClaimStep ==
  ASSUME Inv, NEW r \in Requests, NEW d \in Drafts, NEW o \in MaybeContent, Claim(r, d, o)
  PROVE  Inv'
<1> DEFINE step == [op |-> "post", draft |-> d,
                    content |-> IF o = NoContent THEN draft[d].content ELSE o]
           new == [draft[d] EXCEPT !.status = "Approved", !.overrides = o]
<1>1. /\ draft[d].status = "Pending" /\ req[r] = Idle
      /\ req' = [req EXCEPT ![r] = step]
      /\ draft' = [draft EXCEPT ![d] = new]
      /\ UNCHANGED <<sale, stranded, retried>>
  BY DEF Claim, Pending, Begin, history, Inv, TypeOK
<1>2. draft[d] \in Draft /\ draft[d].content \in Contents
  BY <1>1 DEF Inv, TypeOK, Filled
<1>3. /\ new \in Draft /\ new.status = "Approved" /\ new.overrides = o
      /\ new.content = draft[d].content /\ new.linked = draft[d].linked
  BY <1>2 DEF Draft, MaybeContent
<1>4. /\ step \in Request /\ step # Idle /\ step.draft = d /\ step.op = "post"
      /\ step.content = IF o = NoContent THEN draft[d].content ELSE o
  BY <1>2 DEF Request, MaybeContent, Idle
<1> HIDE DEF new, step
<1>5. /\ draft'[d] = new /\ \A e \in Drafts \ {d} : draft'[e] = draft[e]
      /\ req'[r] = step /\ \A q \in Requests \ {r} : req'[q] = req[q]
  BY <1>1 DEF Inv, TypeOK
<1>6. /\ \A e \in Drafts \ {d} : Reviewed(e)' = Reviewed(e)
      /\ step.content = Reviewed(d)'
  BY <1>3, <1>4, <1>5 DEF Reviewed
<1>7. \A q \in Requests : req[q] # Idle => req[q].draft \in Drafts \ {d}
  BY <1>1, IdleRequest DEF Inv, Claimed
<1>8. d \notin retried => sale[d].made = 0
  <2>1. sale[d].made \in {0, 1}
    BY DEF Inv, TypeOK, Sale
  <2> QED
    BY <1>1, <2>1 DEF Inv, Sold
<1>9. TypeOK'
  BY <1>1, <1>3, <1>4, <1>5 DEF Inv, TypeOK
<1>10. Filled'
  BY <1>2, <1>3, <1>5 DEF Inv, Filled
<1>11. Claimed'
  BY <1>1, <1>3, <1>4, <1>5, <1>6, <1>7 DEF Inv, Claimed
<1>12. Sold'
  BY <1>1, <1>3, <1>4, <1>5, <1>6, <1>7, <1>8 DEF Inv, Sold
<1> QED
  BY <1>9, <1>10, <1>11, <1>12 DEF Inv

\* What holds of a running approval.
LEMMA Running ==
  ASSUME Inv, NEW r \in Requests, req[r].op \in {"post", "link", "undo"}
  PROVE  /\ req[r] # Idle /\ req[r] \in Request
         /\ req[r].draft \in Drafts /\ req[r].content \in Contents
         /\ draft[req[r].draft].status = "Approved"
         /\ draft[req[r].draft] \in Draft /\ sale[req[r].draft] \in Sale
         /\ \A q \in Requests \ {r} : req[q] # Idle => req[q].draft # req[r].draft
<1>1. req[r] # Idle
  BY DEF Idle
<1> QED
  BY <1>1, IdleRequest DEF Inv, Claimed, TypeOK

LEMMA PostSaleStep ==
  ASSUME Inv, NEW r \in Requests, PostSale(r)
  PROVE  Inv'
<1> DEFINE d == req[r].draft
           step == [req[r] EXCEPT !.op = "link"]
           made == [made |-> 1, content |-> req[r].content, live |-> TRUE]
<1>1. /\ req[r].op = "post" /\ req' = [req EXCEPT ![r] = step]
      /\ UNCHANGED <<draft, stranded, retried>>
      /\ \/ sale[d].made = 0 /\ sale' = [sale EXCEPT ![d] = made]
         \/ sale[d].made # 0 /\ sale' = sale
  BY DEF PostSale, Go, KeyFree, history, Inv, TypeOK
<1>2. /\ d \in Drafts /\ req[r].content \in Contents /\ req[r] \in Request /\ req[r] # Idle
      /\ draft[d].status = "Approved"
      /\ \A q \in Requests \ {r} : req[q] # Idle => req[q].draft # d
  BY <1>1, Running
<1>3. step \in Request /\ step.op = "link" /\ step.draft = d /\ step # Idle
  BY <1>1, <1>2 DEF Request, Idle
<1>4. made \in Sale /\ made.made = 1 /\ made.content = req[r].content
  BY <1>2 DEF Sale, MaybeContent
<1>5. req[r].content = Reviewed(d)
  BY <1>1, <1>2 DEF Inv, Claimed
<1>6. \A e \in Drafts : Reviewed(e)' = Reviewed(e)
  BY <1>1 DEF Reviewed
<1> HIDE DEF d, step, made
<1>7. req'[r] = step /\ \A q \in Requests \ {r} : req'[q] = req[q]
  BY <1>1 DEF Inv, TypeOK
<1>8. /\ \A e \in Drafts \ {d} : sale'[e] = sale[e]
      /\ (sale'[d] = made \/ (sale'[d] = sale[d] /\ sale[d].made = 1))
  <2>1. sale[d].made \in {0, 1}
    BY <1>2 DEF Inv, TypeOK, Sale
  <2> QED
    BY <1>1, <1>2, <2>1 DEF Inv, TypeOK
<1>9. TypeOK'
  BY <1>1, <1>2, <1>3, <1>4, <1>7, <1>8 DEF Inv, TypeOK, made
<1>10. Claimed'
  BY <1>1, <1>2, <1>3, <1>6, <1>7, IdleRequest DEF Inv, Claimed
<1>12. Filled'
  BY <1>1 DEF Inv, Filled
<1>11. Sold'
  <2>1. sale'[d].made = 1 /\ (d \notin retried => sale'[d].content = Reviewed(d))
    BY <1>2, <1>4, <1>5, <1>8 DEF Inv, Sold
  <2>2. \A q \in Requests \ {r} : req'[q] = req[q] /\ (req[q] # Idle => req[q].draft \in Drafts \ {d})
    BY <1>2, <1>7, IdleRequest DEF Inv
  <2> QED
    BY <1>1, <1>2, <1>3, <1>6, <1>7, <1>8, <2>1, <2>2 DEF Inv, Sold
<1> QED
  BY <1>9, <1>10, <1>11, <1>12 DEF Inv

\* A failure: the approval turns to its catch, after the posting as noted.
LEMMA FailSteps ==
  ASSUME Inv, NEW r \in Requests, PostFails(r) \/ LinkFails(r)
  PROVE  Inv'
<1> DEFINE d == req[r].draft
           step == [req[r] EXCEPT !.op = "undo"]
<1>1. /\ req[r].op \in {"post", "link"} /\ req' = [req EXCEPT ![r] = step]
      /\ UNCHANGED <<draft, sale, stranded>>
      /\ \/ req[r].op = "post" /\ retried' = retried
         \/ retried' = retried \cup {d}
  BY DEF PostFails, LinkFails, Go, history
<1>2. /\ d \in Drafts /\ req[r] \in Request /\ req[r] # Idle
      /\ draft[d].status = "Approved"
      /\ \A q \in Requests \ {r} : req[q] # Idle => req[q].draft # d
  BY <1>1, Running
<1>3. step \in Request /\ step.op = "undo" /\ step.draft = d /\ step # Idle
  BY <1>1, <1>2 DEF Request, Idle
<1>4. \A e \in Drafts : Reviewed(e)' = Reviewed(e)
  BY <1>1 DEF Reviewed
<1>5. d \in retried' \/ sale[d].made = 0
  BY <1>1, <1>2 DEF Inv, Sold
<1> HIDE DEF d, step
<1>6. req'[r] = step /\ \A q \in Requests \ {r} : req'[q] = req[q]
  BY <1>1 DEF Inv, TypeOK
<1>7. TypeOK'
  BY <1>1, <1>2, <1>3, <1>6 DEF Inv, TypeOK
<1>8. Claimed'
  BY <1>1, <1>2, <1>3, <1>4, <1>6, IdleRequest DEF Inv, Claimed
<1>10. Filled'
  BY <1>1 DEF Inv, Filled
<1>9. Sold'
  BY <1>1, <1>2, <1>3, <1>4, <1>5, <1>6 DEF Inv, Sold
<1> QED
  BY <1>7, <1>8, <1>9, <1>10 DEF Inv

\* An approval ends: its draft keeps its lines, and is Pending again only when
\* there is no sale, or a failure after the posting was noted.
LEMMA EndSteps ==
  ASSUME Inv, NEW r \in Requests, Link(r) \/ Undo(r)
  PROVE  Inv'
<1> DEFINE d == req[r].draft
           new == draft'[d]
<1>1. /\ req[r].op \in {"link", "undo"} /\ req' = [req EXCEPT ![r] = Idle]
      /\ UNCHANGED <<sale, stranded, retried>>
  BY DEF Link, Undo, Done, history
<1>2. /\ d \in Drafts /\ req[r] \in Request /\ req[r] # Idle
      /\ draft[d].status = "Approved" /\ draft[d] \in Draft /\ sale[d] \in Sale
      /\ \A q \in Requests \ {r} : req[q] # Idle => req[q].draft # d
  BY <1>1, Running
<1>3. /\ draft' = [draft EXCEPT ![d] = new]
      /\ new \in Draft /\ new.content = draft[d].content
      /\ new.overrides = draft[d].overrides
      /\ \/ req[r].op = "link" /\ new.status = "Approved"
         \/ req[r].op = "undo" /\ new.status = "Pending" /\ new.linked = draft[d].linked
  <2>1. CASE Link(r)
    <3>1. new = [draft[d] EXCEPT !.linked = TRUE] /\ draft' = [draft EXCEPT ![d] = new]
      BY <1>2, <2>1 DEF Link, Inv, TypeOK
    <3>2. req[r].op = "link"
      BY <2>1 DEF Link
    <3> HIDE DEF new, d
    <3> QED
      BY <1>2, <3>1, <3>2 DEF Draft
  <2>2. CASE Undo(r)
    <3>1. new = [draft[d] EXCEPT !.status = "Pending"] /\ draft' = [draft EXCEPT ![d] = new]
      BY <1>2, <2>2 DEF Undo, Unclaimed, Inv, TypeOK
    <3> QED
      BY <1>2, <2>2, <3>1 DEF Undo, Draft
  <2> QED
    BY <2>1, <2>2
<1>4. new.linked => sale[d].made = 1
  BY <1>2, <1>3 DEF Inv, TypeOK, Sold
<1>5. new.status = "Pending" => d \in retried \/ sale[d].made = 0
  BY <1>2, <1>3 DEF Inv, Sold
<1>6. draft[d].content \in Contents
  BY <1>2 DEF Inv, Filled
<1> HIDE DEF d, new
<1>7. /\ draft'[d] = new /\ \A e \in Drafts \ {d} : draft'[e] = draft[e]
      /\ req'[r] = Idle /\ \A q \in Requests \ {r} : req'[q] = req[q]
  BY <1>1, <1>2, <1>3 DEF Inv, TypeOK
<1>8. \A e \in Drafts : Reviewed(e)' = Reviewed(e)
  BY <1>3, <1>7 DEF Reviewed
<1>9. \A q \in Requests : req'[q] # Idle => req[q] # Idle /\ req[q].draft \in Drafts \ {d}
  BY <1>2, <1>7, IdleRequest DEF Inv
<1>10. TypeOK'
  BY <1>1, <1>2, <1>3, <1>4, <1>7 DEF Inv, TypeOK, Request
<1>11. Claimed' /\ Filled'
  BY <1>1, <1>2, <1>3, <1>6, <1>7, <1>8, <1>9 DEF Inv, Claimed, Filled
<1>12. Sold'
  BY <1>1, <1>2, <1>3, <1>5, <1>7, <1>8, <1>9 DEF Inv, Sold
<1> QED
  BY <1>10, <1>11, <1>12 DEF Inv

LEMMA DeleteSaleStep ==
  ASSUME Inv, NEW d \in Drafts, DeleteSale(d)
  PROVE  Inv'
<1> DEFINE new == [sale[d] EXCEPT !.live = FALSE]
<1>1. /\ sale[d] \in Sale /\ sale' = [sale EXCEPT ![d] = new]
      /\ UNCHANGED <<draft, req, stranded, retried>>
  BY DEF DeleteSale, history, Inv, TypeOK
<1>2. new \in Sale /\ new.made = sale[d].made /\ new.content = sale[d].content /\ ~new.live
  BY <1>1 DEF Sale
<1> HIDE DEF new
<1>3. sale'[d] = new /\ \A e \in Drafts \ {d} : sale'[e] = sale[e]
  BY <1>1 DEF Inv, TypeOK
<1>4. \A e \in Drafts : Reviewed(e)' = Reviewed(e)
  BY <1>1 DEF Reviewed
<1>5. TypeOK'
  BY <1>1, <1>2, <1>3 DEF Inv, TypeOK
<1>6. Claimed'
  BY <1>1, <1>4, IdleRequest DEF Inv, Claimed
<1>8. Filled'
  BY <1>1 DEF Inv, Filled
<1>7. Sold'
  BY <1>1, <1>2, <1>3, <1>4, IdleRequest DEF Inv, Sold
<1> QED
  BY <1>5, <1>6, <1>7, <1>8 DEF Inv

\* An approval ends without a trace on its draft: its catch fails.
LEMMA UndoFailsStep ==
  ASSUME Inv, NEW r \in Requests, UndoFails(r)
  PROVE  Inv'
<1>1. /\ UNCHANGED <<draft, sale, retried>>
      /\ req' = [req EXCEPT ![r] = Idle]
      /\ req[r].draft \in Drafts /\ stranded' = stranded \cup {req[r].draft}
  BY Running DEF UndoFails, Done
<1>2. \A e \in Drafts : Reviewed(e)' = Reviewed(e)
  BY <1>1 DEF Reviewed
<1>3. \A q \in Requests : req'[q] = Idle \/ req'[q] = req[q]
  BY <1>1 DEF Inv, TypeOK
<1>4. TypeOK'
  BY <1>1 DEF Inv, TypeOK, Request
<1>5. Claimed' /\ Filled' /\ Sold'
  BY <1>1, <1>2, <1>3, IdleRequest DEF Inv, Claimed, Filled, Sold
<1> QED
  BY <1>4, <1>5 DEF Inv

LEMMA RestartStep ==
  ASSUME Inv, Restart
  PROVE  Inv'
<1>1. /\ UNCHANGED <<draft, sale, retried>>
      /\ req' = [q \in Requests |-> Idle]
      /\ stranded' \subseteq Drafts
  BY DEF Restart, Inv, TypeOK
<1>2. \A e \in Drafts : Reviewed(e)' = Reviewed(e)
  BY <1>1 DEF Reviewed
<1> QED
  BY <1>1, <1>2 DEF Inv, TypeOK, Filled, Claimed, Sold, Request

LEMMA NextInv == Inv /\ [Next]_vars => Inv'
<1> SUFFICES ASSUME Inv, [Next]_vars PROVE Inv'
  OBVIOUS
<1>1. ASSUME NEW d \in Drafts, NEW c \in Contents,
             Submit(d, c) \/ Edit(d, c) \/ ReviseTender(d, c)
      PROVE Inv'
  BY <1>1, SubmitStep, ContentSteps
<1>2. ASSUME NEW d \in Drafts, Delete(d) \/ Dismiss(d) \/ DeleteSale(d) PROVE Inv'
  BY <1>2, WithdrawSteps, DeleteSaleStep
<1>3. ASSUME NEW r \in Requests, NEW d \in Drafts, NEW o \in MaybeContent, Claim(r, d, o)
      PROVE Inv'
  BY <1>3, ClaimStep
<1>4. ASSUME NEW r \in Requests, Finish(r) PROVE Inv'
  BY <1>4, PostSaleStep, FailSteps, EndSteps, UndoFailsStep DEF Finish
<1>5. CASE Restart
  BY <1>5, RestartStep
<1>6. CASE UNCHANGED vars
  BY <1>6 DEF vars, history, Inv, TypeOK, Filled, Claimed, Sold, Reviewed
<1> QED
  BY <1>1, <1>2, <1>3, <1>4, <1>5, <1>6 DEF Next

\* Every reachable state of the review is well typed.
THEOREM TypeCorrect == Spec => []TypeOK
<1>1. Inv => TypeOK
  BY DEF Inv
<1> QED
  BY <1>1, InitInv, NextInv, PTL DEF Spec

\* PostedAsReviewed holds for any number of submissions and approvals: what is
\* in the books is what the approved submission shows.
THEOREM ReviewedIsPosted == Spec => []PostedAsReviewed
<1>1. Inv => PostedAsReviewed
  BY DEF Inv, Sold, PostedAsReviewed
<1> QED
  BY <1>1, InitInv, NextInv, PTL DEF Spec

-----------------------------------------------------------------------------
\* The stages in which a row and its sale can be.
LEMMA StageOf ==
  ASSUME NEW row \in Draft, NEW s \in Sale, s.live => s.made = 1
  PROVE  /\ s.live => Stage(row, s) = "posted"
         /\ s.made = 1 /\ ~s.live => Stage(row, s) = "removed"
         /\ s.made = 0 /\ row.status = "None" => Stage(row, s) = "absent"
         /\ s.made = 0 /\ row.status \in {"Pending", "Approved"} => Stage(row, s) = "waiting"
         /\ s.made = 0 /\ row.status \in {"Dismissed", "Deleted"} => Stage(row, s) = "withdrawn"
  BY DEF Stage, Draft, Sale

LEMMA InitMaps == Init => PO!Init
<1> SUFFICES ASSUME Init PROVE PO!Init
  OBVIOUS
<1>1. NoDraft \in Draft /\ NoDraft.status = "None"
  BY DEF NoDraft, Draft, MaybeContent
<1>2. NoSale \in Sale /\ NoSale.made = 0 /\ ~NoSale.live
  BY DEF NoSale, Sale, MaybeContent
<1>3. Stage(NoDraft, NoSale) = "absent"
  BY <1>1, <1>2, StageOf
<1> QED
  BY <1>2, <1>3 DEF Init, PO!Init, Review

\* A step that keeps the rows' stages, and the sales, stutters.
LEMMA Stutters ==
  ASSUME \A d \in Drafts : Stage(draft[d], sale[d])' = Stage(draft[d], sale[d]),
         \A d \in Drafts : sale'[d].made = sale[d].made
  PROVE  UNCHANGED PO!vars
<1>1. Review' = Review
  BY DEF Review
<1>2. [d \in Drafts |-> sale'[d].made] = [d \in Drafts |-> sale[d].made]
  OBVIOUS
<1> QED
  BY <1>1, <1>2 DEF PO!vars

\* No sale is touched, and a draft that is waiting stays so.
LEMMA StillWaiting ==
  ASSUME Inv, Inv', sale' = sale,
         \A d \in Drafts : \/ draft'[d].status = draft[d].status
                          \/ {draft'[d].status, draft[d].status} \subseteq {"Pending", "Approved"}
  PROVE  UNCHANGED PO!vars
<1>1. ASSUME NEW d \in Drafts
      PROVE  Stage(draft[d], sale[d])' = Stage(draft[d], sale[d])
  <2>1. /\ draft[d] \in Draft /\ draft'[d] \in Draft /\ sale[d] \in Sale
        /\ sale[d].live => sale[d].made = 1
    BY DEF Inv, TypeOK
  <2>2. /\ sale[d].made \in {0, 1} /\ sale[d].live \in BOOLEAN
        /\ draft[d].status \in {"None", "Pending", "Approved", "Dismissed", "Deleted"}
    BY <2>1 DEF Draft, Sale
  <2>3. /\ Stage(draft[d], sale[d]) = Stage(draft'[d], sale[d])
    BY <2>1, <2>2, StageOf
  <2> QED
    BY <2>3
<1> QED
  BY <1>1, Stutters

\* One draft changes: its stage and its sale are what the new rows say.
LEMMA OneDraft ==
  ASSUME NEW d \in Drafts,
         \A e \in Drafts \ {d} : draft'[e] = draft[e] /\ sale'[e] = sale[e]
  PROVE  /\ Review' = [Review EXCEPT ![d] = Stage(draft[d], sale[d])']
         /\ [e \in Drafts |-> sale'[e].made] =
              [[e \in Drafts |-> sale[e].made] EXCEPT ![d] = sale'[d].made]
         /\ Review[d] = Stage(draft[d], sale[d])
<1>1. \A e \in Drafts \ {d} : Stage(draft[e], sale[e])' = Stage(draft[e], sale[e])
  OBVIOUS
<1> QED
  BY <1>1 DEF Review

\* The rows of one draft, typed, before and after.
LEMMA TypedRows ==
  ASSUME Inv, Inv', NEW d \in Drafts
  PROVE  /\ draft[d] \in Draft /\ draft'[d] \in Draft
         /\ sale[d] \in Sale /\ sale'[d] \in Sale
         /\ sale[d].live \in BOOLEAN /\ sale'[d].live \in BOOLEAN
         /\ sale[d].made \in {0, 1}
         /\ sale[d].live => sale[d].made = 1
         /\ sale'[d].live => sale'[d].made = 1
         /\ draft[d].status = "None" => sale[d].made = 0
  BY DEF Inv, TypeOK, Sold, Draft, Sale

LEMMA SubmitMaps ==
  ASSUME Inv, Inv', NEW d \in Drafts, NEW c \in Contents, Submit(d, c)
  PROVE  PO!Submit(d)
<1>1. /\ draft[d].status = "None" /\ draft'[d].status = "Pending" /\ sale' = sale
      /\ \A e \in Drafts \ {d} : draft'[e] = draft[e]
  BY DEF Submit, Inv, TypeOK, NoDraft
<1>2. sale[d].made = 0 /\ ~sale[d].live
  BY <1>1, TypedRows
<1>3. Stage(draft[d], sale[d]) = "absent" /\ Stage(draft[d], sale[d])' = "waiting"
  BY <1>1, <1>2, TypedRows, StageOf
<1> QED
  BY <1>1, <1>2, <1>3, OneDraft DEF PO!Submit

LEMMA WithdrawMaps ==
  ASSUME Inv, Inv', NEW d \in Drafts, Delete(d) \/ Dismiss(d)
  PROVE  PO!Withdraw(d) \/ UNCHANGED PO!vars
<1>1. /\ draft[d].status = "Pending" /\ draft'[d].status \in {"Deleted", "Dismissed"}
      /\ sale' = sale /\ \A e \in Drafts \ {d} : draft'[e] = draft[e]
  BY DEF Delete, Dismiss, Dismissable, Pending, Inv, TypeOK, Draft
<1>2. CASE sale[d].made = 1
  <2>1. Stage(draft[d], sale[d])' = Stage(draft[d], sale[d])
    BY <1>1, <1>2, TypedRows, StageOf
  <2>2. \A e \in Drafts : Stage(draft[e], sale[e])' = Stage(draft[e], sale[e])
    BY <1>1, <2>1
  <2> QED
    BY <1>1, <2>2, Stutters
<1>3. CASE sale[d].made = 0
  <2>1. Stage(draft[d], sale[d]) = "waiting" /\ Stage(draft[d], sale[d])' = "withdrawn"
    BY <1>1, <1>3, TypedRows, StageOf
  <2> QED
    BY <1>1, <1>3, <2>1, OneDraft DEF PO!Withdraw
<1> QED
  BY <1>2, <1>3, TypedRows

LEMMA PostMaps ==
  ASSUME Inv, Inv', NEW r \in Requests, PostSale(r)
  PROVE  (\E d \in Drafts : PO!Post(d)) \/ UNCHANGED PO!vars
<1>1. req[r].op = "post" /\ req[r] # Idle /\ draft' = draft
  BY DEF PostSale, Idle
<1>2. PICK d \in Drafts : d = req[r].draft /\ draft[d].status = "Approved"
  BY <1>1, Running
<1>3. \/ sale' = sale
      \/ /\ sale[d].made = 0
         /\ sale' = [sale EXCEPT ![d] = [made |-> 1, content |-> req[r].content, live |-> TRUE]]
  BY <1>2 DEF PostSale, KeyFree
<1>4. CASE sale' = sale
  BY <1>1, <1>4, StillWaiting
<1>5. CASE sale' # sale
  <2>1. /\ sale[d].made = 0 /\ sale'[d].made = 1 /\ sale'[d].live
        /\ \A e \in Drafts \ {d} : sale'[e] = sale[e]
    BY <1>2, <1>3, <1>5 DEF Inv, TypeOK
  <2>2. Stage(draft[d], sale[d]) = "waiting" /\ Stage(draft[d], sale[d])' = "posted"
    BY <1>1, <1>2, <2>1, TypedRows, StageOf
  <2>3. \A e \in Drafts \ {d} : draft'[e] = draft[e] /\ sale'[e] = sale[e]
    BY <1>1, <2>1
  <2>4. PO!Post(d)
    BY <2>1, <2>2, <2>3, OneDraft DEF PO!Post
  <2> QED
    BY <2>4
<1> QED
  BY <1>4, <1>5

LEMMA RemoveMaps ==
  ASSUME Inv, Inv', NEW d \in Drafts, DeleteSale(d)
  PROVE  PO!Remove(d)
<1>1. /\ sale[d].live /\ ~sale'[d].live /\ sale'[d].made = sale[d].made /\ draft' = draft
      /\ \A e \in Drafts \ {d} : sale'[e] = sale[e]
  BY TypedRows DEF DeleteSale, Inv, TypeOK, Sale
<1>2. sale[d].made = 1
  BY <1>1, TypedRows
<1>3. Stage(draft[d], sale[d]) = "posted" /\ Stage(draft[d], sale[d])' = "removed"
  BY <1>1, <1>2, TypedRows, StageOf
<1> QED
  BY <1>1, <1>2, <1>3, OneDraft DEF PO!Remove

\* Every step of the review is a step of PostOnce, or changes nothing of it.
LEMMA NextMaps == Inv /\ Inv' /\ [Next]_vars => [PO!Next]_(PO!vars)
<1> SUFFICES ASSUME Inv, Inv', [Next]_vars PROVE PO!Next \/ UNCHANGED PO!vars
  OBVIOUS
<1>1. ASSUME NEW d \in Drafts, NEW c \in Contents, Submit(d, c) PROVE PO!Next
  BY <1>1, SubmitMaps DEF PO!Next
<1>2. ASSUME NEW d \in Drafts, NEW c \in Contents, Edit(d, c) \/ ReviseTender(d, c)
      PROVE UNCHANGED PO!vars
  <2>1. sale' = sale /\ \A e \in Drafts : draft'[e].status = draft[e].status
    BY <1>2 DEF Edit, Editable, ReviseTender, Pending, Inv, TypeOK, Draft
  <2> QED
    BY <2>1, StillWaiting
<1>3. ASSUME NEW d \in Drafts, Delete(d) \/ Dismiss(d) PROVE PO!Next \/ UNCHANGED PO!vars
  BY <1>3, WithdrawMaps DEF PO!Next
<1>4. ASSUME NEW d \in Drafts, DeleteSale(d) PROVE PO!Next
  BY <1>4, RemoveMaps DEF PO!Next
<1>5. ASSUME NEW r \in Requests, NEW d \in Drafts, NEW o \in MaybeContent, Claim(r, d, o)
      PROVE UNCHANGED PO!vars
  <2>1. /\ sale' = sale /\ draft[d].status = "Pending" /\ draft'[d].status = "Approved"
        /\ \A e \in Drafts \ {d} : draft'[e] = draft[e]
    BY <1>5 DEF Claim, Pending, Inv, TypeOK, Draft
  <2> QED
    BY <2>1, StillWaiting
<1>6. ASSUME NEW r \in Requests, Finish(r) PROVE PO!Next \/ UNCHANGED PO!vars
  <2>1. CASE PostSale(r)
    BY <2>1, PostMaps DEF PO!Next
  <2>2. CASE PostFails(r) \/ LinkFails(r)
    <3>1. sale' = sale /\ draft' = draft
      BY <2>2 DEF PostFails, LinkFails, history
    <3> QED
      BY <3>1, StillWaiting
  <2>3. CASE Link(r) \/ Undo(r)
    <3> DEFINE d == req[r].draft
    <3>1. req[r].op \in {"link", "undo"} /\ req[r] # Idle /\ sale' = sale
      BY <2>3 DEF Link, Undo, Idle
    <3>2. d \in Drafts /\ draft[d].status = "Approved" /\ draft[d] \in Draft
      BY <3>1, Running
    <3>3. /\ draft'[d].status \in {"Pending", "Approved"}
          /\ \A e \in Drafts \ {d} : draft'[e] = draft[e]
      BY <2>3, <3>2 DEF Link, Undo, Unclaimed, Inv, TypeOK, Draft
    <3> QED
      BY <3>1, <3>2, <3>3, StillWaiting
  <2>4. CASE UndoFails(r)
    <3>1. sale' = sale /\ draft' = draft
      BY <2>4 DEF UndoFails
    <3> QED
      BY <3>1, StillWaiting
  <2> QED
    BY <1>6, <2>1, <2>2, <2>3, <2>4 DEF Finish
<1>7. CASE Restart
  <2>1. sale' = sale /\ draft' = draft
    BY <1>7 DEF Restart
  <2> QED
    BY <2>1, StillWaiting
<1>8. CASE UNCHANGED vars
  <2>1. sale' = sale /\ draft' = draft
    BY <1>8 DEF vars
  <2> QED
    BY <2>1, StillWaiting
<1> QED
  BY <1>1, <1>2, <1>3, <1>4, <1>5, <1>6, <1>7, <1>8 DEF Next

\* The review keeps the promise of PostOnce, for any number of submissions and
\* approvals: claims, failures, retries and restarts post an entry at most once,
\* and never one that was withdrawn.
THEOREM PostsAtMostOnce == Spec => PostsOnce
<1>1. Inv /\ [Next]_vars => Inv'
  BY NextInv
<1> QED
  BY <1>1, InitInv, InitMaps, NextMaps, PTL DEF Spec, PostsOnce, PO!Spec
=============================================================================
