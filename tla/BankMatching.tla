---------------------------- MODULE BankMatching ----------------------------
(***************************************************************************)
(* Bank reconciliation (src/src/modules/bankRec/bankRec.routes.ts): lines  *)
(* of a client's bank statement, the draft the Bank Rec Agent makes of     *)
(* each, and the ledger entries they are matched with.  An entry exists    *)
(* because of a sale, a bank line or a deposit's fee; a card or EBT sale   *)
(* also keeps a clearing row, which one deposit of the processor covers.   *)
(*                                                                         *)
(* A handler reads first, outside its transaction, and commits later.  A   *)
(* transaction is one action: two of them that touch the same line, entry  *)
(* or draft wait for the row lock.  Amounts are left out: a line may agree *)
(* with any entry, and any deposit may leave a fee.                        *)
(***************************************************************************)
EXTENDS Naturals, FiniteSets

CONSTANTS
  Lines,    \* line_id of v3_bank_statement_lines
  Sales,    \* sale_id of sales paid by card or EBT
  Entries,  \* BOUND: gl_entry_id of the bank account's side of a posting
  Requests, \* handlers in flight
  NoLine, NoEntry

ASSUME NoLineAssumption == NoLine \notin Lines
ASSUME NoEntryAssumption == NoEntry \notin Entries

VARIABLES
  line,   \* v3_bank_statement_lines: matched_gl_entry_id
  draft,  \* v3_je_drafts, at most one for a line
  gl,     \* v3_gl_entries, and the clearing row of a sale's entry
  sale,   \* v3_sales_input, with the entry its edits and deletion replace
  req,    \* what a handler in flight read
  loose   \* entries made for a line and let go by an unmatch or a dismissal

vars == <<line, draft, gl, sale, req, loose>>

-----------------------------------------------------------------------------
MaybeEntry == Entries \cup {NoEntry}

Line == [status: {"None", "Live", "Gone"}, match: MaybeEntry]
Draft == [status: {"None", "Pending", "Approved", "Dismissed"}, entry: MaybeEntry]
NoDraft == [status |-> "None", entry |-> NoEntry]

\* "sale": line is the deposit's line that cleared it, ref that deposit's fee.
\* "bank", "fee": line is the line it was made for.
Entry == [kind: {"None", "Gone", "sale", "bank", "fee"},
          line: Lines \cup {NoLine}, ref: MaybeEntry]
NoRow == [kind |-> "None", line |-> NoLine, ref |-> NoEntry]

Sale == [status: {"None", "Live", "Deleted"}, entry: MaybeEntry]

Idle == [op |-> "idle"]
Request == {Idle}
  \cup [op: {"upload", "create", "unmatch", "approve", "dismiss",
           "delete"}, line: Lines]
  \cup [op: {"match"}, line: Lines, entry: Entries]
  \cup [op: {"deposit"}, line: Lines, items: SUBSET Entries, fee: BOOLEAN]
  \cup [op: {"reverse"}, line: Lines, refs: SUBSET Entries]
  \cup [op: {"editSale", "deleteSale"}, sale: Sales]

TypeOK ==
  /\ line \in [Lines -> Line]
  /\ draft \in [Lines -> Draft]
  /\ gl \in [Entries -> Entry]
  /\ sale \in [Sales -> Sale]
  /\ req \in [Requests -> Request]
  /\ loose \subseteq Entries
  /\ \A e \in Entries : gl[e].ref # NoEntry => gl[e].kind = "sale" /\ gl[e].line # NoLine

Init ==
  /\ line = [l \in Lines |-> [status |-> "None", match |-> NoEntry]]
  /\ draft = [l \in Lines |-> NoDraft]
  /\ gl = [e \in Entries |-> NoRow]
  /\ sale = [s \in Sales |-> [status |-> "None", entry |-> NoEntry]]
  /\ req = [r \in Requests |-> Idle]
  /\ loose = {}

-----------------------------------------------------------------------------
Exists(l) == line[l].status = "Live"
Unmatched(l) == line[l].match = NoEntry
MatchedTo(e) == {l \in Lines : Exists(l) /\ line[l].match = e}
Posted(e) == gl[e].kind \notin {"None", "Gone"}
MadeFor(l) == {e \in Entries : gl[e].kind = "bank" /\ gl[e].line = l}
CoveredBy(l) == {e \in Entries : gl[e].kind = "sale" /\ gl[e].line = l}
Awaiting(e) == gl[e].kind = "sale" /\ gl[e].line = NoLine
ActiveDraft(l) == draft[l].status \in {"Pending", "Approved"}

\* An UPDATE of a line that was deleted changes nothing.
WithMatch(l, e) == [line EXCEPT ![l].match = IF Exists(l) THEN e ELSE @]
\* Entries made for line l that lose their match when it is matched with NoEntry.
LetGo(l) == {line[l].match} \cap MadeFor(l)

Begin(r, step) == req[r] = Idle /\ req' = [req EXCEPT ![r] = step]
Done(r) == req' = [req EXCEPT ![r] = Idle]
NewEntry(e, row) == gl[e] = NoRow /\ gl' = [gl EXCEPT ![e] = row]

(***************************************************************************)
(* Upload, and deletion of a line                                          *)
(***************************************************************************)
\* POST /upload inserts the line and its draft in two statements.
UploadLine(r, l) ==
  /\ line[l].status = "None"
  /\ line' = [line EXCEPT ![l].status = "Live"]
  /\ Begin(r, [op |-> "upload", line |-> l])
  /\ UNCHANGED <<draft, gl, sale, loose>>

\* A draft of a line that is gone violates the foreign key.
UploadDraft(r) ==
  /\ req[r].op = "upload"
  /\ LET l == req[r].line IN
       draft' = [draft EXCEPT ![l].status = IF Exists(l) THEN "Pending" ELSE @]
  /\ Done(r)
  /\ UNCHANGED <<line, gl, sale, loose>>

\* POST /:lineId/delete locks the draft and the line before it decides.
Deletable(l) == draft[l].status # "Approved" /\ Unmatched(l)

DeleteBegin(r, l) ==
  /\ Exists(l)
  /\ Begin(r, [op |-> "delete", line |-> l])
  /\ UNCHANGED <<line, draft, gl, sale, loose>>

DeleteCommit(r) ==
  /\ req[r].op = "delete"
  /\ LET l == req[r].line IN
       IF Exists(l) /\ Deletable(l)
       THEN /\ line' = [line EXCEPT ![l].status = "Gone"]
            /\ draft' = [draft EXCEPT ![l] = NoDraft]
       ELSE UNCHANGED <<line, draft>>
  /\ Done(r)
  /\ UNCHANGED <<gl, sale, loose>>

(***************************************************************************)
(* Matching with an entry that is there                                    *)
(***************************************************************************)
\* POST /:lineId/match takes any entry of the client.
MatchBegin(r, l, e) ==
  /\ Exists(l) /\ Unmatched(l) /\ Posted(e)
  /\ Begin(r, [op |-> "match", line |-> l, entry |-> e])
  /\ UNCHANGED <<line, draft, gl, sale, loose>>

\* POST /:clientId/auto-match leaves out what a line or a deposit has taken;
\* one of the pairs it finds stands for all, each being claimed by itself.
AutoMatchBegin(r, l, e) ==
  /\ Exists(l) /\ Unmatched(l) /\ Posted(e)
  /\ MatchedTo(e) = {}
  /\ gl[e].kind = "sale" => Awaiting(e)
  /\ \A s \in Entries : gl[s].kind = "sale" => gl[s].ref # e
  /\ Begin(r, [op |-> "match", line |-> l, entry |-> e])
  /\ UNCHANGED <<line, draft, gl, sale, loose>>

\* Both commit the same way: the entry's row is locked, then checked.
ClaimableByLine(l, e) == Exists(l) /\ Unmatched(l)                   \* mutation
Claimable(l, e) == Exists(l) /\ Unmatched(l) /\ MatchedTo(e) = {}

MatchCommit(r) ==
  /\ req[r].op = "match"
  /\ LET l == req[r].line
         e == req[r].entry IN
       line' = IF Claimable(l, e) THEN WithMatch(l, e) ELSE line
  /\ Done(r)
  /\ UNCHANGED <<draft, gl, sale, loose>>

\* POST /:lineId/unmatch: not for the entry of an approved draft, nor for a
\* deposit.  A line that is not matched passes both checks.
UnmatchBegin(r, l) ==
  /\ Exists(l)
  /\ Unmatched(l) \/ draft[l] # [status |-> "Approved", entry |-> line[l].match]
  /\ CoveredBy(l) = {}
  /\ Begin(r, [op |-> "unmatch", line |-> l])
  /\ UNCHANGED <<line, draft, gl, sale, loose>>

UnmatchCommit(r) ==
  /\ req[r].op = "unmatch"
  /\ LET l == req[r].line IN
       /\ line' = WithMatch(l, NoEntry)
       /\ loose' = loose \cup LetGo(l)
  /\ Done(r)
  /\ UNCHANGED <<draft, gl, sale>>

(***************************************************************************)
(* Entries made for a line                                                 *)
(***************************************************************************)
\* POST /:lineId/create-entry.
CreateBegin(r, l) ==
  /\ Exists(l) /\ Unmatched(l) /\ ~ActiveDraft(l)
  /\ Begin(r, [op |-> "create", line |-> l])
  /\ UNCHANGED <<line, draft, gl, sale, loose>>

\* The line is locked and both checks are made again; a line that was deleted
\* passes them.
CreatableUnlocked(l) == ~ActiveDraft(l)                              \* mutation
Creatable(l) == (Exists(l) => Unmatched(l)) /\ ~ActiveDraft(l)

CreateCommit(r) ==
  /\ req[r].op = "create"
  /\ LET l == req[r].line IN
       IF Creatable(l)
       THEN \E e \in Entries :
              /\ NewEntry(e, [kind |-> "bank", line |-> l, ref |-> NoEntry])
              /\ line' = WithMatch(l, e)
       ELSE UNCHANGED <<line, gl>>
  /\ Done(r)
  /\ UNCHANGED <<draft, sale, loose>>

\* approveJeDraft: posts the entry, and leaves the line unmatched.
ApproveBegin(r, l) ==
  /\ draft[l].status = "Pending"
  /\ Exists(l) /\ Unmatched(l)
  /\ Begin(r, [op |-> "approve", line |-> l])
  /\ UNCHANGED <<line, draft, gl, sale, loose>>

Pending(l) == draft[l].status = "Pending"

\* The draft is claimed, and the claim is rolled back when the line was matched.
ClaimKept(l) == [draft[l] EXCEPT !.status = "Approved"]              \* mutation
RolledBack(l) == draft[l]

ApproveCommit(r) ==
  /\ req[r].op = "approve"
  /\ LET l == req[r].line IN
       CASE ~Pending(l) -> UNCHANGED <<draft, gl>>
         [] Pending(l) /\ ~Unmatched(l) ->
              draft' = [draft EXCEPT ![l] = RolledBack(l)] /\ UNCHANGED gl
         [] Pending(l) /\ Unmatched(l) ->
              \E e \in Entries :
                /\ NewEntry(e, [kind |-> "bank", line |-> l, ref |-> NoEntry])
                /\ draft' = [draft EXCEPT ![l] = [status |-> "Approved", entry |-> e]]
  /\ Done(r)
  /\ UNCHANGED <<line, sale, loose>>

\* POST /je-drafts/:id/dismiss writes whatever the status has become.
DismissBegin(r, l) ==
  /\ draft[l].status = "Pending"
  /\ Begin(r, [op |-> "dismiss", line |-> l])
  /\ UNCHANGED <<line, draft, gl, sale, loose>>

DismissCommit(r) ==
  /\ req[r].op = "dismiss"
  /\ LET l == req[r].line IN
       /\ draft' = [draft EXCEPT ![l].status = IF @ = "None" THEN @ ELSE "Dismissed"]
       /\ loose' = IF draft[l].status = "Approved"
                   THEN loose \cup {draft[l].entry} ELSE loose
  /\ Done(r)
  /\ UNCHANGED <<line, gl, sale>>

(***************************************************************************)
(* Deposits of the card processor                                          *)
(***************************************************************************)
\* POST /:lineId/deposit-entry with the clearing rows it covers.
DepositBegin(r, l) ==
  /\ Exists(l) /\ Unmatched(l) /\ ~ActiveDraft(l)
  /\ \E items \in SUBSET {e \in Entries : Awaiting(e)}, fee \in BOOLEAN :
       /\ items # {}
       /\ Begin(r, [op |-> "deposit", line |-> l, items |-> items, fee |-> fee])
  /\ UNCHANGED <<line, draft, gl, sale, loose>>

\* The line and the clearing rows are locked and checked again; a line that was
\* deleted passes.  The line is matched with the first of the entries, whether
\* or not another line is.
CoverableOnce(l, items) == Exists(l) => Unmatched(l)                 \* mutation
Coverable(l, items) == (Exists(l) => Unmatched(l)) /\ \A e \in items : Awaiting(e)

Covered(items, l, fee) ==
  [e \in Entries |-> IF e \in items
                     THEN [kind |-> gl[e].kind, line |-> l, ref |-> fee] ELSE gl[e]]

DepositCommit(r) ==
  /\ req[r].op = "deposit"
  /\ LET l == req[r].line
         items == req[r].items IN
       IF Coverable(l, items)
       THEN /\ IF req[r].fee
               THEN \E f \in Entries :
                      /\ gl[f] = NoRow
                      /\ gl' = [Covered(items, l, f) EXCEPT ![f] =
                                  [kind |-> "fee", line |-> l, ref |-> NoEntry]]
               ELSE gl' = Covered(items, l, NoEntry)
            /\ \E first \in items : line' = WithMatch(l, first)
       ELSE UNCHANGED <<line, gl>>
  /\ Done(r)
  /\ UNCHANGED <<draft, sale, loose>>

\* POST /:lineId/reverse-deposit: reads the fees to delete before it commits.
ReverseBegin(r, l) ==
  /\ Exists(l) /\ CoveredBy(l) # {}
  /\ Begin(r, [op |-> "reverse", line |-> l,
               refs |-> {gl[e].ref : e \in CoveredBy(l)} \ {NoEntry}])
  /\ UNCHANGED <<line, draft, gl, sale, loose>>

ReopenedWithRef(e) == [gl[e] EXCEPT !.line = NoLine]                 \* mutation
Reopened(e) == [kind |-> gl[e].kind, line |-> NoLine, ref |-> NoEntry]

ReverseCommit(r) ==
  /\ req[r].op = "reverse"
  /\ LET l == req[r].line IN
       /\ gl' = [e \in Entries |->
            IF e \in req[r].refs THEN [NoRow EXCEPT !.kind = "Gone"]
            ELSE IF e \in CoveredBy(l) THEN Reopened(e)
            ELSE gl[e]]
       /\ line' = WithMatch(l, NoEntry)
       /\ loose' = loose \cup LetGo(l)
  /\ Done(r)
  /\ UNCHANGED <<draft, sale>>

(***************************************************************************)
(* Sales (src/src/modules/accounting/accounting.routes.ts)                 *)
(***************************************************************************)
SaleRow == [kind |-> "sale", line |-> NoLine, ref |-> NoEntry]

PostSale(s) ==
  /\ sale[s].status = "None"
  /\ \E e \in Entries :
       /\ NewEntry(e, SaleRow)
       /\ sale' = [sale EXCEPT ![s] = [status |-> "Live", entry |-> e]]
  /\ UNCHANGED <<line, draft, req, loose>>

\* hasClearedItems, before the transaction.
Changeable(s) == sale[s].entry # NoEntry => Awaiting(sale[s].entry)

EditSaleBegin(r, s) ==
  /\ sale[s].status = "Live" /\ Changeable(s)
  /\ Begin(r, [op |-> "editSale", sale |-> s])
  /\ UNCHANGED <<line, draft, gl, sale, loose>>

WithoutEntryOf(s) ==
  [e \in Entries |-> IF e = sale[s].entry THEN [NoRow EXCEPT !.kind = "Gone"] ELSE gl[e]]

\* The ledger lines and the clearing row are replaced, sale or no sale.
EditSaleCommit(r) ==
  /\ req[r].op = "editSale"
  /\ LET s == req[r].sale IN
       \E e \in Entries :
         /\ gl[e] = NoRow
         /\ gl' = [WithoutEntryOf(s) EXCEPT ![e] = SaleRow]
         /\ sale' = [sale EXCEPT ![s].entry = e]
  /\ Done(r)
  /\ UNCHANGED <<line, draft, loose>>

\* deleteSalesInputRecord.
DeleteSaleBegin(r, s) ==
  /\ sale[s].status = "Live" /\ Changeable(s)
  /\ Begin(r, [op |-> "deleteSale", sale |-> s])
  /\ UNCHANGED <<line, draft, gl, sale, loose>>

DeleteSaleCommit(r) ==
  /\ req[r].op = "deleteSale"
  /\ LET s == req[r].sale IN
       /\ gl' = WithoutEntryOf(s)
       /\ sale' = [sale EXCEPT ![s] = [status |-> "Deleted", entry |-> NoEntry]]
  /\ Done(r)
  /\ UNCHANGED <<line, draft, loose>>

\* The process stops during an upload: the line stays without its draft.  Every
\* other handler has committed all it does, or nothing.
Restart ==
  /\ \E r \in Requests : req[r].op = "upload"
  /\ req' = [r \in Requests |-> Idle]
  /\ UNCHANGED <<line, draft, gl, sale, loose>>

-----------------------------------------------------------------------------
OnLine(r, l) ==
  \/ UploadLine(r, l) \/ UnmatchBegin(r, l) \/ CreateBegin(r, l)
  \/ ApproveBegin(r, l) \/ DismissBegin(r, l)
  \/ DeleteBegin(r, l) \/ DepositBegin(r, l) \/ ReverseBegin(r, l)
  \/ \E e \in Entries : MatchBegin(r, l, e) \/ AutoMatchBegin(r, l, e)
OnSale(r, s) == EditSaleBegin(r, s) \/ DeleteSaleBegin(r, s)
Commit(r) ==
  \/ UploadDraft(r) \/ DeleteCommit(r) \/ MatchCommit(r) \/ UnmatchCommit(r)
  \/ CreateCommit(r) \/ ApproveCommit(r) \/ DismissCommit(r) \/ DepositCommit(r)
  \/ ReverseCommit(r) \/ EditSaleCommit(r) \/ DeleteSaleCommit(r)

Next ==
  \/ \E r \in Requests : Commit(r)
  \/ \E r \in Requests, l \in Lines : OnLine(r, l)
  \/ \E r \in Requests, s \in Sales : OnSale(r, s)
  \/ \E s \in Sales : PostSale(s)
  \/ Restart

Spec == Init /\ [][Next]_vars

-----------------------------------------------------------------------------
(***************************************************************************)
(* Properties                                                              *)
(***************************************************************************)
\* The row lock of match and auto-match: two lines share an entry only when
\* one of them is a deposit that covers it, which nothing checks.
EntryMatchedOnce ==
  \A e \in Entries : Posted(e) =>
    \A l1, l2 \in MatchedTo(e) : l1 # l2 =>
      gl[e].kind = "sale" /\ gl[e].line \in {l1, l2}

\* A bank line posts one entry, by its draft or by hand, whatever handlers run
\* at once: a second needs an unmatch, a dismissal that was read before the
\* approval, or the deletion of the line.
LinePostedOnce ==
  \A l \in Lines : Exists(l) => Cardinality(MadeFor(l) \ loose) <= 1

\* What was posted for a line can be seen from it: an entry made for a line is
\* the line's match or the entry of its approved draft, and an approved draft
\* names such an entry.
PostedIsAttached ==
  \A l \in Lines : Exists(l) =>
    /\ \A e \in MadeFor(l) \ loose :
         line[l].match = e \/ draft[l] = [status |-> "Approved", entry |-> e]
    /\ draft[l].status = "Approved" => draft[l].entry \in MadeFor(l)

\* Two deposits never cover one sale: its clearing row changes hands only
\* through the reversal that opens it again.
DepositClaimsOnce == [][
  \A e \in Entries : gl[e].kind = "sale" /\ gl[e].line # NoLine /\ gl'[e].kind = "sale" =>
    gl'[e].line \in {gl[e].line, NoLine}]_vars
=============================================================================
