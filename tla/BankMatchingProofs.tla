-------------------------- MODULE BankMatchingProofs --------------------------
(***************************************************************************)
(* Proofs about BankMatching, for any number of lines, sales, entries and  *)
(* handlers in flight: types, that an entry has one line and a line one    *)
(* posting, that what is posted for a line can be found from it, and that  *)
(* a sale is covered by one deposit.                                       *)
(***************************************************************************)
EXTENDS BankMatching, FiniteSetTheorems, TLAPS

LineSteps == {"upload", "create", "unmatch", "approve", "dismiss", "delete"}

-----------------------------------------------------------------------------
(***************************************************************************)
(* Types                                                                   *)
(***************************************************************************)
\* The part of the types that speaks of no other row.
Typed ==
  /\ line \in [Lines -> Line]
  /\ draft \in [Lines -> Draft]
  /\ gl \in [Entries -> Entry]
  /\ sale \in [Sales -> Sale]
  /\ req \in [Requests -> Request]
  /\ loose \subseteq Entries

\* Only a sale that a deposit covers names the deposit's fee.
FeesOfCovered ==
  \A e \in Entries : gl[e].ref # NoEntry => gl[e].kind = "sale" /\ gl[e].line # NoLine

LEMMA TypeParts == TypeOK <=> Typed /\ FeesOfCovered
  BY DEF TypeOK, Typed, FeesOfCovered

LEMMA RequestTypes ==
  ASSUME Typed, NEW r \in Requests
  PROVE  /\ req[r] \in Request
         /\ req[r].op \in LineSteps => req[r].line \in Lines
         /\ req[r].op = "match" => req[r].line \in Lines /\ req[r].entry \in Entries
         /\ req[r].op = "deposit" =>
              /\ req[r].line \in Lines /\ req[r].items \in SUBSET Entries
              /\ req[r].fee \in BOOLEAN
         /\ req[r].op = "reverse" => req[r].line \in Lines /\ req[r].refs \in SUBSET Entries
         /\ req[r].op \in {"editSale", "deleteSale"} => req[r].sale \in Sales
         /\ req[r].op = "idle" <=> req[r] = Idle
  BY DEF Typed, Request, Idle, LineSteps

LEMMA RowTypes ==
  ASSUME Typed
  PROVE  /\ \A l \in Lines : /\ line[l] \in Line /\ line[l].match \in MaybeEntry
                             /\ line[l].status \in {"None", "Live", "Gone"}
                             /\ draft[l] \in Draft /\ draft[l].entry \in MaybeEntry
         /\ \A e \in Entries : /\ gl[e] \in Entry /\ gl[e].ref \in MaybeEntry
                               /\ gl[e].line \in Lines \cup {NoLine}
         /\ \A s \in Sales : sale[s] \in Sale /\ sale[s].entry \in MaybeEntry
  BY DEF Typed, Line, Draft, Entry, Sale

-----------------------------------------------------------------------------
(***************************************************************************)
(* The statements the handlers are made of                                 *)
(***************************************************************************)
LEMMA MatchWritten ==
  ASSUME Typed, NEW l \in Lines, NEW e \in MaybeEntry, line' = WithMatch(l, e)
  PROVE  /\ line' \in [Lines -> Line]
         /\ \A m \in Lines \ {l} : line'[m] = line[m]
         /\ line'[l].status = line[l].status
         /\ Exists(l) => line'[l].match = e
         /\ ~Exists(l) => line'[l] = line[l]
<1> DEFINE new == [line[l] EXCEPT !.match = IF Exists(l) THEN e ELSE line[l].match]
<1>1. /\ new \in Line /\ new.status = line[l].status
      /\ new.match = IF Exists(l) THEN e ELSE line[l].match
  BY RowTypes DEF Line
<1>2. ~Exists(l) => new = line[l]
  BY RowTypes DEF Line
<1>3. line' = [line EXCEPT ![l] = new]
  BY DEF WithMatch, Typed
<1> HIDE DEF new
<1> QED
  BY <1>1, <1>2, <1>3 DEF Typed

LEMMA EntryWritten ==
  ASSUME Typed, NEW e \in Entries, NEW row \in Entry, NewEntry(e, row)
  PROVE  /\ gl' \in [Entries -> Entry]
         /\ gl[e].kind = "None" /\ gl'[e] = row
         /\ \A f \in Entries \ {e} : gl'[f] = gl[f]
  BY DEF NewEntry, Typed, NoRow

LEMMA BeginTyped ==
  ASSUME Typed, NEW r \in Requests, NEW step \in Request, Begin(r, step)
  PROVE  /\ req' \in [Requests -> Request]
         /\ req[r] = Idle /\ req'[r] = step
         /\ \A q \in Requests \ {r} : req'[q] = req[q]
  BY DEF Begin, Typed

LEMMA DoneTyped ==
  ASSUME Typed, NEW r \in Requests, Done(r)
  PROVE  /\ req' \in [Requests -> Request]
         /\ req'[r] = Idle
         /\ \A q \in Requests \ {r} : req'[q] = req[q]
  BY DEF Done, Typed, Request

\* A row of the ledger after a deposit, and after its reversal.
LEMMA CoverRows ==
  ASSUME Typed, NEW e \in Entries, NEW l \in Lines, NEW fee \in MaybeEntry
  PROVE  [kind |-> gl[e].kind, line |-> l, ref |-> fee] \in Entry
<1>1. gl[e].kind \in {"None", "Gone", "sale", "bank", "fee"}
  BY DEF Typed, Entry
<1> QED
  BY <1>1 DEF Entry

LEMMA ReopenRows ==
  ASSUME Typed, NEW e \in Entries
  PROVE  /\ Reopened(e) \in Entry /\ Reopened(e).kind = gl[e].kind
         /\ Reopened(e).line = NoLine /\ Reopened(e).ref = NoEntry
<1>1. gl[e].kind \in {"None", "Gone", "sale", "bank", "fee"}
  BY DEF Typed, Entry
<1> QED
  BY <1>1 DEF Entry, Reopened, MaybeEntry

GoneRow == [kind |-> "Gone", line |-> NoLine, ref |-> NoEntry]

LEMMA Rows ==
  /\ GoneRow \in Entry /\ SaleRow \in Entry /\ [NoRow EXCEPT !.kind = "Gone"] = GoneRow
  /\ GoneRow.kind = "Gone" /\ SaleRow.kind = "sale" /\ SaleRow.line = NoLine
  /\ GoneRow.ref = NoEntry /\ SaleRow.ref = NoEntry
  /\ \A l \in Lines, kind \in {"bank", "fee"} :
       [kind |-> kind, line |-> l, ref |-> NoEntry] \in Entry
  BY DEF GoneRow, SaleRow, NoRow, Entry, MaybeEntry

-----------------------------------------------------------------------------
(***************************************************************************)
(* The invariant                                                           *)
(***************************************************************************)
\* Nothing is known of a line before it is uploaded, and a draft goes with its line.
KnownLines ==
  /\ \A l \in Lines : line[l].status = "None" => line[l].match = NoEntry
  /\ \A l \in Lines : draft[l].status # "None" => line[l].status = "Live"
  /\ \A e \in Entries : gl[e].line \in Lines => line[gl[e].line].status # "None"

\* A line is matched with an entry that is, or was, in the ledger.
MatchesPosted ==
  \A l \in Lines : line[l].match # NoEntry => gl[line[l].match].kind # "None"

FeeKinds == {"fee", "Gone"}
SaleKinds == {"sale", "Gone"}

\* What a reversal deletes is a fee, what an edit replaces is a sale's entry.
RefsAreFees ==
  \A e \in Entries : gl[e].ref # NoEntry => gl[gl[e].ref].kind \in FeeKinds
SaleEntries ==
  \A s \in Sales : sale[s].entry # NoEntry => gl[sale[s].entry].kind \in SaleKinds

OnePosting ==
  \A l \in Lines : Exists(l) =>
    \A e1, e2 \in MadeFor(l) \ loose : e1 = e2

OfLine == LineSteps \cup {"match", "deposit", "reverse"}

\* What a handler read stays true of the rows it names.
Sound(q) ==
  /\ q.op \in OfLine => line[q.line].status # "None"
  /\ q.op = "match" => gl[q.entry].kind # "None"
  /\ q.op = "reverse" => \A e \in q.refs : gl[e].kind \in FeeKinds
  /\ q.op = "upload" => draft[q.line].status = "None"

RequestsSound == \A r \in Requests : Sound(req[r])

UploadsApart ==
  \A r, q \in Requests : req[r].op = "upload" /\ req[q].op = "upload" /\ r # q =>
    req[r].line # req[q].line

Inv ==
  /\ Typed /\ FeesOfCovered
  /\ KnownLines /\ MatchesPosted /\ RefsAreFees /\ SaleEntries
  /\ EntryMatchedOnce /\ PostedIsAttached /\ OnePosting
  /\ RequestsSound /\ UploadsApart

LEMMA InitInv == Init => Inv
<1> SUFFICES ASSUME Init PROVE Inv
  OBVIOUS
<1>1. Typed
  BY DEF Init, Typed, Line, Draft, NoDraft, Entry, NoRow, Sale, Idle, Request, MaybeEntry
<1>2. /\ \A l \in Lines : /\ line[l].status = "None" /\ line[l].match = NoEntry
                           /\ draft[l].status = "None"
      /\ \A e \in Entries : /\ gl[e].kind = "None" /\ gl[e].line = NoLine
                             /\ gl[e].ref = NoEntry
      /\ \A s \in Sales : sale[s].entry = NoEntry
      /\ \A r \in Requests : req[r].op = "idle"
  BY DEF Init, NoDraft, NoRow, Idle
<1>3. FeesOfCovered /\ KnownLines /\ MatchesPosted /\ RefsAreFees /\ SaleEntries
  BY <1>2, NoLineAssumption DEF FeesOfCovered, KnownLines, MatchesPosted, RefsAreFees, SaleEntries
<1>4. EntryMatchedOnce /\ PostedIsAttached /\ OnePosting
  BY <1>2 DEF EntryMatchedOnce, PostedIsAttached, OnePosting, MatchedTo, MadeFor, Exists
<1>5. RequestsSound /\ UploadsApart
  BY <1>2 DEF RequestsSound, UploadsApart, Sound, OfLine, LineSteps
<1> QED
  BY <1>1, <1>3, <1>4, <1>5 DEF Inv

-----------------------------------------------------------------------------
(***************************************************************************)
(* What every commit leaves true of the requests in flight                 *)
(***************************************************************************)
Onward ==
  /\ \A l \in Lines : line[l].status # "None" => line'[l].status # "None"
  /\ \A e \in Entries : gl[e].kind # "None" => gl'[e].kind # "None"
  /\ \A e \in Entries : gl[e].kind \in FeeKinds => gl'[e].kind \in FeeKinds

DraftsAwait ==
  \A l \in Lines : draft[l].status = "None" => draft'[l].status = "None"

LEMMA RequestForms ==
  ASSUME NEW q \in Request
  PROVE  /\ q.op \in OfLine => q.line \in Lines
         /\ q.op = "match" => q.entry \in Entries
         /\ q.op = "reverse" => q.refs \in SUBSET Entries
  BY DEF Request, Idle, OfLine, LineSteps

LEMMA StillSound ==
  ASSUME NEW q \in Request, Sound(q), Onward,
         q.op = "upload" => draft'[q.line].status = "None"
  PROVE  /\ q.op \in OfLine => line'[q.line].status # "None"
         /\ q.op = "match" => gl'[q.entry].kind # "None"
         /\ q.op = "reverse" => \A e \in q.refs : gl'[e].kind \in FeeKinds
         /\ q.op = "upload" => draft'[q.line].status = "None"
  BY RequestForms DEF Sound, Onward

\* The request that was answered is idle, and the others are as they were.
LEMMA AnsweredRequests ==
  ASSUME Inv, NEW r \in Requests, Done(r), Onward,
         \A p \in Requests \ {r} :
           req[p].op = "upload" => draft'[req[p].line].status = "None"
  PROVE  RequestsSound' /\ UploadsApart'
<1>1. /\ req'[r].op = "idle" /\ \A p \in Requests \ {r} : req'[p] = req[p]
  BY DoneTyped DEF Inv, Idle
<1>2. ASSUME NEW p \in Requests PROVE Sound(req[p])'
  <2>1. CASE p = r
    BY <2>1, <1>1 DEF Sound, OfLine, LineSteps
  <2>2. CASE p # r
    <3>1. req[p] \in Request /\ Sound(req[p])
      BY RequestTypes DEF Inv, RequestsSound
    <3>2. req'[p] = req[p]
      BY <1>1, <2>2
    <3> QED
      BY <3>1, <3>2, <2>2, StillSound DEF Sound
  <2> QED
    BY <2>1, <2>2
<1> QED
  BY <1>1, <1>2 DEF Inv, RequestsSound, UploadsApart

LEMMA UploadsAwait ==
  ASSUME Inv, DraftsAwait, NEW p \in Requests, req[p].op = "upload"
  PROVE  draft'[req[p].line].status = "None"
  BY RequestTypes DEF Inv, RequestsSound, Sound, DraftsAwait, LineSteps

\* A handler that begins reads what is sound; only an upload could meet another.
LEMMA BegunRequests ==
  ASSUME Inv, NEW r \in Requests, NEW step \in Request, Begin(r, step), step.op # "upload",
         UNCHANGED <<line, draft, gl, sale, loose>>, Sound(step)
  PROVE  Inv'
<1>1. /\ req' \in [Requests -> Request] /\ req'[r] = step
      /\ \A p \in Requests \ {r} : req'[p] = req[p]
  BY BeginTyped DEF Inv
<1>2. Typed' /\ FeesOfCovered' /\ KnownLines' /\ MatchesPosted' /\ RefsAreFees' /\ SaleEntries'
  BY <1>1 DEF Inv, Typed, FeesOfCovered, KnownLines, MatchesPosted, RefsAreFees, SaleEntries
<1>3. EntryMatchedOnce' /\ PostedIsAttached' /\ OnePosting'
  BY DEF Inv, EntryMatchedOnce, PostedIsAttached, OnePosting, MatchedTo, MadeFor, Exists, Posted
<1>4. ASSUME NEW p \in Requests PROVE Sound(req[p])'
  <2>1. CASE p = r
    BY <2>1, <1>1 DEF Sound
  <2>2. CASE p # r
    BY <2>2, <1>1 DEF Sound, Inv, RequestsSound
  <2> QED
    BY <2>1, <2>2
<1>5. UploadsApart'
  BY <1>1 DEF Inv, UploadsApart
<1> QED
  BY <1>2, <1>3, <1>4, <1>5 DEF Inv, RequestsSound

-----------------------------------------------------------------------------
(***************************************************************************)
(* The handlers that begin                                                 *)
(***************************************************************************)
LEMMA LineStepsTyped ==
  /\ \A l \in Lines, o \in LineSteps : [op |-> o, line |-> l] \in Request
  /\ \A l \in Lines, e \in Entries : [op |-> "match", line |-> l, entry |-> e] \in Request
  /\ \A l \in Lines, items \in SUBSET Entries, fee \in BOOLEAN :
       [op |-> "deposit", line |-> l, items |-> items, fee |-> fee] \in Request
  /\ \A l \in Lines, refs \in SUBSET Entries :
       [op |-> "reverse", line |-> l, refs |-> refs] \in Request
  /\ \A s \in Sales, o \in {"editSale", "deleteSale"} : [op |-> o, sale |-> s] \in Request
  BY DEF Request, LineSteps

\* A line step that is not an upload is sound once its line is known.
LEMMA PlainStep ==
  ASSUME Inv, NEW r \in Requests, NEW l \in Lines, NEW o \in LineSteps \ {"upload"},
         Begin(r, [op |-> o, line |-> l]), line[l].status # "None",
         UNCHANGED <<line, draft, gl, sale, loose>>
  PROVE  Inv'
<1> DEFINE step == [op |-> o, line |-> l]
<1>1. step \in Request /\ step.op # "upload"
  BY LineStepsTyped
<1>2. Sound(step)
  BY DEF Sound, LineSteps
<1> QED
  BY <1>1, <1>2, BegunRequests

LEMMA PlainBegins ==
  ASSUME Inv, NEW r \in Requests, NEW l \in Lines,
         \/ UnmatchBegin(r, l) \/ CreateBegin(r, l) \/ ApproveBegin(r, l)
         \/ DismissBegin(r, l) \/ DeleteBegin(r, l)
  PROVE  Inv'
<1>1. CASE UnmatchBegin(r, l)
  BY <1>1, PlainStep DEF UnmatchBegin, Exists, LineSteps
<1>2. CASE CreateBegin(r, l)
  BY <1>2, PlainStep DEF CreateBegin, Exists, LineSteps
<1>3. CASE ApproveBegin(r, l)
  BY <1>3, PlainStep DEF ApproveBegin, Exists, LineSteps
<1>4. CASE DismissBegin(r, l)
  <2>1. line[l].status # "None"
    BY <1>4 DEF DismissBegin, Inv, KnownLines
  <2> QED
    BY <1>4, <2>1, PlainStep DEF DismissBegin, LineSteps
<1>5. CASE DeleteBegin(r, l)
  BY <1>5, PlainStep DEF DeleteBegin, Exists, LineSteps
<1> QED
  BY <1>1, <1>2, <1>3, <1>4, <1>5

LEMMA MatchBegins ==
  ASSUME Inv, NEW r \in Requests, NEW l \in Lines, NEW e \in Entries,
         MatchBegin(r, l, e) \/ AutoMatchBegin(r, l, e)
  PROVE  Inv'
<1> DEFINE step == [op |-> "match", line |-> l, entry |-> e]
<1>1. step \in Request
  BY LineStepsTyped
<1>2. /\ Begin(r, step) /\ Exists(l) /\ Posted(e)
      /\ UNCHANGED <<line, draft, gl, sale, loose>>
  BY DEF MatchBegin, AutoMatchBegin
<1>3. Sound(step)
  BY <1>2 DEF Sound, Exists, Posted
<1> QED
  BY <1>1, <1>2, <1>3, BegunRequests

LEMMA DepositBegins ==
  ASSUME Inv, NEW r \in Requests, NEW l \in Lines, DepositBegin(r, l)
  PROVE  Inv'
<1>1. PICK items \in SUBSET {e \in Entries : Awaiting(e)}, fee \in BOOLEAN :
        Begin(r, [op |-> "deposit", line |-> l, items |-> items, fee |-> fee])
  BY DEF DepositBegin
<1> DEFINE step == [op |-> "deposit", line |-> l, items |-> items, fee |-> fee]
<1>2. step \in Request
  BY LineStepsTyped
<1>3. Sound(step)
  BY DEF Sound, DepositBegin, Exists
<1> QED
  BY <1>1, <1>2, <1>3, BegunRequests DEF DepositBegin

LEMMA ReverseBegins ==
  ASSUME Inv, NEW r \in Requests, NEW l \in Lines, ReverseBegin(r, l)
  PROVE  Inv'
<1> DEFINE refs == {gl[e].ref : e \in CoveredBy(l)} \ {NoEntry}
           step == [op |-> "reverse", line |-> l, refs |-> refs]
<1>1. \A f \in refs : f \in Entries /\ gl[f].kind \in FeeKinds
  BY RowTypes DEF Inv, RefsAreFees, CoveredBy, MaybeEntry
<1>2. step \in Request
  BY <1>1, LineStepsTyped
<1>3. Sound(step)
  BY <1>1 DEF Sound, ReverseBegin, Exists
<1> QED
  BY <1>2, <1>3, BegunRequests DEF ReverseBegin

LEMMA SaleBegins ==
  ASSUME Inv, NEW r \in Requests, NEW s \in Sales, OnSale(r, s)
  PROVE  Inv'
<1>1. PICK o \in {"editSale", "deleteSale"} : /\ Begin(r, [op |-> o, sale |-> s])
                                             /\ UNCHANGED <<line, draft, gl, sale, loose>>
  BY DEF OnSale, EditSaleBegin, DeleteSaleBegin
<1> DEFINE step == [op |-> o, sale |-> s]
<1>2. step \in Request /\ step.op # "upload"
  BY LineStepsTyped
<1>3. Sound(step)
  BY DEF Sound, OfLine, LineSteps
<1> QED
  BY <1>1, <1>2, <1>3, BegunRequests

-----------------------------------------------------------------------------
(***************************************************************************)
(* Lines                                                                   *)
(***************************************************************************)
LEMMA SameLedger ==
  ASSUME Inv, UNCHANGED <<gl, sale>>
  PROVE  FeesOfCovered' /\ RefsAreFees' /\ SaleEntries'
  BY DEF Inv, FeesOfCovered, RefsAreFees, SaleEntries

LEMMA UploadLineStep ==
  ASSUME Inv, NEW r \in Requests, NEW l \in Lines, UploadLine(r, l)
  PROVE  Inv'
<1> DEFINE step == [op |-> "upload", line |-> l]
<1>1. /\ req' \in [Requests -> Request] /\ req'[r] = step
      /\ \A p \in Requests \ {r} : req'[p] = req[p]
  BY BeginTyped, LineStepsTyped DEF Inv, UploadLine, LineSteps
<1>2. /\ line' \in [Lines -> Line] /\ line'[l].status = "Live" /\ line'[l].match = line[l].match
      /\ \A m \in Lines \ {l} : line'[m] = line[m]
  <2>1. line[l] \in Line
    BY RowTypes DEF Inv
  <2>2. [line[l] EXCEPT !.status = "Live"] \in Line
    BY <2>1 DEF Line
  <2> QED
    BY <2>1, <2>2 DEF Line, UploadLine, Inv, Typed
<1>3. /\ UNCHANGED <<draft, gl, sale, loose>> /\ line[l].status = "None"
      /\ line[l].match = NoEntry /\ draft[l].status = "None"
      /\ \A e \in Entries : gl[e].line # l
  BY DEF UploadLine, Inv, KnownLines
<1>4. Typed'
  BY <1>1, <1>2, <1>3 DEF Inv, Typed
<1>5. FeesOfCovered' /\ RefsAreFees' /\ SaleEntries'
  BY <1>3, SameLedger
<1>6. KnownLines'
  BY <1>2, <1>3 DEF Inv, KnownLines
<1>7. MatchesPosted'
  BY <1>2, <1>3 DEF Inv, MatchesPosted
<1>8. EntryMatchedOnce'
  BY <1>2, <1>3, NoEntryAssumption DEF Inv, EntryMatchedOnce, MatchedTo, Exists, Posted
<1>9. PostedIsAttached'
  BY <1>2, <1>3 DEF Inv, PostedIsAttached, MadeFor, Exists
<1>10. OnePosting'
  BY <1>2, <1>3 DEF Inv, OnePosting, MadeFor, Exists
<1>11. ASSUME NEW p \in Requests PROVE Sound(req[p])'
  <2>1. CASE p = r
    BY <2>1, <1>1, <1>2, <1>3 DEF Sound
  <2>2. CASE p # r
    <3>1. req[p] \in Request /\ Sound(req[p]) /\ req'[p] = req[p]
      BY <2>2, <1>1, RequestTypes DEF Inv, RequestsSound
    <3>2. req[p].op \in OfLine => req[p].line \in Lines
      BY <3>1, RequestForms
    <3> QED
      BY <3>1, <3>2, <1>2, <1>3 DEF Sound
  <2> QED
    BY <2>1, <2>2
<1>12. \A p \in Requests : req[p].op = "upload" => req[p].line # l
  BY <1>3 DEF Inv, RequestsSound, Sound, OfLine, LineSteps
<1>13. UploadsApart'
  BY <1>1, <1>12 DEF Inv, UploadsApart
<1> QED
  BY <1>4, <1>5, <1>6, <1>7, <1>8, <1>9, <1>10, <1>11, <1>13 DEF Inv, RequestsSound

\* A handler that finds at its commit that it may do nothing.
LEMMA Declined ==
  ASSUME Inv, NEW r \in Requests, Done(r), UNCHANGED <<line, draft, gl, sale, loose>>
  PROVE  Inv'
<1>1. Typed' /\ KnownLines' /\ MatchesPosted'
  BY DoneTyped DEF Inv, Typed, KnownLines, MatchesPosted
<1>2. EntryMatchedOnce' /\ PostedIsAttached' /\ OnePosting'
  BY DEF Inv, EntryMatchedOnce, PostedIsAttached, OnePosting, MatchedTo, MadeFor, Exists, Posted
<1>3. Onward /\ DraftsAwait
  BY DEF Onward, DraftsAwait
<1> QED
  BY <1>1, <1>2, <1>3, SameLedger, AnsweredRequests, UploadsAwait DEF Inv

LEMMA UploadDraftStep ==
  ASSUME Inv, NEW r \in Requests, UploadDraft(r)
  PROVE  Inv'
<1> DEFINE l == req[r].line
<1>1. l \in Lines /\ draft[l].status = "None" /\ line[l].status # "None" /\ req[r].op = "upload"
  BY RequestTypes DEF UploadDraft, Inv, RequestsSound, Sound, OfLine, LineSteps
<1>2. /\ draft' \in [Lines -> Draft] /\ draft'[l].status \in {"None", "Pending"}
      /\ draft'[l].status = "Pending" => line[l].status = "Live"
      /\ \A m \in Lines \ {l} : draft'[m] = draft[m]
  <2> DEFINE new == [draft[l] EXCEPT !.status = IF Exists(l) THEN "Pending" ELSE draft[l].status]
  <2>1. draft[l] \in Draft
    BY <1>1, RowTypes DEF Inv
  <2>2. /\ new \in Draft /\ new.status \in {"None", "Pending"}
        /\ new.status = "Pending" => line[l].status = "Live"
    BY <2>1, <1>1 DEF Draft, Exists
  <2>3. draft' = [draft EXCEPT ![l] = new]
    BY <1>1 DEF UploadDraft, Inv, Typed
  <2> HIDE DEF new
  <2> QED
    BY <2>2, <2>3, <1>1 DEF Inv, Typed
<1>3. UNCHANGED <<line, gl, sale, loose>> /\ Done(r)
  BY DEF UploadDraft
<1>4. Typed'
  BY <1>2, <1>3, DoneTyped DEF Inv, Typed
<1>5. FeesOfCovered' /\ RefsAreFees' /\ SaleEntries'
  BY <1>3, SameLedger
<1>6. KnownLines' /\ MatchesPosted'
  BY <1>1, <1>2, <1>3 DEF Inv, KnownLines, MatchesPosted
<1>7. EntryMatchedOnce' /\ OnePosting'
  BY <1>3 DEF Inv, EntryMatchedOnce, OnePosting, MatchedTo, MadeFor, Exists, Posted
<1>8. PostedIsAttached'
  <2> SUFFICES ASSUME NEW m \in Lines, Exists(m)
      PROVE  /\ \A e \in MadeFor(m) \ loose :
                  line[m].match = e \/ draft'[m] = [status |-> "Approved", entry |-> e]
             /\ draft'[m].status = "Approved" => draft'[m].entry \in MadeFor(m)
    BY <1>3 DEF PostedIsAttached, MadeFor, Exists
  <2>1. CASE m = l
    BY <2>1, <1>1, <1>2 DEF Inv, PostedIsAttached
  <2>2. CASE m # l
    BY <2>2, <1>2 DEF Inv, PostedIsAttached
  <2> QED
    BY <2>1, <2>2
<1>9. Onward
  BY <1>3 DEF Onward
<1>10. ASSUME NEW p \in Requests \ {r}, req[p].op = "upload"
       PROVE  draft'[req[p].line].status = "None"
  <2>1. req[p].line \in Lines /\ draft[req[p].line].status = "None"
    BY <1>10, RequestTypes DEF Inv, RequestsSound, Sound, LineSteps
  <2>2. req[p].line # l
    BY <1>1, <1>10 DEF Inv, UploadsApart
  <2> QED
    BY <2>1, <2>2, <1>2
<1>11. RequestsSound' /\ UploadsApart'
  BY <1>3, <1>9, <1>10, AnsweredRequests
<1> QED
  BY <1>4, <1>5, <1>6, <1>7, <1>8, <1>11 DEF Inv

LEMMA DeleteStep ==
  ASSUME Inv, NEW r \in Requests, DeleteCommit(r)
  PROVE  Inv'
<1> DEFINE l == req[r].line
<1>1. l \in Lines /\ line[l].status # "None"
  BY RequestTypes DEF DeleteCommit, Inv, RequestsSound, Sound, OfLine, LineSteps
<1>2. UNCHANGED <<gl, sale, loose>> /\ Done(r)
  BY DEF DeleteCommit
<1>3. /\ line' \in [Lines -> Line] /\ draft' \in [Lines -> Draft]
      /\ \A m \in Lines : /\ Exists(m)' => /\ line'[m] = line[m] /\ draft'[m] = draft[m]
                                         /\ Exists(m)
                          /\ line'[m].match = line[m].match
                          /\ line[m].status # "None" => line'[m].status # "None"
                          /\ line'[m].status = "None" => line[m].status = "None"
                          /\ draft'[m].status # "None" =>
                               line'[m] = line[m] /\ draft[m].status # "None"
                          /\ draft[m].status = "None" => draft'[m].status = "None"
  <2>1. CASE Exists(l) /\ Deletable(l)
    <3> DEFINE new == [line[l] EXCEPT !.status = "Gone"]
    <3>1. line[l] \in Line
      BY <1>1, RowTypes DEF Inv
    <3>2. new \in Line /\ new.status = "Gone" /\ new.match = line[l].match
      BY <3>1 DEF Line
    <3>3. NoDraft \in Draft /\ NoDraft.status = "None"
      BY DEF NoDraft, Draft, MaybeEntry
    <3>4. line' = [line EXCEPT ![l] = new] /\ draft' = [draft EXCEPT ![l] = NoDraft]
      BY <2>1 DEF DeleteCommit
    <3> HIDE DEF new
    <3> QED
      BY <3>2, <3>3, <3>4, <1>1 DEF Inv, Typed, Exists
  <2>2. CASE ~(Exists(l) /\ Deletable(l))
    BY <2>2 DEF DeleteCommit, Inv, Typed, Exists
  <2> QED
    BY <2>1, <2>2
<1>4. Typed'
  BY <1>2, <1>3, DoneTyped DEF Inv, Typed
<1>5. FeesOfCovered' /\ RefsAreFees' /\ SaleEntries'
  BY <1>2, SameLedger
<1>6. KnownLines' /\ MatchesPosted'
  BY <1>2, <1>3 DEF Inv, KnownLines, MatchesPosted
<1>7. EntryMatchedOnce'
  BY <1>2, <1>3 DEF Inv, EntryMatchedOnce, MatchedTo, Posted
<1>8. PostedIsAttached'
  BY <1>2, <1>3 DEF Inv, PostedIsAttached, MadeFor
<1>9. OnePosting'
  BY <1>2, <1>3 DEF Inv, OnePosting, MadeFor
<1>10. Onward /\ DraftsAwait
  BY <1>2, <1>3 DEF Onward, DraftsAwait
<1>11. RequestsSound' /\ UploadsApart'
  BY <1>2, <1>10, AnsweredRequests, UploadsAwait
<1> QED
  BY <1>4, <1>5, <1>6, <1>7, <1>8, <1>9, <1>11 DEF Inv

-----------------------------------------------------------------------------
(***************************************************************************)
(* Matching                                                                *)
(***************************************************************************)
LEMMA MatchStep ==
  ASSUME Inv, NEW r \in Requests, MatchCommit(r)
  PROVE  Inv'
<1> DEFINE l == req[r].line
           e == req[r].entry
<1>1. l \in Lines /\ line[l].status # "None" /\ e \in Entries /\ gl[e].kind # "None"
  BY RequestTypes DEF MatchCommit, Inv, RequestsSound, Sound, OfLine, LineSteps
<1>2. UNCHANGED <<draft, gl, sale, loose>> /\ Done(r)
  BY DEF MatchCommit
<1>3. CASE Claimable(l, e)
  <2>1. /\ line' \in [Lines -> Line] /\ \A m \in Lines \ {l} : line'[m] = line[m]
        /\ line'[l].status = line[l].status /\ line'[l].match = e
        /\ Exists(l) /\ line[l].match = NoEntry /\ MatchedTo(e) = {}
    BY <1>1, <1>3, MatchWritten DEF MatchCommit, Claimable, Inv, MaybeEntry, Unmatched
  <2>2. Typed'
    BY <1>2, <2>1, DoneTyped DEF Inv, Typed
  <2>3. KnownLines' /\ MatchesPosted'
    BY <1>1, <1>2, <2>1 DEF Inv, KnownLines, MatchesPosted
  <2>4. EntryMatchedOnce'
    BY <1>2, <2>1 DEF Inv, EntryMatchedOnce, MatchedTo, Exists, Posted
  <2>5. PostedIsAttached'
    BY <1>2, <2>1, NoEntryAssumption DEF Inv, PostedIsAttached, MadeFor, Exists
  <2>6. OnePosting'
    BY <1>2, <2>1 DEF Inv, OnePosting, MadeFor, Exists
  <2>7. Onward /\ DraftsAwait
    BY <1>2, <2>1 DEF Onward, DraftsAwait
  <2> QED
    BY <1>2, <2>2, <2>3, <2>4, <2>5, <2>6, <2>7, SameLedger, AnsweredRequests, UploadsAwait DEF Inv
<1>4. CASE ~Claimable(l, e)
  BY <1>2, <1>4, Declined DEF MatchCommit
<1> QED
  BY <1>3, <1>4

\* An UPDATE that takes the match off a line.
LEMMA MatchTakenOff ==
  ASSUME Inv, NEW l \in Lines, line' = WithMatch(l, NoEntry)
  PROVE  /\ line' \in [Lines -> Line] /\ \A m \in Lines \ {l} : line'[m] = line[m]
         /\ line'[l].status = line[l].status
         /\ line'[l].match \in {NoEntry, line[l].match}
         /\ Exists(l) => line'[l].match = NoEntry
  BY MatchWritten DEF Inv, MaybeEntry

LEMMA UnmatchStep ==
  ASSUME Inv, NEW r \in Requests, UnmatchCommit(r)
  PROVE  Inv'
<1> DEFINE l == req[r].line
<1>1. l \in Lines
  BY RequestTypes DEF UnmatchCommit, Inv, LineSteps
<1>2. /\ UNCHANGED <<draft, gl, sale>> /\ Done(r) /\ line' = WithMatch(l, NoEntry)
      /\ loose' = loose \cup ({line[l].match} \cap MadeFor(l))
  BY DEF UnmatchCommit, LetGo
<1>3. /\ line' \in [Lines -> Line] /\ \A m \in Lines \ {l} : line'[m] = line[m]
      /\ line'[l].status = line[l].status
      /\ line'[l].match \in {NoEntry, line[l].match}
      /\ Exists(l) => line'[l].match = NoEntry
  BY <1>1, <1>2, MatchTakenOff
<1>4. Typed'
  BY <1>2, <1>3, DoneTyped DEF Inv, Typed, MadeFor
<1>5. KnownLines' /\ MatchesPosted'
  BY <1>1, <1>2, <1>3 DEF Inv, KnownLines, MatchesPosted
<1>6. EntryMatchedOnce'
  BY <1>1, <1>2, <1>3, NoEntryAssumption DEF Inv, EntryMatchedOnce, MatchedTo, Exists, Posted
<1>7. PostedIsAttached'
  BY <1>1, <1>2, <1>3 DEF Inv, PostedIsAttached, MadeFor, Exists
<1>8. OnePosting'
  BY <1>1, <1>2, <1>3 DEF Inv, OnePosting, MadeFor, Exists
<1>9. Onward /\ DraftsAwait
  BY <1>1, <1>2, <1>3 DEF Onward, DraftsAwait
<1> QED
  BY <1>2, <1>4, <1>5, <1>6, <1>7, <1>8, <1>9, SameLedger, AnsweredRequests, UploadsAwait DEF Inv

-----------------------------------------------------------------------------
(***************************************************************************)
(* Entries made for a line                                                 *)
(***************************************************************************)
\* What a new entry that is no deposit's fee leaves true of the others.
LEMMA NewEntryAdded ==
  ASSUME Inv, NEW e \in Entries, NEW row \in Entry, NewEntry(e, row), UNCHANGED sale,
         row.ref = NoEntry
  PROVE  /\ gl' \in [Entries -> Entry] /\ gl[e].kind = "None" /\ gl'[e] = row
         /\ \A f \in Entries \ {e} : gl'[f] = gl[f]
         /\ FeesOfCovered' /\ RefsAreFees' /\ SaleEntries'
         /\ \A l \in Lines : line[l].match # e
<1>1. /\ gl' \in [Entries -> Entry] /\ gl[e].kind = "None" /\ gl'[e] = row
      /\ \A f \in Entries \ {e} : gl'[f] = gl[f]
  BY EntryWritten DEF Inv
<1>2. FeesOfCovered'
  BY <1>1 DEF Inv, FeesOfCovered
<1>3. RefsAreFees'
  BY <1>1, RowTypes DEF Inv, RefsAreFees, FeeKinds, MaybeEntry
<1>4. SaleEntries'
  BY <1>1, RowTypes DEF Inv, SaleEntries, SaleKinds, MaybeEntry
<1>5. \A l \in Lines : line[l].match # e
  BY <1>1, NoEntryAssumption DEF Inv, MatchesPosted
<1> QED
  BY <1>1, <1>2, <1>3, <1>4, <1>5

\* A line without a match and an approved draft has nothing of its own.
LEMMA NothingAttached ==
  ASSUME Inv, NEW l \in Lines, Exists(l), Unmatched(l), draft[l].status # "Approved"
  PROVE  MadeFor(l) \ loose = {}
<1> SUFFICES ASSUME NEW e \in MadeFor(l) \ loose PROVE FALSE
  OBVIOUS
<1>1. line[l].match = e \/ draft[l] = [status |-> "Approved", entry |-> e]
  BY DEF Inv, PostedIsAttached
<1>2. e \in Entries
  BY DEF MadeFor
<1>3. draft[l] # [status |-> "Approved", entry |-> e]
  OBVIOUS
<1> QED
  BY <1>1, <1>2, <1>3, NoEntryAssumption DEF Unmatched

LEMMA CreateStep ==
  ASSUME Inv, NEW r \in Requests, CreateCommit(r)
  PROVE  Inv'
<1> DEFINE l == req[r].line
<1>1. l \in Lines /\ line[l].status # "None"
  BY RequestTypes DEF CreateCommit, Inv, RequestsSound, Sound, OfLine, LineSteps
<1>2. UNCHANGED <<draft, sale, loose>> /\ Done(r)
  BY DEF CreateCommit
<1>3. CASE Creatable(l)
  <2> DEFINE row == [kind |-> "bank", line |-> l, ref |-> NoEntry]
  <2>1. PICK e \in Entries : NewEntry(e, row) /\ line' = WithMatch(l, e)
    BY <1>3 DEF CreateCommit
  <2>2. row \in Entry /\ row.kind = "bank" /\ row.line = l /\ row.ref = NoEntry
    BY <1>1, Rows
  <2> HIDE DEF row
  <2>3. /\ gl' \in [Entries -> Entry] /\ gl[e].kind = "None" /\ gl'[e] = row
        /\ \A f \in Entries \ {e} : gl'[f] = gl[f]
        /\ FeesOfCovered' /\ RefsAreFees' /\ SaleEntries'
        /\ \A m \in Lines : line[m].match # e
    BY <1>2, <2>1, <2>2, NewEntryAdded
  <2>4. /\ line' \in [Lines -> Line] /\ \A m \in Lines \ {l} : line'[m] = line[m]
        /\ line'[l].status = line[l].status
        /\ Exists(l) => line'[l].match = e
        /\ ~Exists(l) => line'[l] = line[l]
    BY <1>1, <2>1, MatchWritten DEF Inv, MaybeEntry
  <2>5. Exists(l) => Unmatched(l) /\ draft[l].status # "Approved" /\ MadeFor(l) \ loose = {}
    BY <1>1, <1>3, NothingAttached DEF Creatable, ActiveDraft
  <2>6. Typed'
    BY <1>2, <2>3, <2>4, DoneTyped DEF Inv, Typed
  <2>7. KnownLines'
    BY <1>1, <1>2, <2>2, <2>3, <2>4 DEF Inv, KnownLines, Exists
  <2>8. MatchesPosted'
    BY <1>1, <2>2, <2>3, <2>4, RowTypes DEF Inv, MatchesPosted, MaybeEntry
  <2>9. EntryMatchedOnce'
    BY <1>1, <2>3, <2>4, <2>5 DEF Inv, EntryMatchedOnce, MatchedTo, Exists, Posted, Unmatched
  <2>10. PostedIsAttached'
    BY <1>1, <1>2, <2>2, <2>3, <2>4, <2>5 DEF Inv, PostedIsAttached, MadeFor, Exists
  <2>11. OnePosting'
    BY <1>1, <1>2, <2>2, <2>3, <2>4, <2>5 DEF Inv, OnePosting, MadeFor, Exists
  <2>12. Onward /\ DraftsAwait
    BY <1>1, <1>2, <2>2, <2>3, <2>4 DEF Onward, DraftsAwait, FeeKinds
  <2> QED
    BY <1>2, <2>3, <2>6, <2>7, <2>8, <2>9, <2>10, <2>11, <2>12, AnsweredRequests, UploadsAwait DEF Inv
<1>4. CASE ~Creatable(l)
  BY <1>2, <1>4, Declined DEF CreateCommit
<1> QED
  BY <1>3, <1>4

LEMMA ApproveStep ==
  ASSUME Inv, NEW r \in Requests, ApproveCommit(r)
  PROVE  Inv'
<1> DEFINE l == req[r].line
<1>1. l \in Lines /\ line[l].status # "None"
  BY RequestTypes DEF ApproveCommit, Inv, RequestsSound, Sound, OfLine, LineSteps
<1>2. UNCHANGED <<line, sale, loose>> /\ Done(r)
  BY DEF ApproveCommit
<1>3. CASE Pending(l) /\ Unmatched(l)
  <2> DEFINE row == [kind |-> "bank", line |-> l, ref |-> NoEntry]
  <2>1. PICK e \in Entries :
          /\ NewEntry(e, row)
          /\ draft' = [draft EXCEPT ![l] = [status |-> "Approved", entry |-> e]]
    BY <1>3 DEF ApproveCommit
  <2>2. row \in Entry /\ row.kind = "bank" /\ row.line = l /\ row.ref = NoEntry
    BY <1>1, Rows
  <2> HIDE DEF row
  <2>3. /\ gl' \in [Entries -> Entry] /\ gl[e].kind = "None" /\ gl'[e] = row
        /\ \A f \in Entries \ {e} : gl'[f] = gl[f]
        /\ FeesOfCovered' /\ RefsAreFees' /\ SaleEntries'
        /\ \A m \in Lines : line[m].match # e
    BY <1>2, <2>1, <2>2, NewEntryAdded
  <2>4. /\ draft' \in [Lines -> Draft]
        /\ draft'[l] = [status |-> "Approved", entry |-> e]
        /\ draft'[l].status = "Approved" /\ draft'[l].entry = e
        /\ \A m \in Lines \ {l} : draft'[m] = draft[m]
    <3>1. [status |-> "Approved", entry |-> e] \in Draft
      BY DEF Draft, MaybeEntry
    <3> QED
      BY <1>1, <2>1, <3>1 DEF Inv, Typed
  <2>5. draft[l].status = "Pending" /\ (Exists(l) => MadeFor(l) \ loose = {})
    BY <1>1, <1>3, NothingAttached DEF Pending
  <2>6. Typed'
    BY <1>2, <2>3, <2>4, DoneTyped DEF Inv, Typed
  <2>7. KnownLines'
    BY <1>1, <1>2, <2>2, <2>3, <2>4, <2>5 DEF Inv, KnownLines
  <2>8. MatchesPosted'
    BY <1>2, <2>2, <2>3, RowTypes DEF Inv, MatchesPosted, MaybeEntry
  <2>9. EntryMatchedOnce'
    BY <1>2, <2>3 DEF Inv, EntryMatchedOnce, MatchedTo, Exists, Posted
  <2>10. PostedIsAttached'
    <3> SUFFICES ASSUME NEW m \in Lines, Exists(m)
        PROVE  /\ \A f \in MadeFor(m)' \ loose :
                    line[m].match = f \/ draft'[m] = [status |-> "Approved", entry |-> f]
               /\ draft'[m].status = "Approved" => draft'[m].entry \in MadeFor(m)'
      BY <1>2 DEF PostedIsAttached, Exists
    <3>1. CASE m = l
      BY <3>1, <2>2, <2>3, <2>4, <2>5 DEF MadeFor
    <3>2. CASE m # l
      <4>1. MadeFor(m)' = MadeFor(m)
        BY <3>2, <2>2, <2>3 DEF MadeFor
      <4>2. draft'[m] = draft[m]
        BY <3>2, <2>4
      <4> QED
        BY <4>1, <4>2 DEF Inv, PostedIsAttached
    <3> QED
      BY <3>1, <3>2
  <2>11. OnePosting'
    BY <1>1, <1>2, <2>2, <2>3, <2>5 DEF Inv, OnePosting, MadeFor, Exists
  <2>12. Onward /\ DraftsAwait
    BY <1>1, <1>2, <2>2, <2>3, <2>4, <2>5 DEF Onward, DraftsAwait, FeeKinds
  <2> QED
    BY <1>2, <2>3, <2>6, <2>7, <2>8, <2>9, <2>10, <2>11, <2>12, AnsweredRequests, UploadsAwait DEF Inv
<1>4. CASE ~(Pending(l) /\ Unmatched(l))
  <2>1. draft' = draft /\ gl' = gl
    BY <1>1, <1>4 DEF ApproveCommit, RolledBack, Inv, Typed
  <2> QED
    BY <1>2, <2>1, Declined
<1> QED
  BY <1>3, <1>4

LEMMA DismissStep ==
  ASSUME Inv, NEW r \in Requests, DismissCommit(r)
  PROVE  Inv'
<1> DEFINE l == req[r].line
<1>1. l \in Lines
  BY RequestTypes DEF DismissCommit, Inv, LineSteps
<1>2. UNCHANGED <<line, gl, sale>> /\ Done(r)
  BY DEF DismissCommit
<1>3. /\ draft' \in [Lines -> Draft] /\ \A m \in Lines \ {l} : draft'[m] = draft[m]
      /\ draft'[l].status = IF draft[l].status = "None" THEN "None" ELSE "Dismissed"
  <2> DEFINE new == [draft[l] EXCEPT !.status = IF draft[l].status = "None"
                                                THEN draft[l].status ELSE "Dismissed"]
  <2>1. draft[l] \in Draft
    BY <1>1, RowTypes DEF Inv
  <2>2. new \in Draft /\ new.status = IF draft[l].status = "None" THEN "None" ELSE "Dismissed"
    BY <2>1 DEF Draft
  <2>3. draft' = [draft EXCEPT ![l] = new]
    BY <1>1 DEF DismissCommit, Inv, Typed
  <2> HIDE DEF new
  <2> QED
    BY <2>2, <2>3, <1>1 DEF Inv, Typed
<1>4. /\ loose' \subseteq Entries /\ loose \subseteq loose'
      /\ \A e \in Entries : draft[l] = [status |-> "Approved", entry |-> e] /\ Exists(l) => e \in loose'
  <2>1. CASE draft[l].status = "Approved"
    <3>1. loose' = loose \cup {draft[l].entry}
      BY <2>1 DEF DismissCommit
    <3>2. draft[l].entry \in Entries
      BY <1>1, <2>1 DEF Inv, KnownLines, PostedIsAttached, MadeFor, Exists
    <3> QED
      BY <3>1, <3>2 DEF Inv, Typed
  <2>2. CASE draft[l].status # "Approved"
    BY <2>2 DEF DismissCommit, Inv, Typed
  <2> QED
    BY <2>1, <2>2
<1>5. Typed'
  BY <1>2, <1>3, <1>4, DoneTyped DEF Inv, Typed
<1>6. KnownLines' /\ MatchesPosted'
  BY <1>1, <1>2, <1>3 DEF Inv, KnownLines, MatchesPosted
<1>7. EntryMatchedOnce'
  BY <1>2 DEF Inv, EntryMatchedOnce, MatchedTo, Exists, Posted
<1>8. PostedIsAttached'
  <2> SUFFICES ASSUME NEW m \in Lines, Exists(m)
      PROVE  /\ \A e \in MadeFor(m) \ loose' :
                  line[m].match = e \/ draft'[m] = [status |-> "Approved", entry |-> e]
             /\ draft'[m].status = "Approved" => draft'[m].entry \in MadeFor(m)
    BY <1>2 DEF PostedIsAttached, MadeFor, Exists
  <2>1. CASE m = l
    BY <2>1, <1>3, <1>4 DEF Inv, PostedIsAttached, MadeFor
  <2>2. CASE m # l
    BY <2>2, <1>3, <1>4 DEF Inv, PostedIsAttached, MadeFor
  <2> QED
    BY <2>1, <2>2
<1>9. OnePosting'
  BY <1>2, <1>4 DEF Inv, OnePosting, MadeFor, Exists
<1>10. Onward /\ DraftsAwait
  BY <1>1, <1>2, <1>3 DEF Onward, DraftsAwait
<1> QED
  BY <1>2, <1>5, <1>6, <1>7, <1>8, <1>9, <1>10, SameLedger, AnsweredRequests, UploadsAwait DEF Inv

-----------------------------------------------------------------------------
(***************************************************************************)
(* Deposits                                                                *)
(***************************************************************************)
\* The ledger after a deposit: its clearing rows, its fee if there is one, and
\* every other row as it was.
LEMMA DepositRows ==
  ASSUME Inv, NEW r \in Requests, DepositCommit(r), Coverable(req[r].line, req[r].items)
  PROVE  \E fee \in MaybeEntry :
           /\ gl' \in [Entries -> Entry]
           /\ \A e \in req[r].items :
                /\ gl'[e].kind = "sale" /\ gl'[e].line = req[r].line /\ gl'[e].ref = fee
                /\ gl[e].kind = "sale" /\ gl[e].line = NoLine
           /\ fee \in Entries => /\ gl'[fee].kind = "fee" /\ gl'[fee].line = req[r].line
                                 /\ gl'[fee].ref = NoEntry /\ gl[fee].kind = "None"
           /\ \A e \in Entries \ req[r].items : e # fee => gl'[e] = gl[e]
<1> DEFINE l == req[r].line
           items == req[r].items
<1>1. l \in Lines /\ items \in SUBSET Entries
  BY RequestTypes DEF DepositCommit, Inv
<1>2. \A e \in items : gl[e].kind = "sale" /\ gl[e].line = NoLine
  BY DEF Coverable, Awaiting
<1>3. ASSUME NEW fee \in MaybeEntry
      PROVE  /\ Covered(items, l, fee) \in [Entries -> Entry]
             /\ \A e \in items : /\ Covered(items, l, fee)[e].kind = "sale"
                                 /\ Covered(items, l, fee)[e].line = l
                                 /\ Covered(items, l, fee)[e].ref = fee
             /\ \A e \in Entries \ items : Covered(items, l, fee)[e] = gl[e]
  BY <1>1, <1>2, CoverRows DEF Covered, Inv, Typed
<1>4. CASE req[r].fee
  <2> DEFINE row == [kind |-> "fee", line |-> l, ref |-> NoEntry]
  <2>1. PICK f \in Entries : gl[f] = NoRow /\ gl' = [Covered(items, l, f) EXCEPT ![f] = row]
    BY <1>4 DEF DepositCommit
  <2>2. row \in Entry /\ row.kind = "fee" /\ row.line = l /\ row.ref = NoEntry
    BY <1>1, Rows
  <2>3. f \notin items /\ gl[f].kind = "None" /\ f \in MaybeEntry
    BY <1>2, <2>1 DEF NoRow, MaybeEntry
  <2> HIDE DEF row
  <2>4. /\ gl' \in [Entries -> Entry] /\ gl'[f] = row
        /\ \A e \in Entries \ {f} : gl'[e] = Covered(items, l, f)[e]
    BY <1>3, <2>1, <2>2, <2>3
  <2> QED
    BY <1>1, <1>2, <1>3, <2>2, <2>3, <2>4
<1>5. CASE ~req[r].fee
  <2>1. gl' = Covered(items, l, NoEntry) /\ NoEntry \in MaybeEntry
    BY <1>5 DEF DepositCommit, MaybeEntry
  <2> QED
    BY <1>1, <1>2, <1>3, <2>1, NoEntryAssumption
<1> QED
  BY <1>4, <1>5

LEMMA DepositStep ==
  ASSUME Inv, NEW r \in Requests, DepositCommit(r)
  PROVE  Inv'
<1> DEFINE l == req[r].line
           items == req[r].items
<1>1. l \in Lines /\ line[l].status # "None" /\ items \in SUBSET Entries
  BY RequestTypes DEF DepositCommit, Inv, RequestsSound, Sound, OfLine, LineSteps
<1>2. UNCHANGED <<draft, sale, loose>> /\ Done(r)
  BY DEF DepositCommit
<1>3. CASE Coverable(l, items)
  <2>1. PICK first \in items : line' = WithMatch(l, first)
    BY <1>3 DEF DepositCommit
  <2>2. PICK fee \in MaybeEntry :
          /\ gl' \in [Entries -> Entry]
          /\ \A e \in items :
               /\ gl'[e].kind = "sale" /\ gl'[e].line = l /\ gl'[e].ref = fee
               /\ gl[e].kind = "sale" /\ gl[e].line = NoLine
          /\ fee \in Entries => /\ gl'[fee].kind = "fee" /\ gl'[fee].line = l
                                /\ gl'[fee].ref = NoEntry /\ gl[fee].kind = "None"
          /\ \A e \in Entries \ items : e # fee => gl'[e] = gl[e]
    BY <1>3, DepositRows
  <2>3. /\ line' \in [Lines -> Line] /\ \A m \in Lines \ {l} : line'[m] = line[m]
        /\ line'[l].status = line[l].status
        /\ Exists(l) => line'[l].match = first
        /\ ~Exists(l) => line'[l] = line[l]
    BY <1>1, <2>1, MatchWritten DEF Inv, MaybeEntry
  <2>4. Exists(l) => line[l].match = NoEntry
    BY <1>3 DEF Coverable, Unmatched
  <2>5. first \in Entries /\ fee \notin items
    BY <1>1, <2>1, <2>2, NoEntryAssumption DEF MaybeEntry
  <2>6. \A m \in Lines : line[m].match = fee => fee = NoEntry
    BY <2>2 DEF Inv, MatchesPosted, MaybeEntry
  <2>7. \A m \in Lines : MadeFor(m)' = MadeFor(m)
    BY <1>1, <2>2 DEF MadeFor
  <2>8. Typed'
    BY <1>2, <2>2, <2>3, DoneTyped DEF Inv, Typed
  <2>9. FeesOfCovered'
    BY <1>1, <2>2, NoLineAssumption, RowTypes DEF Inv, FeesOfCovered
  <2>10. RefsAreFees'
    BY <1>1, <2>2, RowTypes DEF Inv, RefsAreFees, FeeKinds, MaybeEntry
  <2>11. SaleEntries'
    BY <1>1, <1>2, <2>2, RowTypes DEF Inv, SaleEntries, SaleKinds, MaybeEntry
  <2>12. KnownLines'
    BY <1>1, <1>2, <2>2, <2>3 DEF Inv, KnownLines, Exists
  <2>13. MatchesPosted'
    BY <1>1, <2>2, <2>3, <2>5, RowTypes DEF Inv, MatchesPosted, MaybeEntry
  <2>14. EntryMatchedOnce'
    <3> SUFFICES ASSUME NEW e \in Entries, Posted(e)', NEW l1 \in MatchedTo(e)',
                        NEW l2 \in MatchedTo(e)', l1 # l2
        PROVE  gl'[e].kind = "sale" /\ gl'[e].line \in {l1, l2}
      BY DEF EntryMatchedOnce
    <3>1. /\ l1 \in Lines /\ l2 \in Lines /\ Exists(l1) /\ Exists(l2)
          /\ line'[l1].match = e /\ line'[l2].match = e
      BY <1>1, <2>3 DEF MatchedTo, Exists
    <3>2. CASE l \in {l1, l2}
      <4>1. e \in items
        BY <2>1, <2>3, <3>1, <3>2
      <4> QED
        BY <2>2, <3>2, <4>1
    <3>3. CASE l \notin {l1, l2}
      <4>1. line[l1].match = e /\ line[l2].match = e
        BY <2>3, <3>1, <3>3
      <4>2. e # fee
        BY <2>6, <3>1, <4>1, NoEntryAssumption
      <4>3. CASE e \in items
        <5>1. gl[e].kind = "sale" /\ gl[e].line = NoLine
          BY <2>2, <4>3
        <5> QED
          BY <3>1, <4>1, <5>1, NoLineAssumption DEF Inv, EntryMatchedOnce, MatchedTo, Posted
      <4>4. CASE e \notin items
        BY <2>2, <3>1, <4>1, <4>2, <4>4 DEF Inv, EntryMatchedOnce, MatchedTo, Posted
      <4> QED
        BY <4>3, <4>4
    <3> QED
      BY <3>2, <3>3
  <2>15. PostedIsAttached'
    BY <1>1, <1>2, <2>3, <2>4, <2>7, NoEntryAssumption DEF Inv, PostedIsAttached, MadeFor, Exists
  <2>16. OnePosting'
    BY <1>1, <1>2, <2>3, <2>7 DEF Inv, OnePosting, Exists
  <2>17. Onward /\ DraftsAwait
    BY <1>1, <1>2, <2>2, <2>3 DEF Onward, DraftsAwait, FeeKinds
  <2> QED
    BY <1>2, <2>8, <2>9, <2>10, <2>11, <2>12, <2>13, <2>14, <2>15, <2>16, <2>17,
       AnsweredRequests, UploadsAwait DEF Inv
<1>4. CASE ~Coverable(l, items)
  BY <1>2, <1>4, Declined DEF DepositCommit
<1> QED
  BY <1>3, <1>4

LEMMA ReverseStep ==
  ASSUME Inv, NEW r \in Requests, ReverseCommit(r)
  PROVE  Inv'
<1> DEFINE l == req[r].line
           refs == req[r].refs
<1>1. /\ l \in Lines /\ refs \in SUBSET Entries
      /\ \A e \in refs : gl[e].kind \in FeeKinds
  BY RequestTypes DEF ReverseCommit, Inv, RequestsSound, Sound
<1>2. /\ UNCHANGED <<draft, sale>> /\ Done(r) /\ line' = WithMatch(l, NoEntry)
      /\ loose' = loose \cup ({line[l].match} \cap MadeFor(l))
  BY DEF ReverseCommit, LetGo
<1>3. /\ line' \in [Lines -> Line] /\ \A m \in Lines \ {l} : line'[m] = line[m]
      /\ line'[l].status = line[l].status
      /\ line'[l].match \in {NoEntry, line[l].match}
      /\ Exists(l) => line'[l].match = NoEntry
  BY <1>1, <1>2, MatchTakenOff
<1>4. /\ gl' \in [Entries -> Entry]
      /\ \A e \in Entries :
           \/ /\ e \in refs
              /\ gl'[e].kind = "Gone" /\ gl'[e].line = NoLine /\ gl'[e].ref = NoEntry
           \/ /\ gl[e].kind = "sale" /\ gl[e].line = l
              /\ gl'[e].kind = "sale" /\ gl'[e].line = NoLine /\ gl'[e].ref = NoEntry
           \/ gl'[e] = gl[e] /\ e \notin CoveredBy(l)
  BY Rows, ReopenRows DEF ReverseCommit, CoveredBy, Inv, Typed, GoneRow
<1>5. \A m \in Lines : MadeFor(m)' = MadeFor(m)
  BY <1>1, <1>4 DEF MadeFor, FeeKinds
<1>6. Typed'
  BY <1>2, <1>3, <1>4, DoneTyped DEF Inv, Typed, MadeFor
<1>7. FeesOfCovered'
  BY <1>4 DEF Inv, FeesOfCovered
<1>8. RefsAreFees'
  BY <1>4, RowTypes DEF Inv, RefsAreFees, FeeKinds, MaybeEntry
<1>9. SaleEntries'
  BY <1>2, <1>4, RowTypes DEF Inv, SaleEntries, SaleKinds, MaybeEntry
<1>10. KnownLines'
  BY <1>1, <1>2, <1>3, <1>4, NoLineAssumption DEF Inv, KnownLines
<1>11. MatchesPosted'
  BY <1>1, <1>3, <1>4, RowTypes DEF Inv, MatchesPosted, MaybeEntry
<1>12. EntryMatchedOnce'
  <2> SUFFICES ASSUME NEW e \in Entries, Posted(e)', NEW l1 \in MatchedTo(e)',
                      NEW l2 \in MatchedTo(e)', l1 # l2
      PROVE  gl'[e].kind = "sale" /\ gl'[e].line \in {l1, l2}
    BY DEF EntryMatchedOnce
  <2>1. /\ l1 \in MatchedTo(e) /\ l2 \in MatchedTo(e) /\ l \notin {l1, l2}
    BY <1>1, <1>3, NoEntryAssumption DEF MatchedTo, Exists
  <2>2. Posted(e) /\ (gl[e].line = l \/ gl'[e] = gl[e])
    BY <1>4 DEF Posted
  <2> QED
    BY <2>1, <2>2 DEF Inv, EntryMatchedOnce
<1>13. PostedIsAttached'
  BY <1>1, <1>2, <1>3, <1>5 DEF Inv, PostedIsAttached, MadeFor, Exists
<1>14. OnePosting'
  BY <1>1, <1>2, <1>3, <1>5 DEF Inv, OnePosting, Exists
<1>15. Onward /\ DraftsAwait
  BY <1>1, <1>2, <1>3, <1>4 DEF Onward, DraftsAwait, FeeKinds
<1> QED
  BY <1>2, <1>6, <1>7, <1>8, <1>9, <1>10, <1>11, <1>12, <1>13, <1>14, <1>15,
     AnsweredRequests, UploadsAwait DEF Inv

-----------------------------------------------------------------------------
(***************************************************************************)
(* Sales                                                                   *)
(***************************************************************************)
\* No step of a sale touches a line, a draft or an upload.
LEMMA RequestsThrough ==
  ASSUME Inv, Onward, UNCHANGED <<req, draft>>
  PROVE  RequestsSound' /\ UploadsApart'
<1>1. ASSUME NEW p \in Requests PROVE Sound(req[p])'
  <2>1. req[p] \in Request /\ Sound(req[p])
    BY RequestTypes DEF Inv, RequestsSound
  <2> QED
    BY <2>1, StillSound DEF Sound
<1> QED
  BY <1>1 DEF Inv, RequestsSound, UploadsApart

\* The rows of the ledger when the entry of a sale goes and one comes, or not.
SaleRowsChange ==
  /\ gl' \in [Entries -> Entry]
  /\ \A e \in Entries :
       \/ gl'[e] = gl[e]
       \/ gl[e].kind \in SaleKinds /\ gl'[e] = GoneRow
       \/ gl[e].kind = "None" /\ gl'[e] = SaleRow

LEMMA SaleRowsInv ==
  ASSUME Inv, SaleRowsChange, UNCHANGED <<line, draft, loose>>
  PROVE  /\ FeesOfCovered' /\ KnownLines' /\ MatchesPosted' /\ RefsAreFees'
         /\ EntryMatchedOnce' /\ PostedIsAttached' /\ OnePosting' /\ Onward
<1>1. \A e \in Entries :
        \/ gl'[e] = gl[e]
        \/ /\ gl[e].kind \in SaleKinds /\ gl'[e].kind = "Gone"
           /\ gl'[e].line = NoLine /\ gl'[e].ref = NoEntry
        \/ /\ gl[e].kind = "None" /\ gl'[e].kind = "sale"
           /\ gl'[e].line = NoLine /\ gl'[e].ref = NoEntry
  BY Rows DEF SaleRowsChange, GoneRow
<1>2. \A m \in Lines : MadeFor(m)' = MadeFor(m)
  BY <1>1, NoLineAssumption DEF MadeFor, SaleKinds
<1>3. FeesOfCovered'
  BY <1>1 DEF Inv, FeesOfCovered
<1>4. KnownLines'
  BY <1>1, NoLineAssumption DEF Inv, KnownLines
<1>5. MatchesPosted'
  BY <1>1, RowTypes DEF Inv, MatchesPosted, MaybeEntry
<1>6. RefsAreFees'
  BY <1>1, RowTypes DEF Inv, RefsAreFees, FeeKinds, SaleKinds, MaybeEntry
<1>7. EntryMatchedOnce'
  <2> SUFFICES ASSUME NEW e \in Entries, Posted(e)', NEW l1 \in MatchedTo(e),
                      NEW l2 \in MatchedTo(e), l1 # l2
      PROVE  gl'[e].kind = "sale" /\ gl'[e].line \in {l1, l2}
    BY DEF EntryMatchedOnce, MatchedTo, Exists
  <2>1. gl[e].kind # "None"
    BY NoEntryAssumption DEF MatchedTo, Inv, MatchesPosted
  <2>2. gl'[e] = gl[e]
    BY <1>1, <2>1 DEF Posted
  <2> QED
    BY <2>2 DEF Inv, EntryMatchedOnce, Posted
<1>8. PostedIsAttached'
  BY <1>2 DEF Inv, PostedIsAttached, Exists
<1>9. OnePosting'
  BY <1>2 DEF Inv, OnePosting, Exists
<1>10. Onward
  BY <1>1 DEF Onward, FeeKinds, SaleKinds
<1> QED
  BY <1>3, <1>4, <1>5, <1>6, <1>7, <1>8, <1>9, <1>10

\* The entry of a sale goes.
LEMMA SaleEntryGone ==
  ASSUME Inv, NEW s \in Sales
  PROVE  /\ WithoutEntryOf(s) \in [Entries -> Entry]
         /\ \A e \in Entries :
              \/ WithoutEntryOf(s)[e] = gl[e] /\ e # sale[s].entry
              \/ gl[e].kind \in SaleKinds /\ WithoutEntryOf(s)[e] = GoneRow
  BY Rows, NoEntryAssumption DEF WithoutEntryOf, Inv, Typed, SaleEntries

LEMMA SaleWritten ==
  ASSUME Inv, NEW s \in Sales, NEW e \in MaybeEntry, NEW status \in {"Live", "Deleted"},
         sale' = [sale EXCEPT ![s] = [status |-> status, entry |-> e]]
  PROVE  /\ sale' \in [Sales -> Sale] /\ sale'[s].entry = e
         /\ \A t \in Sales \ {s} : sale'[t] = sale[t]
<1>1. [status |-> status, entry |-> e] \in Sale
  BY DEF Sale
<1> QED
  BY <1>1 DEF Inv, Typed

LEMMA PostSaleStep ==
  ASSUME Inv, NEW s \in Sales, PostSale(s)
  PROVE  Inv'
<1>1. UNCHANGED <<line, draft, req, loose>>
  BY DEF PostSale
<1>2. PICK e \in Entries : /\ NewEntry(e, SaleRow)
                          /\ sale' = [sale EXCEPT ![s] = [status |-> "Live", entry |-> e]]
  BY DEF PostSale
<1>3. /\ gl' \in [Entries -> Entry] /\ gl[e].kind = "None" /\ gl'[e] = SaleRow
      /\ \A f \in Entries \ {e} : gl'[f] = gl[f]
  BY <1>2, Rows, EntryWritten DEF Inv
<1>4. SaleRowsChange
  BY <1>3 DEF SaleRowsChange
<1>5. /\ sale' \in [Sales -> Sale] /\ sale'[s].entry = e
      /\ \A t \in Sales \ {s} : sale'[t] = sale[t]
  BY <1>2, SaleWritten DEF MaybeEntry
<1>6. SaleEntries'
  BY <1>3, <1>5, Rows, RowTypes DEF Inv, SaleEntries, SaleKinds, MaybeEntry
<1>7. Typed'
  BY <1>1, <1>3, <1>5 DEF Inv, Typed
<1> QED
  BY <1>1, <1>4, <1>6, <1>7, SaleRowsInv, RequestsThrough DEF Inv

LEMMA EditSaleStep ==
  ASSUME Inv, NEW r \in Requests, EditSaleCommit(r)
  PROVE  Inv'
<1> DEFINE s == req[r].sale
<1>1. s \in Sales /\ UNCHANGED <<line, draft, loose>> /\ Done(r)
  BY RequestTypes DEF Inv, EditSaleCommit
<1>2. PICK e \in Entries : /\ gl[e] = NoRow
                          /\ gl' = [WithoutEntryOf(s) EXCEPT ![e] = SaleRow]
                          /\ sale' = [sale EXCEPT ![s].entry = e]
  BY DEF EditSaleCommit
<1>3. gl[e].kind = "None" /\ e # sale[s].entry
  BY <1>1, <1>2, NoEntryAssumption DEF NoRow, Inv, SaleEntries, SaleKinds
<1>4. /\ gl' \in [Entries -> Entry] /\ gl'[e] = SaleRow
      /\ \A f \in Entries \ {e} : gl'[f] = WithoutEntryOf(s)[f]
  BY <1>1, <1>2, SaleEntryGone, Rows
<1>5. SaleRowsChange
  BY <1>1, <1>3, <1>4, SaleEntryGone DEF SaleRowsChange
<1>6. /\ sale' \in [Sales -> Sale] /\ sale'[s].entry = e
      /\ \A t \in Sales \ {s} : sale'[t] = sale[t]
  <2>1. sale[s] \in Sale
    BY <1>1, RowTypes DEF Inv
  <2>2. [sale[s] EXCEPT !.entry = e] \in Sale /\ [sale[s] EXCEPT !.entry = e].entry = e
    BY <2>1 DEF Sale, MaybeEntry
  <2> QED
    BY <1>1, <1>2, <2>2 DEF Inv, Typed
<1>7. SaleEntries'
  <2> SUFFICES ASSUME NEW t \in Sales, sale'[t].entry # NoEntry
      PROVE  gl'[sale'[t].entry].kind \in SaleKinds
    BY DEF SaleEntries
  <2>1. CASE t = s
    BY <2>1, <1>4, <1>6, Rows DEF SaleKinds
  <2>2. CASE t # s
    <3>1. /\ sale'[t] = sale[t] /\ sale[t].entry \in Entries
          /\ gl[sale[t].entry].kind \in SaleKinds
      BY <2>2, <1>6, RowTypes DEF Inv, SaleEntries, MaybeEntry
    <3> QED
      BY <3>1, <1>5, Rows DEF SaleRowsChange, SaleKinds
  <2> QED
    BY <2>1, <2>2
<1>8. Typed'
  BY <1>1, <1>4, <1>6, DoneTyped DEF Inv, Typed
<1>9. DraftsAwait
  BY <1>1 DEF DraftsAwait
<1> QED
  BY <1>1, <1>5, <1>7, <1>8, <1>9, SaleRowsInv, AnsweredRequests, UploadsAwait DEF Inv

LEMMA DeleteSaleStep ==
  ASSUME Inv, NEW r \in Requests, DeleteSaleCommit(r)
  PROVE  Inv'
<1> DEFINE s == req[r].sale
<1>1. /\ s \in Sales /\ UNCHANGED <<line, draft, loose>> /\ Done(r)
      /\ gl' = WithoutEntryOf(s)
      /\ sale' = [sale EXCEPT ![s] = [status |-> "Deleted", entry |-> NoEntry]]
  BY RequestTypes DEF Inv, DeleteSaleCommit
<1>2. SaleRowsChange
  BY <1>1, SaleEntryGone DEF SaleRowsChange
<1>3. /\ sale' \in [Sales -> Sale] /\ sale'[s].entry = NoEntry
      /\ \A t \in Sales \ {s} : sale'[t] = sale[t]
  BY <1>1, SaleWritten DEF MaybeEntry
<1>4. SaleEntries'
  BY <1>2, <1>3, Rows, RowTypes DEF Inv, SaleEntries, SaleRowsChange, SaleKinds, MaybeEntry
<1>5. Typed'
  BY <1>1, <1>2, <1>3, DoneTyped DEF Inv, Typed, SaleRowsChange
<1>6. DraftsAwait
  BY <1>1 DEF DraftsAwait
<1> QED
  BY <1>1, <1>2, <1>4, <1>5, <1>6, SaleRowsInv, AnsweredRequests, UploadsAwait DEF Inv

LEMMA RestartStep == Inv /\ Restart => Inv'
<1> SUFFICES ASSUME Inv, Restart PROVE Inv'
  OBVIOUS
<1>1. UNCHANGED <<line, draft, gl, sale, loose>>
  BY DEF Restart
<1>2. req' \in [Requests -> Request] /\ \A r \in Requests : req'[r].op = "idle"
  BY DEF Restart, Request, Idle
<1>3. Typed' /\ KnownLines' /\ MatchesPosted'
  BY <1>1, <1>2 DEF Inv, Typed, KnownLines, MatchesPosted
<1>4. EntryMatchedOnce' /\ PostedIsAttached' /\ OnePosting'
  BY <1>1 DEF Inv, EntryMatchedOnce, PostedIsAttached, OnePosting, MatchedTo, MadeFor, Exists, Posted
<1>5. RequestsSound' /\ UploadsApart'
  BY <1>2 DEF RequestsSound, UploadsApart, Sound, OfLine, LineSteps
<1> QED
  BY <1>1, <1>3, <1>4, <1>5, SameLedger DEF Inv

LEMMA Stutter == Inv /\ UNCHANGED vars => Inv'
<1> SUFFICES ASSUME Inv, UNCHANGED vars PROVE Inv'
  OBVIOUS
<1>1. UNCHANGED <<line, draft, gl, sale, req, loose>>
  BY DEF vars
<1>2. Typed' /\ KnownLines' /\ MatchesPosted'
  BY <1>1 DEF Inv, Typed, KnownLines, MatchesPosted
<1>3. EntryMatchedOnce' /\ PostedIsAttached' /\ OnePosting'
  BY <1>1 DEF Inv, EntryMatchedOnce, PostedIsAttached, OnePosting, MatchedTo, MadeFor, Exists, Posted
<1>4. Onward
  BY <1>1 DEF Onward
<1> QED
  BY <1>1, <1>2, <1>3, <1>4, SameLedger, RequestsThrough DEF Inv

-----------------------------------------------------------------------------
LEMMA CommitStep ==
  ASSUME Inv, NEW r \in Requests, Commit(r)
  PROVE  Inv'
  BY UploadDraftStep, DeleteStep, MatchStep, UnmatchStep, CreateStep, ApproveStep, DismissStep,
     DepositStep, ReverseStep, EditSaleStep, DeleteSaleStep DEF Commit

LEMMA BeginStep ==
  ASSUME Inv, NEW r \in Requests, NEW l \in Lines, OnLine(r, l)
  PROVE  Inv'
  BY UploadLineStep, PlainBegins, MatchBegins, DepositBegins, ReverseBegins DEF OnLine

LEMMA StepInv == Inv /\ [Next]_vars => Inv'
  BY CommitStep, BeginStep, SaleBegins, PostSaleStep, RestartStep, Stutter DEF Next

LEMMA Invariant == Spec => []Inv
<1>1. Init => Inv
  BY InitInv
<1>2. Inv /\ [Next]_vars => Inv'
  BY StepInv
<1> QED
  BY <1>1, <1>2, PTL DEF Spec

(***************************************************************************)
(* The theorems                                                            *)
(***************************************************************************)
\* Types: only a sale that a deposit covers names the deposit's fee.
THEOREM TypeCorrect == Spec => []TypeOK
<1>1. Inv => TypeOK
  BY TypeParts DEF Inv
<1> QED
  BY <1>1, Invariant, PTL

\* The row lock of match and auto-match: two lines share an entry only when one
\* of them is the deposit that covers it.
THEOREM OneLinePerEntry == Spec => []EntryMatchedOnce
<1>1. Inv => EntryMatchedOnce
  BY DEF Inv
<1> QED
  BY <1>1, Invariant, PTL

\* The draft and the hand-made entry of a bank line never both post.
THEOREM OneEntryPerLine == Spec => []LinePostedOnce
<1>1. Inv => LinePostedOnce
  <2> SUFFICES ASSUME Inv, NEW l \in Lines, Exists(l)
      PROVE  Cardinality(MadeFor(l) \ loose) <= 1
    BY DEF LinePostedOnce
  <2>1. CASE MadeFor(l) \ loose = {}
    BY <2>1, FS_EmptySet
  <2>2. CASE MadeFor(l) \ loose # {}
    <3>1. PICK e : MadeFor(l) \ loose = {e}
      BY <2>2 DEF Inv, OnePosting
    <3> QED
      BY <3>1, FS_Singleton
  <2> QED
    BY <2>1, <2>2
<1> QED
  BY <1>1, Invariant, PTL

\* What was posted for a line is its match or the entry of its approved draft.
THEOREM PostingsAttached == Spec => []PostedIsAttached
<1>1. Inv => PostedIsAttached
  BY DEF Inv
<1> QED
  BY <1>1, Invariant, PTL

\* A sale's clearing row goes from one deposit to another only by a reversal.
LEMMA ClaimStep ==
  ASSUME Inv, [Next]_vars, NEW e \in Entries,
         gl[e].kind = "sale", gl[e].line # NoLine, gl'[e].kind = "sale"
  PROVE  gl'[e].line \in {gl[e].line, NoLine}
<1> SUFFICES ASSUME gl'[e] # gl[e] PROVE gl'[e].line = NoLine
  OBVIOUS
<1>1. ASSUME NEW f \in Entries, NEW row, NewEntry(f, row) PROVE FALSE
  BY <1>1 DEF NewEntry, NoRow, Inv, Typed
<1>2. CASE \E s \in Sales : PostSale(s)
  BY <1>1, <1>2 DEF PostSale
<1>3. ASSUME NEW r \in Requests, Commit(r) PROVE gl'[e].line = NoLine
  <2>1. CASE CreateCommit(r)
    BY <1>1, <2>1 DEF CreateCommit
  <2>2. CASE ApproveCommit(r)
    BY <1>1, <2>2 DEF ApproveCommit
  <2>3. CASE DepositCommit(r)
    BY <2>3, DepositRows DEF DepositCommit
  <2>4. CASE ReverseCommit(r)
    BY <2>4, ReopenRows, Rows DEF ReverseCommit, GoneRow, Inv
  <2>5. CASE EditSaleCommit(r)
    <3> DEFINE s == req[r].sale
    <3>1. s \in Sales
      BY <2>5, RequestTypes DEF Inv, EditSaleCommit
    <3>2. PICK f \in Entries : gl[f] = NoRow /\ gl' = [WithoutEntryOf(s) EXCEPT ![f] = SaleRow]
      BY <2>5 DEF EditSaleCommit
    <3>3. e # f
      BY <3>2 DEF NoRow
    <3> QED
      BY <3>1, <3>2, <3>3, SaleEntryGone, Rows
  <2>6. CASE DeleteSaleCommit(r)
    <3>1. req[r].sale \in Sales /\ gl' = WithoutEntryOf(req[r].sale)
      BY <2>6, RequestTypes DEF Inv, DeleteSaleCommit
    <3> QED
      BY <3>1, SaleEntryGone, Rows
  <2>7. CASE UploadDraft(r) \/ DeleteCommit(r) \/ MatchCommit(r) \/ UnmatchCommit(r) \/ DismissCommit(r)
    BY <2>7 DEF UploadDraft, DeleteCommit, MatchCommit, UnmatchCommit, DismissCommit
  <2> QED
    BY <1>3, <2>1, <2>2, <2>3, <2>4, <2>5, <2>6, <2>7 DEF Commit
<1>4. ASSUME NEW r \in Requests, NEW l \in Lines, OnLine(r, l) PROVE gl' = gl
  BY <1>4 DEF OnLine, UploadLine, UnmatchBegin, CreateBegin, ApproveBegin, DismissBegin,
     DeleteBegin, DepositBegin, ReverseBegin, MatchBegin, AutoMatchBegin
<1>5. ASSUME NEW r \in Requests, NEW s \in Sales, OnSale(r, s) PROVE gl' = gl
  BY <1>5 DEF OnSale, EditSaleBegin, DeleteSaleBegin
<1>6. CASE Restart \/ UNCHANGED vars
  BY <1>6 DEF Restart, vars
<1> QED
  BY <1>2, <1>3, <1>4, <1>5, <1>6 DEF Next

THEOREM DepositsClaimOnce == Spec => DepositClaimsOnce
<1>1. Inv /\ [Next]_vars =>
        [\A e \in Entries :
           gl[e].kind = "sale" /\ gl[e].line # NoLine /\ gl'[e].kind = "sale" =>
             gl'[e].line \in {gl[e].line, NoLine}]_vars
  BY ClaimStep
<1> QED
  BY <1>1, Invariant, PTL DEF Spec, DepositClaimsOnce
=============================================================================
