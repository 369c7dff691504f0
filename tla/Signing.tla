------------------------------- MODULE Signing -------------------------------
(***************************************************************************)
(* Contracts and their signatures.  A contract (v3_client_contracts) is a  *)
(* document of the Document Builder, which several people sign by links    *)
(* of their own (src/src/modules/docBuilder/esign.ts), or a letter for a   *)
(* client's service, which one link signs (src/src/modules/contracts/      *)
(* publicContract.routes.ts).  Either may be signed on paper, voided or,   *)
(* while a draft, deleted (contracts.routes.ts).                           *)
(*                                                                         *)
(* A handler is an early read and then one action per statement it         *)
(* commits.  A signer who has viewed the document is still "Sent": no      *)
(* handler but the display tells the two apart, and nothing writes the     *)
(* default "Pending".                                                      *)
(***************************************************************************)
EXTENDS Naturals, FiniteSets

CONSTANTS
  Documents,  \* contract_id of documents, service_key "doc_..."
  Letters,    \* contract_id of the letters for one client and service
  Signers,    \* signer_id
  Requests,   \* handlers in flight
  MaxSigners  \* BOUND: people on one signing request (the code takes 12)

Contracts == Documents \cup Letters
ASSUME ContractsAssumption == Documents \cap Letters = {}
ASSUME MaxSignersAssumption == MaxSigners \in Nat \ {0}

VARIABLES
  con,    \* v3_client_contracts: status, and whose signature record it holds
  sgn,    \* v3_doc_signers
  req,    \* what a handler in flight read, and the statement it is at
  meddled, \* documents whose signers staff changed while one was signing
  lost    \* documents whose last signature nobody counted

vars == <<con, sgn, req, meddled, lost>>
history == <<meddled, lost>>

-----------------------------------------------------------------------------
\* The signature record is the one of a request on the link, one made in the
\* office, or the document's list of signers.
Records == Requests \cup {"nobody", "office", "everyone"}
Contract == [status: {"None", "Draft", "Sent", "Signed", "Void", "Deleted"},
             by: Records]
NoContract == [status |-> "None", by |-> "nobody"]

NoSigner == [status |-> "None"]
SignerStatus == {"Sent", "Signed", "Declined", "Cancelled", "Deleted"}
Signer == {NoSigner} \cup [status: SignerStatus, con: Documents]

Idle == [op |-> "idle"]
LetterSteps == {"generate", "sendLetter", "signLetter"}
StaffSteps == {"send", "cancel", "cancelled"}
SignerSteps == {"sign", "signed", "counted", "decline"}
Request == {Idle} \cup [op: LetterSteps, con: Letters]
                  \cup [op: StaffSteps, con: Documents]
                  \cup [op: SignerSteps, con: Documents, sgn: Signers]
                  \cup [op: {"office", "delete"}, con: Contracts]

TypeOK ==
  /\ con \in [Contracts -> Contract]
  /\ sgn \in [Signers -> Signer]
  /\ req \in [Requests -> Request]
  /\ meddled \subseteq Documents
  /\ lost \subseteq Documents

Init ==
  /\ con = [c \in Contracts |-> NoContract]
  /\ sgn = [s \in Signers |-> NoSigner]
  /\ req = [r \in Requests |-> Idle]
  /\ meddled = {}
  /\ lost = {}

-----------------------------------------------------------------------------
Exists(c) == con[c].status \notin {"None", "Deleted"}
Live(s) == sgn[s].status \notin {"None", "Deleted"}
SignersOf(c) == {s \in Signers : Live(s) /\ sgn[s].con = c}
Decided == {"Signed", "Declined"}

\* An UPDATE of a row that is gone changes nothing.
WithStatus(c, status) == IF Exists(c) THEN [con[c] EXCEPT !.status = status] ELSE con[c]
SignedBy(c, record) == IF Exists(c) THEN [status |-> "Signed", by |-> record] ELSE con[c]

Begin(r, step) == req[r] = Idle /\ req' = [req EXCEPT ![r] = step]
Go(r, op) == req' = [req EXCEPT ![r].op = op]
Done(r) == req' = [req EXCEPT ![r] = Idle]

\* The contract's row at the early read of a handler that refuses it when it
\* is already signed or void.
Open(c) == Exists(c) /\ con[c].status \notin {"Signed", "Void"}

(***************************************************************************)
(* Letters                                                                 *)
(***************************************************************************)
\* generateContractForService: skipped when a letter that is not void exists.
GenerateBegin(r) ==
  /\ \A c \in Letters : con[c].status \in {"None", "Deleted", "Void"}
  /\ \E c \in Letters : Begin(r, [op |-> "generate", con |-> c])
  /\ UNCHANGED <<con, sgn, history>>

GenerateCommit(r) ==
  /\ req[r].op = "generate"
  /\ \E c \in Letters :
       /\ con[c] = NoContract
       /\ con' = [con EXCEPT ![c] = [status |-> "Draft", by |-> "nobody"]]
  /\ Done(r)
  /\ UNCHANGED <<sgn, history>>

\* POST /:contractId/send, which refuses documents.
SendLetterBegin(r, c) ==
  /\ c \in Letters /\ Open(c)
  /\ Begin(r, [op |-> "sendLetter", con |-> c])
  /\ UNCHANGED <<con, sgn, history>>

SendLetterCommit(r) ==
  /\ req[r].op = "sendLetter"
  /\ con' = [con EXCEPT ![req[r].con] = WithStatus(req[r].con, "Sent")]
  /\ Done(r)
  /\ UNCHANGED <<sgn, history>>

\* POST /public/contract/:token/sign: the link exists once the letter was sent.
SignLetterBegin(r, c) ==
  /\ c \in Letters /\ con[c].status = "Sent"
  /\ Begin(r, [op |-> "signLetter", con |-> c])
  /\ UNCHANGED <<con, sgn, history>>

LetterClaimable(c) == Open(c)

SignLetterCommit(r) ==
  /\ req[r].op = "signLetter"
  /\ LET c == req[r].con IN
       con' = [con EXCEPT ![c] = IF LetterClaimable(c) THEN SignedBy(c, r) ELSE @]
  /\ Done(r)
  /\ UNCHANGED <<sgn, history>>

(***************************************************************************)
(* Documents: staff                                                        *)
(***************************************************************************)
\* POST /docBuilder/create, POST /esign/upload.
CreateDocument(c) ==
  /\ c \in Documents /\ con[c] = NoContract
  /\ con' = [con EXCEPT ![c] = [status |-> "Draft", by |-> "nobody"]]
  /\ UNCHANGED <<sgn, req, history>>

\* POST /docs/:docId/signing/send: refused once somebody signed or declined.
SendBegin(r, c) ==
  /\ c \in Documents /\ Open(c)
  /\ \A s \in SignersOf(c) : sgn[s].status \notin Decided
  /\ Begin(r, [op |-> "send", con |-> c])
  /\ UNCHANGED <<con, sgn, history>>

\* Its transaction replaces the signers, and sets the status whatever it is.
SendCommit(r) ==
  /\ req[r].op = "send"
  /\ LET c == req[r].con IN
       /\ \E people \in SUBSET {s \in Signers : sgn[s] = NoSigner} :
            /\ Cardinality(people) \in 1..MaxSigners
            /\ sgn' = [s \in Signers |->
                 IF s \in people THEN [status |-> "Sent", con |-> c]
                 ELSE IF s \in SignersOf(c) THEN [sgn[s] EXCEPT !.status = "Deleted"]
                 ELSE sgn[s]]
       /\ con' = [con EXCEPT ![c] = WithStatus(c, "Sent")]
       /\ meddled' = IF \E s \in SignersOf(c) : sgn[s].status \in Decided
                     THEN meddled \cup {c} ELSE meddled
  /\ Done(r)
  /\ UNCHANGED lost

\* POST /docs/:docId/signing/cancel: two statements.
CancelBegin(r, c) ==
  /\ c \in Documents /\ Exists(c) /\ con[c].status # "Signed"
  /\ Begin(r, [op |-> "cancel", con |-> c])
  /\ UNCHANGED <<con, sgn, history>>

Signing(c) == \E r \in Requests : req[r].op = "signed" /\ req[r].con = c

CancelSigners(r) ==
  /\ req[r].op = "cancel"
  /\ LET c == req[r].con
         open == {s \in SignersOf(c) : sgn[s].status = "Sent"} IN
       /\ sgn' = [s \in Signers |->
            IF s \in open THEN [sgn[s] EXCEPT !.status = "Cancelled"] ELSE sgn[s]]
       /\ meddled' = IF open # {} /\ Signing(c) THEN meddled \cup {c} ELSE meddled
  /\ Go(r, "cancelled")
  /\ UNCHANGED <<con, lost>>

CancelContract(r) ==
  /\ req[r].op = "cancelled"
  /\ LET c == req[r].con IN
       con' = [con EXCEPT ![c] = IF @.status = "Sent" THEN WithStatus(c, "Draft") ELSE @]
  /\ Done(r)
  /\ UNCHANGED <<sgn, history>>

(***************************************************************************)
(* Documents: signers, each on a link of their own                         *)
(***************************************************************************)
\* findSigner, then the checks of POST /public/sign/:token/sign.
SignBegin(r, s) ==
  /\ Live(s) /\ sgn[s].status = "Sent"
  /\ Exists(sgn[s].con) /\ con[sgn[s].con].status # "Void"
  /\ Begin(r, [op |-> "sign", con |-> sgn[s].con, sgn |-> s])
  /\ UNCHANGED <<con, sgn, history>>

\* POST /public/sign/:token/decline asks for no more than an open request.
DeclineBegin(r, s) ==
  /\ Live(s) /\ sgn[s].status # "Signed"
  /\ Exists(sgn[s].con)
  /\ Begin(r, [op |-> "decline", con |-> sgn[s].con, sgn |-> s])
  /\ UNCHANGED <<con, sgn, history>>

\* The conditional UPDATE of the signer's row.
WaitingAlways(s) == Live(s)                                          \* mutation
Waiting(s) == sgn[s].status = "Sent"

SignClaim(r) ==
  /\ req[r].op = "sign" /\ Waiting(req[r].sgn)
  /\ sgn' = [sgn EXCEPT ![req[r].sgn].status = "Signed"]
  /\ Go(r, "signed")
  /\ UNCHANGED <<con, history>>

Decline(r) ==
  /\ req[r].op = "decline" /\ Waiting(req[r].sgn)
  /\ sgn' = [sgn EXCEPT ![req[r].sgn].status = "Declined"]
  /\ Done(r)
  /\ UNCHANGED <<con, history>>

DecideRefuse(r) ==
  /\ req[r].op \in {"sign", "decline"} /\ ~Waiting(req[r].sgn)
  /\ Done(r)
  /\ UNCHANGED <<con, sgn, history>>

\* The SELECT after the claim, and the UPDATE that follows it.
AskedOf(c) == {s \in SignersOf(c) : sgn[s].status # "Cancelled"}
NobodyWaits(c) == \A s \in AskedOf(c) : sgn[s].status # "Sent"       \* mutation
EveryoneSigned(c) == AskedOf(c) # {} /\ \A s \in AskedOf(c) : sgn[s].status = "Signed"

CountSignatures(r) ==
  /\ req[r].op = "signed"
  /\ IF EveryoneSigned(req[r].con) THEN Go(r, "counted") ELSE Done(r)
  /\ UNCHANGED <<con, sgn, history>>

CompletableAlways(c) == TRUE                                         \* mutation
CompletableSent(c) == con[c].status = "Sent"                         \* mutation
Completable(c) == con[c].status # "Void"

CompleteDocument(r) ==
  /\ req[r].op = "counted"
  /\ LET c == req[r].con IN
       con' = [con EXCEPT ![c] = IF Completable(c) THEN SignedBy(c, "everyone") ELSE @]
  /\ Done(r)
  /\ UNCHANGED <<sgn, history>>

(***************************************************************************)
(* Letters and documents                                                   *)
(***************************************************************************)
\* POST /:contractId/sign-in-person.
SignInPersonBegin(r, c) ==
  /\ Open(c)
  /\ Begin(r, [op |-> "office", con |-> c])
  /\ UNCHANGED <<con, sgn, history>>

SignInPersonCommit(r) ==
  /\ req[r].op = "office"
  /\ con' = [con EXCEPT ![req[r].con] = SignedBy(req[r].con, "office")]
  /\ Done(r)
  /\ UNCHANGED <<sgn, history>>

\* POST /:contractId/void: what it read decides nothing.
VoidContract(c) ==
  /\ Exists(c)
  /\ con' = [con EXCEPT ![c] = WithStatus(c, "Void")]
  /\ UNCHANGED <<sgn, req, history>>

\* POST /:contractId/delete.
DeleteBegin(r, c) ==
  /\ con[c].status = "Draft"
  /\ Begin(r, [op |-> "delete", con |-> c])
  /\ UNCHANGED <<con, sgn, history>>

DeleteCommit(r) ==
  /\ req[r].op = "delete"
  /\ con' = [con EXCEPT ![req[r].con] = WithStatus(req[r].con, "Deleted")]
  /\ Done(r)
  /\ UNCHANGED <<sgn, history>>

\* Documents with nobody left to sign whose signatures these handlers were
\* counting, or had counted.
LeftOpen(handlers) ==
  {c \in Documents :
     /\ \A s \in SignersOf(c) : sgn[s].status # "Sent"
     /\ \E r \in handlers : req[r].op \in {"signed", "counted"} /\ req[r].con = c}

\* A query throws: what was committed stays, and the handler is over.
Throw(r) ==
  /\ req[r] # Idle
  /\ Done(r)
  /\ lost' = lost \cup LeftOpen({r})
  /\ UNCHANGED <<con, sgn, meddled>>

\* The process stops: every handler is gone.
Restart ==
  /\ \E r \in Requests : req[r] # Idle
  /\ req' = [r \in Requests |-> Idle]
  /\ lost' = lost \cup LeftOpen(Requests)
  /\ UNCHANGED <<con, sgn, meddled>>

-----------------------------------------------------------------------------
OnLetter(r) ==
  \/ GenerateBegin(r) \/ GenerateCommit(r)
  \/ \E c \in Letters : SendLetterBegin(r, c) \/ SignLetterBegin(r, c)
  \/ SendLetterCommit(r) \/ SignLetterCommit(r)
ByStaff(r) ==
  \/ \E c \in Documents : SendBegin(r, c) \/ CancelBegin(r, c)
  \/ SendCommit(r) \/ CancelSigners(r) \/ CancelContract(r)
BySigner(r) ==
  \/ \E s \in Signers : SignBegin(r, s) \/ DeclineBegin(r, s)
  \/ SignClaim(r) \/ Decline(r) \/ DecideRefuse(r)
  \/ CountSignatures(r) \/ CompleteDocument(r)
OnAny(r) ==
  \/ \E c \in Contracts : SignInPersonBegin(r, c) \/ DeleteBegin(r, c)
  \/ SignInPersonCommit(r) \/ DeleteCommit(r)

Next ==
  \/ \E r \in Requests : OnLetter(r) \/ ByStaff(r) \/ BySigner(r) \/ OnAny(r) \/ Throw(r)
  \/ \E c \in Contracts : CreateDocument(c) \/ VoidContract(c)
  \/ Restart

Spec == Init /\ [][Next]_vars

-----------------------------------------------------------------------------
(***************************************************************************)
(* Properties                                                              *)
(***************************************************************************)
\* The atomic claims (esign.ts, publicContract.routes.ts): a signer who signed
\* or declined never decides again, and no second submission on a letter's link
\* writes over the signature record of the first.
SignatureWrittenOnce == [][
  /\ \A s \in Signers : sgn[s].status \in Decided =>
       sgn'[s].status \in {sgn[s].status, "Deleted"}
  /\ \A c \in Letters : con[c].status = "Signed" =>
       con'[c].by \in {con[c].by, "office"}]_vars

\* A document that its signers completed bears the signature of every one of
\* them (the count in esign.ts leaves cancelled signers out), unless staff
\* cancelled or replaced signers while a signature was being written (meddled).
NobodySkipped ==
  \A c \in Documents \ meddled :
    con[c].status = "Signed" /\ con[c].by = "everyone" =>
      /\ \E s \in SignersOf(c) : sgn[s].status = "Signed"
      /\ \A s \in SignersOf(c) : sgn[s].status = "Signed"

\* The last signature completes the document, whichever of two concurrent
\* signers counts last: when all have signed it is Signed or Void, or somebody
\* is about to find out.  Left out (lost) are documents on which the handlers of
\* the last signatures threw or were restarted before the count or the UPDATE;
\* one that is interrupted while others are still to sign does no harm.
LastSignatureCompletes ==
  \A c \in Documents \ lost :
    SignersOf(c) # {} /\ (\A s \in SignersOf(c) : sgn[s].status = "Signed") =>
      \/ con[c].status \in {"Signed", "Void", "Deleted"}
      \/ \E r \in Requests : req[r].op \in {"signed", "counted"} /\ req[r].con = c

\* No signature brings a void contract back: only a send, a paper signature or
\* a deletion that read it before it was voided may write over the void.
VoidStands == [][
  \A c \in Contracts : con[c].status = "Void" /\ con'[c].status # "Void" =>
    \E r \in Requests : /\ req[r].op \in {"send", "sendLetter", "office", "delete"}
                        /\ req[r].con = c /\ req'[r] = Idle]_vars

\* As LastSignatureCompletes, of every document: esign.ts, line 26, has the
\* document turn Signed when every signer has signed.  Refuted by a query that
\* throws after the claim of line 333 has committed.
SignaturesAreCounted ==
  \A c \in Documents :
    SignersOf(c) # {} /\ (\A s \in SignersOf(c) : sgn[s].status = "Signed") =>
      \/ con[c].status \in {"Signed", "Void", "Deleted"}
      \/ \E r \in Requests : req[r].op \in {"signed", "counted"} /\ req[r].con = c

\* esign.ts, line 26: "The document (a v3_client_contracts row) turns Signed
\* only when every signer has signed."  Refuted by a cancellation, or a new
\* list of signers, that falls between a signature and its count.
SignedOnlyByEveryone ==
  \A c \in Documents : con[c].status = "Signed" /\ con[c].by = "everyone" =>
    \A s \in SignersOf(c) : sgn[s].status = "Signed"
=============================================================================
