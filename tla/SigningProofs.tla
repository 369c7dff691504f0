---------------------------- MODULE SigningProofs ----------------------------
(***************************************************************************)
(* Proofs about Signing, for any number of documents, letters, signers and *)
(* handlers in flight: types, that signatures are written once, that a     *)
(* void stands, that nobody is skipped, and that the last signature        *)
(* completes its document.                                                 *)
(***************************************************************************)
EXTENDS Signing, FiniteSetTheorems, TLAPS

-----------------------------------------------------------------------------
(***************************************************************************)
(* Types                                                                   *)
(***************************************************************************)
LEMMA RequestTypes ==
  ASSUME TypeOK, NEW r \in Requests
  PROVE  /\ req[r] \in Request
         /\ req[r].op \in LetterSteps =>
              req[r] \in [op: LetterSteps, con: Letters] /\ req[r].con \in Letters
         /\ req[r].op \in StaffSteps =>
              req[r] \in [op: StaffSteps, con: Documents] /\ req[r].con \in Documents
         /\ req[r].op \in SignerSteps =>
              /\ req[r] \in [op: SignerSteps, con: Documents, sgn: Signers]
              /\ req[r].con \in Documents /\ req[r].sgn \in Signers
         /\ req[r].op \in {"office", "delete"} => req[r].con \in Contracts
         /\ req[r].op = "idle" <=> req[r] = Idle
  BY DEF TypeOK, Request, Idle, LetterSteps, StaffSteps, SignerSteps

LEMMA SignerTypes ==
  ASSUME TypeOK, NEW s \in Signers
  PROVE  /\ sgn[s] \in Signer
         /\ sgn[s].status = "None" <=> sgn[s] = NoSigner
         /\ sgn[s] # NoSigner => /\ sgn[s] \in [status: SignerStatus, con: Documents]
                                 /\ sgn[s].con \in Documents
                                 /\ sgn[s].status \in SignerStatus
         /\ Live(s) => sgn[s] # NoSigner /\ sgn[s].status # "Deleted"
         /\ sgn[s].status \in {"Sent", "Signed", "Declined", "Cancelled"} =>
              sgn[s] # NoSigner /\ Live(s)
  BY DEF TypeOK, Signer, NoSigner, SignerStatus, Live

\* A signer's row with another status.
LEMMA SignerUpdates ==
  ASSUME TypeOK, NEW s \in Signers, sgn[s] # NoSigner, NEW status \in SignerStatus
  PROVE  /\ [sgn[s] EXCEPT !.status = status] \in [status: SignerStatus, con: Documents]
         /\ [sgn[s] EXCEPT !.status = status] # NoSigner
         /\ [sgn[s] EXCEPT !.status = status].status = status
         /\ [sgn[s] EXCEPT !.status = status].con = sgn[s].con
<1>1. sgn[s] \in [status: SignerStatus, con: Documents]
  BY SignerTypes
<1>2. [sgn[s] EXCEPT !.status = status] \in [status: SignerStatus, con: Documents]
  BY <1>1
<1>3. /\ [sgn[s] EXCEPT !.status = status].status = status
      /\ [sgn[s] EXCEPT !.status = status].con = sgn[s].con
  BY <1>1
<1>4. status # "None"
  BY DEF SignerStatus
<1> QED
  BY <1>2, <1>3, <1>4 DEF NoSigner

\* What UPDATEs write into a contract's row.
LEMMA ContractUpdates ==
  ASSUME TypeOK, NEW c \in Contracts
  PROVE  /\ con[c] \in Contract
         /\ \A status \in {"Draft", "Sent", "Void", "Deleted"} :
              /\ WithStatus(c, status) \in Contract
              /\ Exists(c) => WithStatus(c, status) = [status |-> status, by |-> con[c].by]
              /\ ~Exists(c) => WithStatus(c, status) = con[c]
         /\ \A record \in Records : SignedBy(c, record) \in Contract
  BY DEF TypeOK, Contract, WithStatus, SignedBy

LEMMA BeginTypes ==
  ASSUME TypeOK, NEW r \in Requests, NEW step \in Request, Begin(r, step),
         UNCHANGED <<con, sgn, history>>
  PROVE  TypeOK'
  BY DEF TypeOK, Begin, history

LEMMA DoneTypes ==
  ASSUME TypeOK, NEW r \in Requests, Done(r), NEW c \in Contracts, NEW new \in Contract,
         con' = [con EXCEPT ![c] = new], UNCHANGED <<sgn, history>>
  PROVE  TypeOK'
  BY DEF TypeOK, Done, Request, history

LEMMA GoTypes ==
  ASSUME TypeOK, NEW r \in Requests, NEW op,
         \/ req[r].op \in StaffSteps /\ op \in StaffSteps
         \/ req[r].op \in SignerSteps /\ op \in SignerSteps,
         Go(r, op)
  PROVE  /\ req' \in [Requests -> Request]
         /\ req'[r].op = op /\ req'[r].con = req[r].con
         /\ \A q \in Requests \ {r} : req'[q] = req[q]
         /\ req[r].op \in SignerSteps => req'[r].sgn = req[r].sgn
<1> DEFINE new == [req[r] EXCEPT !.op = op]
<1>1. CASE req[r].op \in StaffSteps
  <2>1. /\ new \in [op: StaffSteps, con: Documents]
        /\ new.op = op /\ new.con = req[r].con /\ req[r].op \notin SignerSteps
    BY <1>1, RequestTypes DEF StaffSteps, SignerSteps
  <2>2. req' = [req EXCEPT ![r] = new]
    BY DEF Go, TypeOK
  <2> HIDE DEF new
  <2> QED
    BY <1>1, <2>1, <2>2 DEF TypeOK, Request
<1>2. CASE req[r].op \in SignerSteps
  <2>1. /\ new \in [op: SignerSteps, con: Documents, sgn: Signers]
        /\ new.op = op /\ new.con = req[r].con /\ new.sgn = req[r].sgn
    BY <1>2, RequestTypes DEF StaffSteps, SignerSteps
  <2>2. req' = [req EXCEPT ![r] = new]
    BY DEF Go, TypeOK
  <2> HIDE DEF new
  <2> QED
    BY <2>1, <2>2 DEF TypeOK, Request
<1> QED
  BY <1>1, <1>2

LEMMA LetterTypes ==
  ASSUME TypeOK, NEW r \in Requests, OnLetter(r)
  PROVE  TypeOK'
<1>1. CASE GenerateBegin(r)
  <2>1. PICK c \in Letters : Begin(r, [op |-> "generate", con |-> c])
    BY <1>1 DEF GenerateBegin
  <2>2. [op |-> "generate", con |-> c] \in Request
    BY DEF Request, LetterSteps
  <2> QED
    BY <1>1, <2>1, <2>2, BeginTypes DEF GenerateBegin
<1>2. CASE GenerateCommit(r)
  <2>1. PICK c \in Letters : con' = [con EXCEPT ![c] = [status |-> "Draft", by |-> "nobody"]]
    BY <1>2 DEF GenerateCommit
  <2>2. [status |-> "Draft", by |-> "nobody"] \in Contract /\ c \in Contracts
    BY DEF Contract, Records, Contracts
  <2> QED
    BY <1>2, <2>1, <2>2, DoneTypes DEF GenerateCommit
<1>3. CASE \E c \in Letters : SendLetterBegin(r, c)
  <2>1. PICK c \in Letters : SendLetterBegin(r, c)
    BY <1>3
  <2>2. [op |-> "sendLetter", con |-> c] \in Request
    BY DEF Request, LetterSteps
  <2> QED
    BY <2>1, <2>2, BeginTypes DEF SendLetterBegin
<1>4. CASE \E c \in Letters : SignLetterBegin(r, c)
  <2>1. PICK c \in Letters : SignLetterBegin(r, c)
    BY <1>4
  <2>2. [op |-> "signLetter", con |-> c] \in Request
    BY DEF Request, LetterSteps
  <2> QED
    BY <2>1, <2>2, BeginTypes DEF SignLetterBegin
<1>5. CASE SendLetterCommit(r)
  <2>1. req[r].con \in Contracts
    BY <1>5, RequestTypes DEF SendLetterCommit, LetterSteps, Contracts
  <2> QED
    BY <1>5, <2>1, ContractUpdates, DoneTypes DEF SendLetterCommit
<1>6. CASE SignLetterCommit(r)
  <2> DEFINE c == req[r].con
             new == IF LetterClaimable(c) THEN SignedBy(c, r) ELSE con[c]
  <2>1. c \in Contracts
    BY <1>6, RequestTypes DEF SignLetterCommit, LetterSteps, Contracts
  <2>2. new \in Contract
    BY <2>1, ContractUpdates DEF Records
  <2>3. con' = [con EXCEPT ![c] = new]
    BY <1>6 DEF SignLetterCommit
  <2> HIDE DEF new, c
  <2> QED
    BY <1>6, <2>1, <2>2, <2>3, DoneTypes DEF SignLetterCommit
<1> QED
  BY <1>1, <1>2, <1>3, <1>4, <1>5, <1>6 DEF OnLetter

LEMMA StaffTypes ==
  ASSUME TypeOK, NEW r \in Requests, ByStaff(r)
  PROVE  TypeOK'
<1>1. CASE \E c \in Documents : SendBegin(r, c)
  <2>1. PICK c \in Documents : SendBegin(r, c)
    BY <1>1
  <2>2. [op |-> "send", con |-> c] \in Request
    BY DEF Request, StaffSteps
  <2> QED
    BY <2>1, <2>2, BeginTypes DEF SendBegin
<1>2. CASE \E c \in Documents : CancelBegin(r, c)
  <2>1. PICK c \in Documents : CancelBegin(r, c)
    BY <1>2
  <2>2. [op |-> "cancel", con |-> c] \in Request
    BY DEF Request, StaffSteps
  <2> QED
    BY <2>1, <2>2, BeginTypes DEF CancelBegin
<1>3. CASE SendCommit(r)
  <2> DEFINE c == req[r].con
  <2>1. c \in Documents /\ c \in Contracts
    BY <1>3, RequestTypes DEF SendCommit, StaffSteps, Contracts
  <2>2. PICK people \in SUBSET {s \in Signers : sgn[s] = NoSigner} :
          sgn' = [s \in Signers |->
                    IF s \in people THEN [status |-> "Sent", con |-> c]
                    ELSE IF s \in SignersOf(c) THEN [sgn[s] EXCEPT !.status = "Deleted"]
                    ELSE sgn[s]]
    BY <1>3 DEF SendCommit
  <2>3. [status |-> "Sent", con |-> c] \in Signer
    BY <2>1 DEF Signer, SignerStatus
  <2>4. \A s \in SignersOf(c) : [sgn[s] EXCEPT !.status = "Deleted"] \in Signer
    BY SignerTypes, SignerUpdates DEF SignersOf, SignerStatus, Signer
  <2>5. \A s \in Signers : sgn[s] \in Signer
    BY DEF TypeOK
  <2>6. sgn' \in [Signers -> Signer]
    BY <2>2, <2>3, <2>4, <2>5
  <2>7. con' \in [Contracts -> Contract] /\ meddled' \subseteq Documents
    BY <1>3, <2>1, ContractUpdates DEF SendCommit, TypeOK
  <2>8. req' \in [Requests -> Request] /\ lost' = lost
    BY <1>3 DEF SendCommit, Done, TypeOK, Request
  <2> QED
    BY <2>6, <2>7, <2>8 DEF TypeOK
<1>4. CASE CancelSigners(r)
  <2> DEFINE c == req[r].con
             open == {s \in SignersOf(c) : sgn[s].status = "Sent"}
  <2>1. c \in Documents /\ req[r].op \in StaffSteps /\ "cancelled" \in StaffSteps
    BY <1>4, RequestTypes DEF CancelSigners, StaffSteps
  <2>2. \A s \in open : [sgn[s] EXCEPT !.status = "Cancelled"] \in Signer
    BY SignerTypes, SignerUpdates DEF SignersOf, SignerStatus, Signer
  <2>3. sgn' = [s \in Signers |->
                  IF s \in open THEN [sgn[s] EXCEPT !.status = "Cancelled"] ELSE sgn[s]]
    BY <1>4 DEF CancelSigners
  <2>4. meddled' \subseteq Documents /\ con' = con /\ lost' = lost
    BY <1>4, <2>1 DEF CancelSigners, TypeOK
  <2>5. req' \in [Requests -> Request]
    BY <1>4, <2>1, GoTypes DEF CancelSigners
  <2> HIDE DEF open
  <2>6. sgn' \in [Signers -> Signer]
    BY <2>2, <2>3 DEF TypeOK
  <2> QED
    BY <2>4, <2>5, <2>6 DEF TypeOK
<1>5. CASE CancelContract(r)
  <2> DEFINE c == req[r].con
             new == IF con[c].status = "Sent" THEN WithStatus(c, "Draft") ELSE con[c]
  <2>1. c \in Contracts
    BY <1>5, RequestTypes DEF CancelContract, StaffSteps, Contracts
  <2>2. new \in Contract
    BY <2>1, ContractUpdates
  <2>3. con' = [con EXCEPT ![c] = new]
    BY <1>5 DEF CancelContract
  <2> HIDE DEF new, c
  <2> QED
    BY <1>5, <2>1, <2>2, <2>3, DoneTypes DEF CancelContract
<1> QED
  BY <1>1, <1>2, <1>3, <1>4, <1>5 DEF ByStaff

LEMMA BySignerTypes ==
  ASSUME TypeOK, NEW r \in Requests, BySigner(r)
  PROVE  TypeOK'
<1>1. \A s \in Signers, op \in SignerSteps : sgn[s].status \notin {"None"} =>
        [op |-> op, con |-> sgn[s].con, sgn |-> s] \in Request
  BY SignerTypes DEF Request, SignerSteps
<1>2. CASE \E s \in Signers : SignBegin(r, s) \/ DeclineBegin(r, s)
  <2>1. PICK s \in Signers : SignBegin(r, s) \/ DeclineBegin(r, s)
    BY <1>2
  <2>2. sgn[s].status # "None" /\ {"sign", "decline"} \subseteq SignerSteps
    BY <2>1 DEF SignBegin, DeclineBegin, Live, SignerSteps
  <2> QED
    BY <1>1, <2>1, <2>2, BeginTypes DEF SignBegin, DeclineBegin
<1>3. CASE SignClaim(r) \/ Decline(r)
  <2>1. req[r].op \in SignerSteps /\ req[r].sgn \in Signers /\ "signed" \in SignerSteps
    BY <1>3, RequestTypes DEF SignClaim, Decline, SignerSteps
  <2>2. PICK status \in SignerStatus : sgn' = [sgn EXCEPT ![req[r].sgn].status = status]
    BY <1>3 DEF SignClaim, Decline, SignerStatus
  <2>3. sgn[req[r].sgn] # NoSigner
    BY <1>3, <2>1, SignerTypes DEF SignClaim, Decline, Waiting
  <2>4. [sgn[req[r].sgn] EXCEPT !.status = status] \in Signer
    BY <2>1, <2>3, SignerUpdates DEF Signer
  <2>5. sgn' \in [Signers -> Signer]
    BY <2>2, <2>4 DEF TypeOK
  <2>6. req' \in [Requests -> Request]
    BY <1>3, <2>1, GoTypes DEF SignClaim, Decline, Done, TypeOK, Request
  <2> QED
    BY <1>3, <2>5, <2>6 DEF SignClaim, Decline, history, TypeOK
<1>4. CASE DecideRefuse(r)
  BY <1>4 DEF DecideRefuse, Done, TypeOK, Request, history
<1>5. CASE CountSignatures(r)
  <2>1. req[r].op \in SignerSteps /\ "counted" \in SignerSteps
    BY <1>5 DEF CountSignatures, SignerSteps
  <2>2. req' \in [Requests -> Request]
    BY <1>5, <2>1, GoTypes DEF CountSignatures, Done, TypeOK, Request
  <2> QED
    BY <1>5, <2>2 DEF CountSignatures, TypeOK, history
<1>6. CASE CompleteDocument(r)
  <2> DEFINE c == req[r].con
             new == IF Completable(c) THEN SignedBy(c, "everyone") ELSE con[c]
  <2>1. c \in Contracts
    BY <1>6, RequestTypes DEF CompleteDocument, SignerSteps, Contracts
  <2>2. new \in Contract
    BY <2>1, ContractUpdates DEF Records
  <2>3. con' = [con EXCEPT ![c] = new]
    BY <1>6 DEF CompleteDocument
  <2> HIDE DEF new, c
  <2> QED
    BY <1>6, <2>1, <2>2, <2>3, DoneTypes DEF CompleteDocument
<1> QED
  BY <1>2, <1>3, <1>4, <1>5, <1>6 DEF BySigner

LEMMA OfficeTypes ==
  ASSUME TypeOK, NEW r \in Requests, OnAny(r)
  PROVE  TypeOK'
<1>1. CASE \E c \in Contracts : SignInPersonBegin(r, c) \/ DeleteBegin(r, c)
  <2>1. PICK c \in Contracts : SignInPersonBegin(r, c) \/ DeleteBegin(r, c)
    BY <1>1
  <2>2. [op |-> "office", con |-> c] \in Request /\ [op |-> "delete", con |-> c] \in Request
    BY DEF Request
  <2> QED
    BY <2>1, <2>2, BeginTypes DEF SignInPersonBegin, DeleteBegin
<1>2. CASE SignInPersonCommit(r) \/ DeleteCommit(r)
  <2>1. req[r].con \in Contracts
    BY <1>2, RequestTypes DEF SignInPersonCommit, DeleteCommit
  <2> QED
    BY <1>2, <2>1, ContractUpdates, DoneTypes
    DEF SignInPersonCommit, DeleteCommit, Records
<1> QED
  BY <1>1, <1>2 DEF OnAny

LEMMA TypeStep ==
  ASSUME TypeOK, [Next]_vars
  PROVE  TypeOK'
<1>1. CASE \E r \in Requests : OnLetter(r) \/ ByStaff(r) \/ BySigner(r) \/ OnAny(r)
  BY <1>1, LetterTypes, StaffTypes, BySignerTypes, OfficeTypes
<1>2. CASE \E c \in Contracts : CreateDocument(c)
  <2>1. [status |-> "Draft", by |-> "nobody"] \in Contract
    BY DEF Contract, Records
  <2> QED
    BY <1>2, <2>1 DEF CreateDocument, TypeOK, history
<1>3. CASE \E c \in Contracts : VoidContract(c)
  BY <1>3, ContractUpdates DEF VoidContract, TypeOK, history
<1>4. CASE Restart \/ \E r \in Requests : Throw(r)
  BY <1>4 DEF Restart, Throw, Done, LeftOpen, TypeOK, Request
<1>5. CASE UNCHANGED vars
  BY <1>5 DEF vars, history, TypeOK
<1> QED
  BY <1>1, <1>2, <1>3, <1>4, <1>5 DEF Next

\* Every reachable state is well typed: what a handler carries fits the
\* statement it is at, and a row is never written with what is not a row.
THEOREM TypeCorrect == Spec => []TypeOK
<1>1. Init => TypeOK
  BY DEF Init, TypeOK, NoContract, Contract, Records, Signer, Request
<1>2. TypeOK /\ [Next]_vars => TypeOK'
  BY TypeStep
<1> QED
  BY <1>1, <1>2, PTL DEF Spec

-----------------------------------------------------------------------------
(***************************************************************************)
(* What a step does to one contract                                        *)
(***************************************************************************)
LEMMA Disjoint == \A c \in Documents : c \notin Letters /\ c \in Contracts
  BY ContractsAssumption DEF Contracts

Overwriting == {"send", "sendLetter", "office", "delete"}

\* A contract that a step changes was none, or is voided, or is written by a
\* handler that leaves.
ContractMoves(c) ==
  \/ con'[c] = con[c]
  \/ con[c] = NoContract /\ con'[c] = [status |-> "Draft", by |-> "nobody"]
  \/ Exists(c) /\ con'[c] = [status |-> "Void", by |-> con[c].by]
  \/ \E r \in Requests :
       /\ req[r].con = c /\ req'[r] = Idle /\ Exists(c)
       /\ \/ /\ req[r].op \in Overwriting
             /\ \/ con'[c].status = "Signed" /\ con'[c].by = "office"
                \/ con'[c].status = "Deleted" /\ con'[c].by = con[c].by
                \/ /\ con'[c].status = "Sent" /\ con'[c].by = con[c].by
                   /\ c \in Letters \/ SendCommit(r)
          \/ /\ req[r].op = "signLetter" /\ c \in Letters /\ Open(c)
             /\ con'[c] = [status |-> "Signed", by |-> r]
          \/ /\ req[r].op = "cancelled" /\ con[c].status = "Sent"
             /\ con'[c] = [status |-> "Draft", by |-> con[c].by]
          \/ /\ req[r].op = "counted" /\ c \in Documents /\ con[c].status # "Void"
             /\ con'[c] = [status |-> "Signed", by |-> "everyone"]

LEMMA Writes ==
  ASSUME TypeOK, NEW r \in Requests, NEW new, NEW d \in Contracts,
         req[r].con = d, Done(r), con' = [con EXCEPT ![d] = new],
         \/ new = con[d]
         \/ /\ Exists(d)
            /\ \/ /\ req[r].op \in Overwriting
                  /\ \/ new.status = "Signed" /\ new.by = "office"
                     \/ new.status = "Deleted" /\ new.by = con[d].by
                     \/ /\ new.status = "Sent" /\ new.by = con[d].by
                        /\ d \in Letters \/ SendCommit(r)
               \/ /\ req[r].op = "signLetter" /\ d \in Letters /\ Open(d)
                  /\ new = [status |-> "Signed", by |-> r]
               \/ /\ req[r].op = "cancelled" /\ con[d].status = "Sent"
                  /\ new = [status |-> "Draft", by |-> con[d].by]
               \/ /\ req[r].op = "counted" /\ d \in Documents /\ con[d].status # "Void"
                  /\ new = [status |-> "Signed", by |-> "everyone"]
  PROVE  \A c \in Contracts : ContractMoves(c)
<1>1. con'[d] = new /\ req'[r] = Idle /\ \A c \in Contracts \ {d} : con'[c] = con[c]
  BY DEF TypeOK, Done
<1> QED
  BY <1>1 DEF ContractMoves

LEMMA EveryContractMoves ==
  ASSUME TypeOK, [Next]_vars
  PROVE  \A c \in Contracts : ContractMoves(c)
<1>1. ASSUME NEW r \in Requests, OnLetter(r), con' # con
      PROVE  \A c \in Contracts : ContractMoves(c)
  <2>1. CASE GenerateCommit(r)
    BY <2>1 DEF GenerateCommit, ContractMoves, TypeOK, Contracts
  <2>2. CASE SendLetterCommit(r)
    <3> DEFINE c == req[r].con
               new == WithStatus(c, "Sent")
    <3>1. c \in Contracts /\ c \in Letters /\ req[r].op \in Overwriting
      BY <2>2, RequestTypes DEF SendLetterCommit, LetterSteps, Contracts, Overwriting
    <3>2. new = con[c] \/ (Exists(c) /\ new.status = "Sent" /\ new.by = con[c].by)
      BY <3>1, ContractUpdates
    <3>3. con' = [con EXCEPT ![c] = new] /\ Done(r)
      BY <2>2 DEF SendLetterCommit
    <3> HIDE DEF new, c
    <3>4. req[r].con = c
      BY DEF c
    <3> QED
      BY <3>1, <3>2, <3>3, <3>4, Writes
  <2>3. CASE SignLetterCommit(r)
    <3> DEFINE c == req[r].con
               new == IF LetterClaimable(c) THEN SignedBy(c, r) ELSE con[c]
    <3>1. c \in Letters /\ c \in Contracts
      BY <2>3, RequestTypes DEF SignLetterCommit, LetterSteps, Contracts
    <3>2. new = con[c] \/ (Open(c) /\ new = [status |-> "Signed", by |-> r])
      BY DEF LetterClaimable, SignedBy, Open
    <3>3. con' = [con EXCEPT ![c] = new] /\ Done(r) /\ req[r].op = "signLetter"
      BY <2>3 DEF SignLetterCommit
    <3>4. Open(c) => Exists(c)
      BY DEF Open
    <3> HIDE DEF new, c
    <3>5. req[r].con = c
      BY DEF c
    <3> QED
      BY <3>1, <3>2, <3>3, <3>4, <3>5, Writes
  <2> QED
    BY <1>1, <2>1, <2>2, <2>3
    DEF OnLetter, GenerateBegin, SendLetterBegin, SignLetterBegin
<1>2. ASSUME NEW r \in Requests, ByStaff(r), con' # con
      PROVE  \A c \in Contracts : ContractMoves(c)
  <2>1. CASE SendCommit(r)
    <3> DEFINE c == req[r].con
               new == WithStatus(c, "Sent")
    <3>1. c \in Contracts /\ req[r].op \in Overwriting
      BY <2>1, RequestTypes DEF SendCommit, StaffSteps, Contracts, Overwriting
    <3>2. new = con[c] \/ (Exists(c) /\ new.status = "Sent" /\ new.by = con[c].by)
      BY <3>1, ContractUpdates
    <3>3. con' = [con EXCEPT ![c] = new] /\ Done(r)
      BY <2>1 DEF SendCommit
    <3> HIDE DEF new, c
    <3>4. req[r].con = c
      BY DEF c
    <3> QED
      BY <2>1, <3>1, <3>2, <3>3, <3>4, Writes
  <2>2. CASE CancelContract(r)
    <3> DEFINE c == req[r].con
               new == IF con[c].status = "Sent" THEN WithStatus(c, "Draft") ELSE con[c]
    <3>1. c \in Contracts /\ req[r].op = "cancelled"
      BY <2>2, RequestTypes DEF CancelContract, StaffSteps, Contracts
    <3>2. \/ new = con[c]
          \/ /\ con[c].status = "Sent" /\ Exists(c)
             /\ new = [status |-> "Draft", by |-> con[c].by]
      BY <3>1, ContractUpdates DEF Exists
    <3>3. con' = [con EXCEPT ![c] = new] /\ Done(r)
      BY <2>2 DEF CancelContract
    <3> HIDE DEF new, c
    <3>4. req[r].con = c
      BY DEF c
    <3> QED
      BY <3>1, <3>2, <3>3, <3>4, Writes
  <2> QED
    BY <1>2, <2>1, <2>2 DEF ByStaff, SendBegin, CancelBegin, CancelSigners
<1>3. ASSUME NEW r \in Requests, BySigner(r), con' # con
      PROVE  \A c \in Contracts : ContractMoves(c)
  <2>1. CompleteDocument(r)
    BY <1>3 DEF BySigner, SignBegin, DeclineBegin, SignClaim, Decline, DecideRefuse,
                CountSignatures
  <2> DEFINE c == req[r].con
             new == IF Completable(c) THEN SignedBy(c, "everyone") ELSE con[c]
  <2>2. c \in Contracts /\ c \in Documents /\ req[r].op = "counted"
    BY <2>1, RequestTypes DEF CompleteDocument, SignerSteps, Contracts
  <2>3. \/ new = con[c]
        \/ /\ con[c].status # "Void" /\ Exists(c)
           /\ new = [status |-> "Signed", by |-> "everyone"]
    BY DEF Completable, SignedBy
  <2>4. con' = [con EXCEPT ![c] = new] /\ Done(r)
    BY <2>1 DEF CompleteDocument
  <2> HIDE DEF new, c
  <2>5. req[r].con = c
    BY DEF c
  <2> QED
    BY <2>2, <2>3, <2>4, <2>5, Writes
<1>4. ASSUME NEW r \in Requests, OnAny(r), con' # con
      PROVE  \A c \in Contracts : ContractMoves(c)
  <2>1. CASE SignInPersonCommit(r)
    <3>1. req[r].con \in Contracts /\ req[r].op \in Overwriting
      BY <2>1, RequestTypes DEF SignInPersonCommit, Overwriting
    <3>2. \/ SignedBy(req[r].con, "office") = con[req[r].con]
          \/ /\ Exists(req[r].con)
             /\ SignedBy(req[r].con, "office").status = "Signed"
             /\ SignedBy(req[r].con, "office").by = "office"
      BY DEF SignedBy
    <3> QED
      BY <2>1, <3>1, <3>2, Writes DEF SignInPersonCommit
  <2>2. CASE DeleteCommit(r)
    <3>1. req[r].con \in Contracts /\ req[r].op \in Overwriting
      BY <2>2, RequestTypes DEF DeleteCommit, Overwriting
    <3> QED
      BY <2>2, <3>1, ContractUpdates, Writes DEF DeleteCommit
  <2> QED
    BY <1>4, <2>1, <2>2 DEF OnAny, SignInPersonBegin, DeleteBegin
<1>5. CASE \E c \in Contracts : CreateDocument(c) \/ VoidContract(c)
  BY <1>5, ContractUpdates DEF CreateDocument, VoidContract, ContractMoves, TypeOK
<1>6. CASE con' = con
  BY <1>6 DEF ContractMoves
<1> QED
  BY <1>1, <1>2, <1>3, <1>4, <1>5, <1>6 DEF Next, Restart, Throw, vars

-----------------------------------------------------------------------------
\* However signatures, cancellations and paper signatures interleave, only a
\* send, a paper signature or a deletion in flight writes over a void contract.
THEOREM VoidIsFinal == Spec => VoidStands
<1> DEFINE Kept == \A c \in Contracts : con[c].status = "Void" /\ con'[c].status # "Void" =>
      \E r \in Requests : /\ req[r].op \in {"send", "sendLetter", "office", "delete"}
                          /\ req[r].con = c /\ req'[r] = Idle
<1>1. TypeOK /\ [Next]_vars => Kept
  <2> SUFFICES ASSUME TypeOK, [Next]_vars,
                      NEW c \in Contracts, con[c].status = "Void", con'[c].status # "Void"
               PROVE  \E r \in Requests :
                        /\ req[r].op \in {"send", "sendLetter", "office", "delete"}
                        /\ req[r].con = c /\ req'[r] = Idle
    OBVIOUS
  <2>1. ContractMoves(c)
    BY EveryContractMoves
  <2> QED
    BY <2>1 DEF ContractMoves, NoContract, Overwriting, Open
<1> QED
  BY <1>1, TypeCorrect, PTL DEF Spec, VoidStands

\* What a step does to the row of a signer who has decided.
LEMMA DecidedStays ==
  ASSUME TypeOK, [Next]_vars, NEW s \in Signers, sgn[s].status \in Decided
  PROVE  sgn'[s].status \in {sgn[s].status, "Deleted"}
<1>1. sgn[s] # NoSigner /\ sgn[s].status # "Sent" /\ s \in Signers
  BY DEF Decided, NoSigner
<1>2. CASE \E r \in Requests : SendCommit(r)
  <2>1. PICK r \in Requests : SendCommit(r)
    BY <1>2
  <2>2. sgn'[s] \in {[sgn[s] EXCEPT !.status = "Deleted"], sgn[s]}
    BY <1>1, <2>1 DEF SendCommit
  <2> QED
    BY <1>1, <2>2, SignerUpdates DEF SignerStatus
<1>3. CASE \E r \in Requests : CancelSigners(r)
  BY <1>1, <1>3 DEF CancelSigners
<1>4. CASE \E r \in Requests : SignClaim(r) \/ Decline(r)
  <2>1. PICK r \in Requests : SignClaim(r) \/ Decline(r)
    BY <1>4
  <2>2. req[r].sgn # s
    BY <1>1, <2>1 DEF SignClaim, Decline, Waiting
  <2> QED
    BY <2>1, <2>2 DEF SignClaim, Decline, TypeOK
<1>5. CASE UNCHANGED sgn
  BY <1>5
<1> QED
  BY <1>2, <1>3, <1>4, <1>5
  DEF Next, vars, OnLetter, ByStaff, BySigner, OnAny, GenerateBegin, GenerateCommit,
      SendLetterBegin, SendLetterCommit, SignLetterBegin, SignLetterCommit, SendBegin,
      CancelBegin, CancelContract, SignBegin, DeclineBegin, DecideRefuse,
      CountSignatures, CompleteDocument, SignInPersonBegin, SignInPersonCommit,
      DeleteBegin, DeleteCommit, CreateDocument, VoidContract, Throw, Restart

\* A signer decides once, and no second submission on the link of a letter
\* writes over the record of the first, for any number of them at once.
THEOREM SignedOnce == Spec => SignatureWrittenOnce
<1>1. ASSUME TypeOK, [Next]_vars, NEW c \in Letters, con[c].status = "Signed"
      PROVE  con'[c].by \in {con[c].by, "office"}
  <2>1. ContractMoves(c) /\ c \notin Documents
    BY <1>1, EveryContractMoves, Disjoint DEF Contracts
  <2> QED
    BY <1>1, <2>1 DEF ContractMoves, NoContract, Open
<1>2. TypeOK /\ [Next]_vars =>
        /\ \A s \in Signers : sgn[s].status \in Decided =>
             sgn'[s].status \in {sgn[s].status, "Deleted"}
        /\ \A c \in Letters : con[c].status = "Signed" =>
             con'[c].by \in {con[c].by, "office"}
  BY <1>1, DecidedStays
<1> QED
  BY <1>2, TypeCorrect, PTL DEF Spec, SignatureWrittenOnce

-----------------------------------------------------------------------------
(***************************************************************************)
(* What a step does to one request, and to the signers                     *)
(***************************************************************************)
RequestMoves(r) ==
  \/ req'[r] = req[r]
  \/ /\ req'[r] = Idle
     /\ \/ req[r].op \notin {"signed", "counted"}
        \/ req[r].op = "signed" /\ ~EveryoneSigned(req[r].con)
        \/ CompleteDocument(r)
        \/ Restart \/ Throw(r)
  \/ req[r] = Idle /\ req'[r].op \in LetterSteps \cup {"office", "delete"}
  \/ req[r] = Idle /\ req'[r].op \in {"send", "cancel"} /\ Exists(req'[r].con)
  \/ /\ req[r] = Idle
     /\ req'[r].op \in {"sign", "decline"} /\ req'[r].sgn \in Signers
     /\ Live(req'[r].sgn) /\ req'[r].con = sgn[req'[r].sgn].con
  \/ req[r].op = "cancel" /\ req'[r].op = "cancelled" /\ req'[r].con = req[r].con
  \/ /\ SignClaim(r)
     /\ req'[r].op = "signed" /\ req'[r].con = req[r].con /\ req'[r].sgn = req[r].sgn
  \/ /\ req[r].op = "signed" /\ EveryoneSigned(req[r].con)
     /\ req'[r].op = "counted" /\ req'[r].con = req[r].con /\ req'[r].sgn = req[r].sgn

\* Each step of a handler changes only its own request.
LEMMA OneRequest ==
  ASSUME TypeOK, NEW r \in Requests, NEW q \in Requests,
         \/ \E new : req' = [req EXCEPT ![r] = new]
         \/ req' = req,
         RequestMoves(r)
  PROVE  RequestMoves(q)
  BY DEF TypeOK, RequestMoves

LEMMA Began ==
  ASSUME TypeOK, NEW r \in Requests, NEW step, Begin(r, step)
  PROVE  req'[r] = step /\ req[r] = Idle /\ \E new : req' = [req EXCEPT ![r] = new]
  BY DEF Begin, TypeOK

PlainSteps == {"generate", "sendLetter", "signLetter", "office", "delete"}

LEMMA LetterMoves ==
  ASSUME TypeOK, NEW r \in Requests, OnLetter(r) \/ OnAny(r)
  PROVE  \A q \in Requests : RequestMoves(q)
<1>1. \/ \E op \in PlainSteps, c \in Contracts :
           Begin(r, [op |-> op, con |-> c])
      \/ Done(r) /\ req[r].op \in PlainSteps
  BY DEF OnLetter, OnAny, GenerateBegin, GenerateCommit, SendLetterBegin,
         SendLetterCommit, SignLetterBegin, SignLetterCommit, SignInPersonBegin,
         SignInPersonCommit, DeleteBegin, DeleteCommit, Contracts, PlainSteps
<1>2. CASE \E op \in PlainSteps, c \in Contracts :
             Begin(r, [op |-> op, con |-> c])
  <2>1. PICK op \in PlainSteps, c \in Contracts :
               Begin(r, [op |-> op, con |-> c])
    BY <1>2
  <2>2. RequestMoves(r)
    BY <2>1, Began DEF RequestMoves, LetterSteps, PlainSteps
  <2> QED
    BY <2>1, <2>2, Began, OneRequest
<1>3. CASE Done(r) /\ req[r].op \in PlainSteps
  <2>1. req'[r] = Idle /\ \E new : req' = [req EXCEPT ![r] = new]
    BY <1>3 DEF Done, TypeOK
  <2>2. RequestMoves(r)
    BY <1>3, <2>1 DEF RequestMoves, PlainSteps
  <2> QED
    BY <2>1, <2>2, OneRequest
<1> QED
  BY <1>1, <1>2, <1>3

LEMMA StaffMoves ==
  ASSUME TypeOK, NEW r \in Requests, ByStaff(r)
  PROVE  \A q \in Requests : RequestMoves(q)
<1>1. CASE \E c \in Documents : SendBegin(r, c) \/ CancelBegin(r, c)
  <2>1. PICK c \in Documents : SendBegin(r, c) \/ CancelBegin(r, c)
    BY <1>1
  <2>2. /\ Exists(c)
        /\ Begin(r, [op |-> "send", con |-> c]) \/ Begin(r, [op |-> "cancel", con |-> c])
    BY <2>1 DEF SendBegin, CancelBegin, Open
  <2>3. RequestMoves(r)
    BY <2>2, Began DEF RequestMoves
  <2> QED
    BY <2>2, <2>3, Began, OneRequest
<1>2. CASE SendCommit(r) \/ CancelContract(r)
  <2>1. req'[r] = Idle /\ \E new : req' = [req EXCEPT ![r] = new]
    BY <1>2 DEF SendCommit, CancelContract, Done, TypeOK
  <2>2. RequestMoves(r)
    BY <1>2, <2>1 DEF SendCommit, CancelContract, RequestMoves
  <2> QED
    BY <2>1, <2>2, OneRequest
<1>3. CASE CancelSigners(r)
  <2>1. Go(r, "cancelled") /\ req[r].op = "cancel"
    BY <1>3 DEF CancelSigners
  <2>2. req'[r].op = "cancelled" /\ req'[r].con = req[r].con
    BY <2>1, GoTypes DEF StaffSteps
  <2>3. \E new : req' = [req EXCEPT ![r] = new]
    BY <2>1 DEF Go
  <2>4. RequestMoves(r)
    BY <2>1, <2>2 DEF RequestMoves
  <2> QED
    BY <2>3, <2>4, OneRequest
<1> QED
  BY <1>1, <1>2, <1>3 DEF ByStaff

LEMMA SignerRequestMoves ==
  ASSUME TypeOK, NEW r \in Requests, BySigner(r)
  PROVE  \A q \in Requests : RequestMoves(q)
<1>1. CASE \E s \in Signers : SignBegin(r, s) \/ DeclineBegin(r, s)
  <2>1. PICK s \in Signers : SignBegin(r, s) \/ DeclineBegin(r, s)
    BY <1>1
  <2>2. /\ Live(s)
        /\ \E op \in {"sign", "decline"} : Begin(r, [op |-> op, con |-> sgn[s].con, sgn |-> s])
    BY <2>1 DEF SignBegin, DeclineBegin
  <2>3. RequestMoves(r)
    BY <2>2, Began DEF RequestMoves
  <2> QED
    BY <2>2, <2>3, Began, OneRequest
<1>2. CASE SignClaim(r)
  <2>1. Go(r, "signed") /\ req[r].op \in SignerSteps /\ "signed" \in SignerSteps
    BY <1>2 DEF SignClaim, SignerSteps
  <2>2. req'[r].op = "signed" /\ req'[r].con = req[r].con /\ req'[r].sgn = req[r].sgn
    BY <2>1, GoTypes
  <2>3. \E new : req' = [req EXCEPT ![r] = new]
    BY <2>1 DEF Go
  <2>4. RequestMoves(r)
    BY <1>2, <2>2 DEF RequestMoves
  <2> QED
    BY <2>3, <2>4, OneRequest
<1>3. CASE Decline(r) \/ DecideRefuse(r) \/ CompleteDocument(r)
  <2>1. req'[r] = Idle /\ \E new : req' = [req EXCEPT ![r] = new]
    BY <1>3 DEF Decline, DecideRefuse, CompleteDocument, Done, TypeOK
  <2>2. req[r].op \notin {"signed", "counted"} \/ CompleteDocument(r)
    BY <1>3 DEF Decline, DecideRefuse
  <2>3. RequestMoves(r)
    BY <2>1, <2>2 DEF RequestMoves
  <2> QED
    BY <2>1, <2>3, OneRequest
<1>4. CASE CountSignatures(r)
  <2>1. CASE EveryoneSigned(req[r].con)
    <3>1. /\ Go(r, "counted") /\ req[r].op = "signed"
          /\ req[r].op \in SignerSteps /\ "counted" \in SignerSteps
      BY <1>4, <2>1 DEF CountSignatures, SignerSteps
    <3>2. req'[r].op = "counted" /\ req'[r].con = req[r].con /\ req'[r].sgn = req[r].sgn
      BY <3>1, GoTypes
    <3>3. \E new : req' = [req EXCEPT ![r] = new]
      BY <3>1 DEF Go
    <3>4. RequestMoves(r)
      BY <2>1, <3>1, <3>2 DEF RequestMoves
    <3> QED
      BY <3>3, <3>4, OneRequest
  <2>2. CASE ~EveryoneSigned(req[r].con)
    <3>1. req'[r] = Idle /\ req[r].op = "signed" /\ \E new : req' = [req EXCEPT ![r] = new]
      BY <1>4, <2>2 DEF CountSignatures, Done, TypeOK
    <3>2. RequestMoves(r)
      BY <2>2, <3>1 DEF RequestMoves
    <3> QED
      BY <3>1, <3>2, OneRequest
  <2> QED
    BY <2>1, <2>2
<1> QED
  BY <1>1, <1>2, <1>3, <1>4 DEF BySigner

LEMMA EveryRequestMoves ==
  ASSUME TypeOK, [Next]_vars
  PROVE  \A r \in Requests : RequestMoves(r)
<1>1. CASE \E r \in Requests : OnLetter(r) \/ ByStaff(r) \/ BySigner(r) \/ OnAny(r)
  BY <1>1, LetterMoves, StaffMoves, SignerRequestMoves
<1>2. CASE Restart
  BY <1>2 DEF Restart, RequestMoves
<1>4. CASE \E r \in Requests : Throw(r)
  BY <1>4 DEF Throw, Done, TypeOK, RequestMoves
<1>3. CASE req' = req
  BY <1>3 DEF RequestMoves
<1> QED
  BY <1>1, <1>2, <1>3, <1>4 DEF Next, CreateDocument, VoidContract, vars

LEMMA SignersMove ==
  ASSUME TypeOK, [Next]_vars
  PROVE  \/ \E r \in Requests : SendCommit(r)
         \/ \E r \in Requests : CancelSigners(r)
         \/ \E r \in Requests : SignClaim(r) \/ Decline(r)
         \/ UNCHANGED <<sgn, meddled>>
  BY DEF Next, vars, OnLetter, ByStaff, BySigner, OnAny, GenerateBegin, GenerateCommit,
      SendLetterBegin, SendLetterCommit, SignLetterBegin, SignLetterCommit, SendBegin,
      CancelBegin, CancelContract, SignBegin, DeclineBegin, DecideRefuse,
      CountSignatures, CompleteDocument, SignInPersonBegin, SignInPersonCommit,
      DeleteBegin, DeleteCommit, CreateDocument, VoidContract, Throw, Restart,
      history

\* The signers of a document, as they were.
RowsKept(c) ==
  /\ SignersOf(c)' = SignersOf(c)
  /\ \A s \in SignersOf(c) : sgn'[s].status = sgn[s].status

LEMMA SendEffect ==
  ASSUME TypeOK, NEW r \in Requests, SendCommit(r)
  PROVE  /\ req[r].con \in Documents
         /\ \E people \in SUBSET Signers :
              /\ people # {}
              /\ \A s \in people : sgn[s] = NoSigner /\ sgn'[s] = [status |-> "Sent", con |-> req[r].con]
              /\ \A s \in Signers \ people :
                   IF s \in SignersOf(req[r].con)
                   THEN /\ sgn'[s].status = "Deleted" /\ sgn'[s].con = sgn[s].con
                        /\ sgn[s] # NoSigner /\ sgn'[s] # NoSigner
                   ELSE sgn'[s] = sgn[s]
<1> DEFINE c == req[r].con
<1>1. PICK people \in SUBSET {s \in Signers : sgn[s] = NoSigner} :
        /\ Cardinality(people) \in 1..MaxSigners
        /\ sgn' = [s \in Signers |->
                    IF s \in people THEN [status |-> "Sent", con |-> c]
                    ELSE IF s \in SignersOf(c) THEN [sgn[s] EXCEPT !.status = "Deleted"]
                    ELSE sgn[s]]
  BY DEF SendCommit
<1>2. people # {}
  BY <1>1, FS_EmptySet, MaxSignersAssumption
<1>3. c \in Documents
  BY RequestTypes DEF SendCommit, StaffSteps
<1>4. \A s \in SignersOf(c) :
        /\ sgn[s] # NoSigner /\ [sgn[s] EXCEPT !.status = "Deleted"] # NoSigner
        /\ [sgn[s] EXCEPT !.status = "Deleted"].status = "Deleted"
        /\ [sgn[s] EXCEPT !.status = "Deleted"].con = sgn[s].con
  BY SignerTypes, SignerUpdates DEF SignersOf, SignerStatus
<1> HIDE DEF c
<1>5. \A s \in people : sgn[s] = NoSigner /\ sgn'[s] = [status |-> "Sent", con |-> c]
  BY <1>1
<1>6. \A s \in Signers \ people :
        IF s \in SignersOf(c)
        THEN /\ sgn'[s].status = "Deleted" /\ sgn'[s].con = sgn[s].con
             /\ sgn[s] # NoSigner /\ sgn'[s] # NoSigner
        ELSE sgn'[s] = sgn[s]
  BY <1>1, <1>4
<1>7. people \in SUBSET Signers
  BY <1>1
<1> QED
  BY <1>2, <1>3, <1>5, <1>6, <1>7 DEF c

LEMMA SendRows ==
  ASSUME TypeOK, NEW r \in Requests, SendCommit(r), NEW d, d = req[r].con
  PROVE  /\ \A c \in Documents \ {d} : RowsKept(c)
         /\ SignersOf(d)' # {}
         /\ \A s \in SignersOf(d)' : sgn'[s].status = "Sent"
<1>1. PICK people \in SUBSET Signers :
        /\ people # {}
        /\ \A s \in people : sgn[s] = NoSigner /\ sgn'[s] = [status |-> "Sent", con |-> d]
        /\ \A s \in Signers \ people :
             IF s \in SignersOf(d)
             THEN /\ sgn'[s].status = "Deleted" /\ sgn'[s].con = sgn[s].con
                  /\ sgn[s] # NoSigner /\ sgn'[s] # NoSigner
             ELSE sgn'[s] = sgn[s]
  BY SendEffect
<1>2. SignersOf(d)' = people
  BY <1>1 DEF SignersOf, Live, NoSigner
<1>3. ASSUME NEW c \in Documents \ {d}
      PROVE  RowsKept(c)
  <2>1. \A s \in people : sgn[s].status = "None" /\ sgn'[s].con = d
    BY <1>1 DEF NoSigner
  <2>2. \A s \in Signers \ people :
          \/ sgn'[s] = sgn[s]
          \/ sgn'[s].status = "Deleted" /\ sgn[s].con = d
    BY <1>1 DEF SignersOf
  <2>3. SignersOf(c)' = SignersOf(c)
    BY <2>1, <2>2 DEF SignersOf, Live
  <2>4. \A s \in SignersOf(c) : sgn'[s] = sgn[s]
    BY <2>1, <2>2 DEF SignersOf, Live
  <2> QED
    BY <2>3, <2>4 DEF RowsKept
<1> QED
  BY <1>1, <1>2, <1>3

\* A row that only changed its status, to one that is shown.
LEMMA StatusRows ==
  ASSUME TypeOK, NEW changed \in SUBSET Signers,
         \A s \in changed : sgn[s].status = "Sent",
         NEW status \in {"Signed", "Declined", "Cancelled"},
         \A s \in Signers : sgn'[s] = IF s \in changed
                                      THEN [sgn[s] EXCEPT !.status = status] ELSE sgn[s]
  PROVE  /\ \A c \in Documents : SignersOf(c)' = SignersOf(c)
         /\ \A s \in changed : sgn'[s].status = status
         /\ \A s \in Signers \ changed : sgn'[s] = sgn[s]
         /\ \A s \in Signers : sgn'[s] # NoSigner <=> sgn[s] # NoSigner
         /\ \A s \in Signers : sgn[s] # NoSigner => sgn'[s].con = sgn[s].con
<1>1. \A s \in changed :
        /\ sgn[s] # NoSigner /\ Live(s) /\ sgn'[s] # NoSigner
        /\ sgn'[s].status = status /\ sgn'[s].con = sgn[s].con
  <2> SUFFICES ASSUME NEW s \in changed
               PROVE  /\ sgn[s] # NoSigner /\ Live(s) /\ sgn'[s] # NoSigner
                      /\ sgn'[s].status = status /\ sgn'[s].con = sgn[s].con
    OBVIOUS
  <2>1. s \in Signers /\ sgn[s].status = "Sent" /\ sgn'[s] = [sgn[s] EXCEPT !.status = status]
    OBVIOUS
  <2>2. sgn[s] # NoSigner /\ Live(s) /\ status \in SignerStatus
    BY <2>1, SignerTypes DEF SignerStatus
  <2> QED
    BY <2>1, <2>2, SignerUpdates
<1>2. \A s \in Signers \ changed : sgn'[s] = sgn[s]
  OBVIOUS
<1>3. \A c \in Documents : SignersOf(c)' = SignersOf(c)
  BY <1>1, <1>2 DEF SignersOf, Live
<1> QED
  BY <1>1, <1>2, <1>3

LEMMA CancelRows ==
  ASSUME TypeOK, NEW r \in Requests, CancelSigners(r), NEW d, d = req[r].con
  PROVE  /\ d \in Documents
         /\ \A c \in Documents \ {d} : RowsKept(c)
         /\ RowsKept(d) \/ /\ \E s \in SignersOf(d) : sgn[s].status = "Sent"
                           /\ \A s \in SignersOf(d)' : sgn'[s].status # "Sent"
                           /\ \E s \in SignersOf(d)' : sgn'[s].status = "Cancelled"
                           /\ Signing(d) => d \in meddled'
         /\ \A s \in Signers : sgn'[s] # NoSigner <=> sgn[s] # NoSigner
         /\ \A s \in Signers : sgn[s] # NoSigner => sgn'[s].con = sgn[s].con
<1> DEFINE open == {s \in SignersOf(d) : sgn[s].status = "Sent"}
<1>1. d \in Documents
  BY RequestTypes DEF CancelSigners, StaffSteps
<1>2. /\ sgn' = [s \in Signers |->
                  IF s \in open THEN [sgn[s] EXCEPT !.status = "Cancelled"] ELSE sgn[s]]
      /\ open # {} /\ Signing(d) => d \in meddled'
  BY DEF CancelSigners
<1>3. open \in SUBSET Signers /\ \A s \in open : sgn[s].status = "Sent" /\ sgn[s].con = d
  BY DEF SignersOf
<1>4. \A s \in SignersOf(d) \ open : sgn[s].status # "Sent"
  OBVIOUS
<1>5. open \subseteq SignersOf(d)
  OBVIOUS
<1> HIDE DEF open
<1>6. /\ \A c \in Documents : SignersOf(c)' = SignersOf(c)
      /\ \A s \in open : sgn'[s].status = "Cancelled"
      /\ \A s \in Signers \ open : sgn'[s] = sgn[s]
      /\ \A s \in Signers : sgn'[s] # NoSigner <=> sgn[s] # NoSigner
      /\ \A s \in Signers : sgn[s] # NoSigner => sgn'[s].con = sgn[s].con
  BY <1>2, <1>3, StatusRows
<1>7. \A c \in Documents \ {d} : RowsKept(c)
  BY <1>3, <1>6 DEF RowsKept, SignersOf
<1>8. CASE open = {}
  BY <1>1, <1>6, <1>7, <1>8 DEF RowsKept, SignersOf
<1>9. CASE open # {}
  <2>1. \A s \in SignersOf(d) : sgn'[s].status # "Sent"
    BY <1>4, <1>6 DEF SignersOf
  <2> QED
    BY <1>1, <1>2, <1>3, <1>5, <1>6, <1>7, <1>9, <2>1
<1> QED
  BY <1>8, <1>9

LEMMA DecideRows ==
  ASSUME TypeOK, NEW r \in Requests, SignClaim(r) \/ Decline(r),
         NEW s, s = req[r].sgn
  PROVE  /\ s \in Signers /\ sgn[s].status = "Sent" /\ Live(s)
         /\ \A c \in Documents : SignersOf(c)' = SignersOf(c)
         /\ sgn'[s].status \in {"Signed", "Declined"}
         /\ Decline(r) => sgn'[s].status = "Declined"
         /\ \A t \in Signers \ {s} : sgn'[t] = sgn[t]
         /\ \A t \in Signers : sgn'[t] # NoSigner <=> sgn[t] # NoSigner
         /\ \A t \in Signers : sgn[t] # NoSigner => sgn'[t].con = sgn[t].con
<1>1. s \in Signers /\ sgn[s].status = "Sent"
  BY RequestTypes DEF SignClaim, Decline, SignerSteps, Waiting
<1>2. PICK status \in {"Signed", "Declined"} :
        /\ sgn' = [sgn EXCEPT ![s].status = status]
        /\ Decline(r) => status = "Declined"
  <2>1. CASE Decline(r)
    BY <2>1 DEF Decline
  <2>2. CASE ~Decline(r)
    BY <2>2 DEF SignClaim
  <2> QED
    BY <2>1, <2>2
<1>3. \A t \in Signers : sgn'[t] = IF t \in {s} THEN [sgn[t] EXCEPT !.status = status] ELSE sgn[t]
  BY <1>1, <1>2 DEF TypeOK
<1>4. /\ \A c \in Documents : SignersOf(c)' = SignersOf(c)
      /\ \A t \in {s} : sgn'[t].status = status
      /\ \A t \in Signers \ {s} : sgn'[t] = sgn[t]
      /\ \A t \in Signers : sgn'[t] # NoSigner <=> sgn[t] # NoSigner
      /\ \A t \in Signers : sgn[t] # NoSigner => sgn'[t].con = sgn[t].con
  <2> DEFINE changed == {s}
  <2>1. changed \in SUBSET Signers /\ \A t \in changed : sgn[t].status = "Sent"
    BY <1>1
  <2>2. /\ \A t \in Signers : sgn'[t] = IF t \in changed
                                       THEN [sgn[t] EXCEPT !.status = status] ELSE sgn[t]
        /\ status \in {"Signed", "Declined", "Cancelled"}
    BY <1>3
  <2>3. \A t \in Signers : t \in changed <=> t = s
    OBVIOUS
  <2> HIDE DEF changed
  <2>4. /\ \A c \in Documents : SignersOf(c)' = SignersOf(c)
        /\ \A t \in changed : sgn'[t].status = status
        /\ \A t \in Signers \ changed : sgn'[t] = sgn[t]
        /\ \A t \in Signers : sgn'[t] # NoSigner <=> sgn[t] # NoSigner
        /\ \A t \in Signers : sgn[t] # NoSigner => sgn'[t].con = sgn[t].con
    BY <2>1, <2>2, StatusRows
  <2> QED
    BY <1>1, <2>3, <2>4
<1> QED
  BY <1>1, <1>2, <1>4, SignerTypes

-----------------------------------------------------------------------------
(***************************************************************************)
(* Handlers, signers and their documents                                   *)
(***************************************************************************)
\* A signer's document was created; so was the one a member of staff works on,
\* and a signer's handler works on the document of that signer.
Places ==
  /\ \A s \in Signers : sgn[s] # NoSigner => con[sgn[s].con].status # "None"
  /\ \A r \in Requests : req[r].op \in StaffSteps => con[req[r].con].status # "None"
  /\ \A r \in Requests : req[r].op \in SignerSteps =>
       sgn[req[r].sgn] # NoSigner /\ sgn[req[r].sgn].con = req[r].con

LEMMA Created ==
  ASSUME TypeOK, [Next]_vars, NEW c \in Contracts, con[c].status # "None"
  PROVE  con'[c].status # "None"
<1>1. ContractMoves(c)
  BY EveryContractMoves
<1>2. con'[c] = con[c] \/ con'[c].status # "None"
  <2>1. CASE con[c] = NoContract /\ con'[c] = [status |-> "Draft", by |-> "nobody"]
    BY <2>1
  <2>2. CASE Exists(c) /\ con'[c] = [status |-> "Void", by |-> con[c].by]
    BY <2>2
  <2>3. CASE \E record, status : /\ con'[c] = [status |-> status, by |-> record]
                                /\ status \in {"Draft", "Signed"}
    BY <2>3
  <2>4. CASE con'[c].status \in {"Sent", "Deleted", "Signed"}
    BY <2>4
  <2> QED
    BY <1>1, <2>1, <2>2, <2>3, <2>4 DEF ContractMoves
<1> QED
  BY <1>2

\* Signers stay on their document, and new ones are on one that exists.
LEMMA SignersStay ==
  ASSUME TypeOK, Places, [Next]_vars, NEW s \in Signers
  PROVE  /\ sgn[s] # NoSigner => sgn'[s] # NoSigner /\ sgn'[s].con = sgn[s].con
         /\ sgn[s] = NoSigner /\ sgn'[s] # NoSigner =>
              sgn'[s].con \in Documents /\ con[sgn'[s].con].status # "None"
<1>1. CASE \E r \in Requests : SendCommit(r)
  <2>1. PICK r \in Requests : SendCommit(r)
    BY <1>1
  <2>2. con[req[r].con].status # "None" /\ req[r].con \in Documents
    BY <2>1, RequestTypes DEF Places, SendCommit, StaffSteps
  <2>3. PICK people \in SUBSET Signers :
          /\ \A t \in people : sgn[t] = NoSigner /\ sgn'[t] = [status |-> "Sent", con |-> req[r].con]
          /\ \A t \in Signers \ people :
               IF t \in SignersOf(req[r].con)
               THEN /\ sgn'[t].status = "Deleted" /\ sgn'[t].con = sgn[t].con
                    /\ sgn[t] # NoSigner /\ sgn'[t] # NoSigner
               ELSE sgn'[t] = sgn[t]
    BY <2>1, SendEffect
  <2> QED
    BY <2>2, <2>3
<1>2. CASE \E r \in Requests : CancelSigners(r)
  BY <1>2, CancelRows
<1>3. CASE \E r \in Requests : SignClaim(r) \/ Decline(r)
  BY <1>3, DecideRows
<1>4. CASE UNCHANGED <<sgn, meddled>>
  BY <1>4
<1> QED
  BY <1>1, <1>2, <1>3, <1>4, SignersMove

LEMMA PlacesStep ==
  ASSUME TypeOK, Places, [Next]_vars
  PROVE  Places'
<1>1. ASSUME NEW s \in Signers, sgn'[s] # NoSigner
      PROVE  con'[sgn'[s].con].status # "None"
  <2>1. sgn'[s].con \in Documents /\ con[sgn'[s].con].status # "None"
    BY <1>1, SignersStay, SignerTypes DEF Places
  <2> QED
    BY <2>1, Created, Disjoint
<1>2. ASSUME NEW r \in Requests, req'[r].op \in StaffSteps
      PROVE  con'[req'[r].con].status # "None"
  <2>1. req'[r].con \in Documents
    BY <1>2, TypeStep, RequestTypes DEF TypeOK, Request, Idle, LetterSteps, StaffSteps, SignerSteps
  <2>2. con[req'[r].con].status # "None"
    BY <1>2, EveryRequestMoves
    DEF RequestMoves, Places, Idle, LetterSteps, StaffSteps, SignerSteps, Exists
  <2> QED
    BY <2>1, <2>2, Created, Disjoint
<1>3. ASSUME NEW r \in Requests, req'[r].op \in SignerSteps
      PROVE  sgn'[req'[r].sgn] # NoSigner /\ sgn'[req'[r].sgn].con = req'[r].con
  <2>1. req'[r].sgn \in Signers
    BY <1>3, TypeStep DEF TypeOK, Request, Idle, LetterSteps, StaffSteps, SignerSteps
  <2>2. SignClaim(r) => req[r].op = "sign"
    BY DEF SignClaim
  <2>3. sgn[req'[r].sgn] # NoSigner /\ sgn[req'[r].sgn].con = req'[r].con
    BY <1>3, <2>1, <2>2, EveryRequestMoves
    DEF RequestMoves, Places, Idle, LetterSteps, StaffSteps, SignerSteps, Live, NoSigner
  <2> QED
    BY <2>1, <2>3, SignersStay
<1> QED
  BY <1>1, <1>2, <1>3 DEF Places

-----------------------------------------------------------------------------
(***************************************************************************)
(* Nobody is skipped                                                       *)
(***************************************************************************)
Complete(c) ==
  /\ \E s \in SignersOf(c) : sgn[s].status = "Signed"
  /\ \A s \in SignersOf(c) : sgn[s].status = "Signed"

\* A cancellation leaves nobody waiting, and new signers all wait.
OneRound(c) == \A s, t \in SignersOf(c) :
  sgn[s].status = "Sent" => sgn[t].status # "Cancelled"

\* While a signature is being counted nobody was cancelled; once the count came
\* out right the document bears every signature.
Counting(c) == c \notin meddled =>
  /\ Signing(c) => \A s \in SignersOf(c) : sgn[s].status # "Cancelled"
  /\ (\E r \in Requests : req[r].op = "counted" /\ req[r].con = c) => Complete(c)
  /\ con[c] = [status |-> "Signed", by |-> "everyone"] => Complete(c)

Tally == \A c \in Documents : OneRound(c) /\ Counting(c)

\* Nothing but a count turns a document into one that its signers completed.
LEMMA Completion ==
  ASSUME TypeOK, [Next]_vars, NEW c \in Documents,
         con'[c] = [status |-> "Signed", by |-> "everyone"]
  PROVE  \/ con[c] = con'[c]
         \/ \E r \in Requests : req[r].op = "counted" /\ req[r].con = c
<1>1. ContractMoves(c) /\ c \notin Letters
  BY EveryContractMoves, Disjoint
<1>2. con'[c].status = "Signed" /\ con'[c].by = "everyone"
  OBVIOUS
<1>3. CASE con[c] = NoContract /\ con'[c] = [status |-> "Draft", by |-> "nobody"]
  BY <1>2, <1>3
<1>4. CASE Exists(c) /\ con'[c] = [status |-> "Void", by |-> con[c].by]
  BY <1>2, <1>4
<1>5. CASE \E record : con'[c] = [status |-> "Draft", by |-> record]
  BY <1>2, <1>5
<1>6. CASE con'[c].by = "office" \/ con'[c].status \in {"Sent", "Deleted"}
  BY <1>2, <1>6
<1> QED
  BY <1>1, <1>3, <1>4, <1>5, <1>6 DEF ContractMoves

LEMMA RequestsOf ==
  ASSUME TypeOK, [Next]_vars, NEW r \in Requests, NEW c
  PROVE  /\ req'[r].op = "signed" /\ req'[r].con = c =>
              \/ req[r].op = "signed" /\ req[r].con = c
              \/ SignClaim(r) /\ req[r].con = c
         /\ req'[r].op = "counted" /\ req'[r].con = c =>
              \/ req[r].op = "counted" /\ req[r].con = c
              \/ req[r].op = "signed" /\ req[r].con = c /\ EveryoneSigned(c)
<1>1. RequestMoves(r)
  BY EveryRequestMoves
<1> QED
  BY <1>1 DEF RequestMoves, Idle, LetterSteps

\* As long as the signers of a document stay as they are, and no signature on
\* it begins to be counted, its tally stands.
LEMMA TallyKept ==
  ASSUME TypeOK, Tally, [Next]_vars, NEW c \in Documents, RowsKept(c),
         c \in meddled => c \in meddled',
         \A r \in Requests : SignClaim(r) => req[r].con # c
  PROVE  OneRound(c)' /\ Counting(c)'
<1>1. /\ SignersOf(c)' = SignersOf(c)
      /\ \A s \in SignersOf(c) : sgn'[s].status = sgn[s].status
  BY DEF RowsKept
<1>2. OneRound(c) /\ Counting(c)
  BY DEF Tally
<1>3. Complete(c) => Complete(c)'
  BY <1>1 DEF Complete
<1>4. OneRound(c)'
  BY <1>1, <1>2 DEF OneRound
<1>5. ASSUME c \notin meddled', Signing(c)'
      PROVE  \A s \in SignersOf(c)' : sgn'[s].status # "Cancelled"
  <2>1. Signing(c)
    BY <1>5, RequestsOf DEF Signing
  <2> QED
    BY <1>1, <1>2, <1>5, <2>1 DEF Counting
<1>6. ASSUME c \notin meddled', NEW r \in Requests, req'[r].op = "counted", req'[r].con = c
      PROVE  Complete(c)'
  <2>1. CASE req[r].op = "counted" /\ req[r].con = c
    BY <1>2, <1>3, <1>6, <2>1 DEF Counting
  <2>2. CASE req[r].op = "signed" /\ req[r].con = c /\ EveryoneSigned(c)
    <3>1. \A s \in SignersOf(c) : sgn[s].status # "Cancelled"
      BY <1>2, <1>6, <2>2 DEF Counting, Signing
    <3>2. Complete(c)
      BY <2>2, <3>1 DEF EveryoneSigned, AskedOf, Complete
    <3> QED
      BY <1>3, <3>2
  <2> QED
    BY <1>6, <2>1, <2>2, RequestsOf
<1>7. ASSUME c \notin meddled', con'[c] = [status |-> "Signed", by |-> "everyone"]
      PROVE  Complete(c)'
  BY <1>2, <1>3, <1>7, Completion DEF Counting
<1> QED
  BY <1>4, <1>5, <1>6, <1>7 DEF Counting

LEMMA TallySend ==
  ASSUME TypeOK, Tally, [Next]_vars, NEW r \in Requests, SendCommit(r),
         NEW d, d = req[r].con
  PROVE  Tally'
<1>1. d \in Documents
  BY SendEffect
<1>2. /\ meddled' = IF \E s \in SignersOf(d) : sgn[s].status \in Decided
                    THEN meddled \cup {d} ELSE meddled
      /\ Done(r) /\ req[r].op = "send"
  BY DEF SendCommit
<1>3. /\ \A c \in Documents \ {d} : RowsKept(c)
      /\ \A s \in SignersOf(d)' : sgn'[s].status = "Sent"
  BY SendRows
<1>4. \A q \in Requests : ~SignClaim(q)
  BY <1>2 DEF SignClaim, Done, Go, TypeOK, Idle
<1>5. \A c \in Documents \ {d} : OneRound(c)' /\ Counting(c)'
  BY <1>2, <1>3, <1>4, TallyKept
<1>6. OneRound(d)'
  BY <1>3 DEF OneRound
<1>7. d \notin meddled' => ~Complete(d) /\ d \notin meddled
  BY <1>2 DEF Complete, Decided
<1>8. ASSUME d \notin meddled', NEW q \in Requests, req'[q].op = "counted", req'[q].con = d
      PROVE  FALSE
  <2>1. req[q].op = "counted" /\ req[q].con = d
    BY <1>2, <1>8 DEF Done, TypeOK, Idle
  <2> QED
    BY <1>1, <1>7, <1>8, <2>1 DEF Tally, Counting
<1>9. ASSUME d \notin meddled', con'[d] = [status |-> "Signed", by |-> "everyone"]
      PROVE  FALSE
  BY <1>1, <1>7, <1>9, Completion DEF Tally, Counting
<1>10. Counting(d)'
  BY <1>3, <1>8, <1>9 DEF Counting
<1> QED
  BY <1>5, <1>6, <1>10 DEF Tally

LEMMA TallyCancel ==
  ASSUME TypeOK, Tally, [Next]_vars, NEW r \in Requests, CancelSigners(r),
         NEW d, d = req[r].con
  PROVE  Tally'
<1>1. /\ meddled \subseteq meddled' /\ Go(r, "cancelled") /\ req[r].op = "cancel"
      /\ con' = con
  BY DEF CancelSigners
<1>2. /\ d \in Documents
      /\ \A c \in Documents \ {d} : RowsKept(c)
      /\ RowsKept(d) \/ /\ \E s \in SignersOf(d) : sgn[s].status = "Sent"
                        /\ \A s \in SignersOf(d)' : sgn'[s].status # "Sent"
                        /\ \E s \in SignersOf(d)' : sgn'[s].status = "Cancelled"
                        /\ Signing(d) => d \in meddled'
  BY CancelRows
<1>3. /\ req'[r].op = "cancelled" /\ req[r].op \in StaffSteps
      /\ \A q \in Requests \ {r} : req'[q] = req[q]
  BY <1>1, GoTypes DEF StaffSteps
<1>4. \A q \in Requests : ~SignClaim(q)
  <2> SUFFICES ASSUME NEW q \in Requests, SignClaim(q) PROVE FALSE
    OBVIOUS
  <2>1. req[q].op = "sign" /\ Go(q, "signed") /\ "signed" \in SignerSteps /\ "sign" \in SignerSteps
    BY DEF SignClaim, SignerSteps
  <2>2. req'[q].op = "signed"
    BY <2>1, GoTypes
  <2> QED
    BY <1>1, <1>3, <2>1, <2>2
<1>5. \A c \in Documents : RowsKept(c) => OneRound(c)' /\ Counting(c)'
  BY <1>1, <1>4, TallyKept
<1>6. ASSUME ~RowsKept(d)
      PROVE  OneRound(d)' /\ Counting(d)'
  <2>1. OneRound(d)'
    BY <1>2, <1>6 DEF OneRound
  <2>2. ~Complete(d)
    BY <1>2, <1>6 DEF Complete
  <2>3. Signing(d)' => d \in meddled'
    BY <1>2, <1>3, <1>6 DEF Signing
  <2>4. ASSUME d \notin meddled', NEW q \in Requests, req'[q].op = "counted", req'[q].con = d
        PROVE  FALSE
    <3>1. req[q].op = "counted" /\ req[q].con = d
      BY <1>3, <2>4
    <3> QED
      BY <1>1, <1>2, <2>2, <2>4, <3>1 DEF Tally, Counting
  <2>5. ASSUME d \notin meddled', con'[d] = [status |-> "Signed", by |-> "everyone"]
        PROVE  FALSE
    BY <1>1, <1>2, <2>2, <2>5 DEF Tally, Counting
  <2>6. Counting(d)'
    BY <2>3, <2>4, <2>5 DEF Counting
  <2> QED
    BY <2>1, <2>6
<1> QED
  BY <1>2, <1>5, <1>6 DEF Tally

LEMMA TallyDecide ==
  ASSUME TypeOK, Places, Tally, [Next]_vars, NEW r \in Requests, SignClaim(r) \/ Decline(r),
         NEW s, s = req[r].sgn, NEW d, d = req[r].con
  PROVE  Tally'
<1>1. meddled' = meddled /\ con' = con
  BY DEF SignClaim, Decline, history
<1>2. req[r].op \in SignerSteps /\ "signed" \in SignerSteps
  BY DEF SignClaim, Decline, SignerSteps
<1>3. d \in Documents /\ sgn[s].con = d
  BY <1>2, RequestTypes DEF Places
<1>4. \A q \in Requests \ {r} : req'[q] = req[q]
  BY <1>2, GoTypes DEF SignClaim, Decline, Done, TypeOK
<1>5. /\ s \in Signers /\ sgn[s].status = "Sent" /\ Live(s)
      /\ \A c \in Documents : SignersOf(c)' = SignersOf(c)
      /\ sgn'[s].status \in {"Signed", "Declined"}
      /\ \A t \in Signers \ {s} : sgn'[t] = sgn[t]
  BY DecideRows
<1>6. s \in SignersOf(d)
  BY <1>3, <1>5 DEF SignersOf
<1>7. \A c \in Documents \ {d} : RowsKept(c)
  BY <1>3, <1>5 DEF RowsKept, SignersOf
<1>8. \A q \in Requests : SignClaim(q) => req[q].con = d
  <2> SUFFICES ASSUME NEW q \in Requests, SignClaim(q), q # r PROVE FALSE
    OBVIOUS
  <2>1. req[q].op = "sign" /\ Go(q, "signed") /\ "signed" \in SignerSteps /\ "sign" \in SignerSteps
    BY DEF SignClaim, SignerSteps
  <2>2. req'[q].op = "signed"
    BY <2>1, GoTypes
  <2> QED
    BY <1>4, <2>1, <2>2
<1>9. \A c \in Documents \ {d} : OneRound(c)' /\ Counting(c)'
  BY <1>1, <1>7, <1>8, TallyKept
<1>10. ~Complete(d) /\ OneRound(d) /\ Counting(d)
  BY <1>3, <1>5, <1>6 DEF Complete, Tally
<1>11. \A t \in SignersOf(d) : sgn[t].status # "Cancelled"
  BY <1>5, <1>6, <1>10 DEF OneRound
<1>12. \A t \in SignersOf(d)' : sgn'[t].status # "Cancelled"
  BY <1>3, <1>5, <1>11 DEF SignersOf
<1>13. OneRound(d)'
  BY <1>12 DEF OneRound
<1>14. ASSUME d \notin meddled, NEW q \in Requests, req'[q].op = "counted", req'[q].con = d
       PROVE  FALSE
  <2>1. (req[q].op = "counted" /\ req[q].con = d) \/ EveryoneSigned(d)
    BY <1>14, RequestsOf
  <2>2. ~EveryoneSigned(d)
    BY <1>5, <1>6 DEF EveryoneSigned, AskedOf
  <2> QED
    BY <1>10, <1>14, <2>1, <2>2 DEF Counting
<1>15. Counting(d)'
  BY <1>1, <1>10, <1>12, <1>14 DEF Counting
<1> QED
  BY <1>9, <1>13, <1>15 DEF Tally

LEMMA TallyStep ==
  ASSUME TypeOK, Places, Tally, [Next]_vars
  PROVE  Tally'
<1>1. CASE \E r \in Requests : SendCommit(r)
  BY <1>1, TallySend
<1>2. CASE \E r \in Requests : CancelSigners(r)
  BY <1>2, TallyCancel
<1>3. CASE \E r \in Requests : SignClaim(r) \/ Decline(r)
  BY <1>3, TallyDecide
<1>4. CASE UNCHANGED <<sgn, meddled>> /\ ~\E r \in Requests : SignClaim(r)
  <2>1. \A c \in Documents : RowsKept(c)
    BY <1>4 DEF RowsKept, SignersOf, Live
  <2> QED
    BY <1>4, <2>1, TallyKept DEF Tally
<1> QED
  BY <1>1, <1>2, <1>3, <1>4, SignersMove

\* Whatever two signers and the office do at once, a document that its signers
\* completed bears all their signatures, unless staff meddled with a signature
\* that was being written.
THEOREM EveryoneWasAsked == Spec => []NobodySkipped
<1> DEFINE Inv == TypeOK /\ Places /\ Tally
<1>1. Init => Inv
  BY DEF Init, TypeOK, Places, Tally, OneRound, Counting, Signing, SignersOf, Live, Idle,
         NoContract, NoSigner, Contract, Records, Signer, Request, StaffSteps, SignerSteps,
         Contracts
<1>2. Inv /\ [Next]_vars => Inv'
  BY TypeStep, PlacesStep, TallyStep
<1>3. Inv => NobodySkipped
  <2> SUFFICES ASSUME Inv, NEW c \in Documents \ meddled,
                      con[c].status = "Signed", con[c].by = "everyone"
               PROVE  Complete(c)
    BY DEF NobodySkipped, Complete
  <2>1. con[c] \in Contract
    BY DEF TypeOK, Contracts
  <2>2. con[c] = [status |-> "Signed", by |-> "everyone"]
    BY <2>1 DEF Contract
  <2> QED
    BY <2>2 DEF Tally, Counting
<1> QED
  BY <1>1, <1>2, <1>3, PTL DEF Spec

-----------------------------------------------------------------------------
(***************************************************************************)
(* The last signature completes the document                               *)
(***************************************************************************)
Closed(c) == con[c].status \in {"Signed", "Void", "Deleted"}
Finishing(c) == \E r \in Requests : req[r].op \in {"signed", "counted"} /\ req[r].con = c
AllSigned(c) == SignersOf(c) # {} /\ \A s \in SignersOf(c) : sgn[s].status = "Signed"

\* LastSignatureCompletes, for one document.
Followed(c) == c \notin lost /\ AllSigned(c) => Closed(c) \/ Finishing(c)

LEMMA StaysClosed ==
  ASSUME TypeOK, [Next]_vars, NEW c \in Documents, Closed(c),
         \A r \in Requests : SendCommit(r) => req[r].con # c
  PROVE  Closed(c)'
<1>1. ContractMoves(c) /\ c \notin Letters
  BY EveryContractMoves, Disjoint
<1>2. CASE con'[c] = con[c]
  BY <1>2 DEF Closed
<1>3. CASE con[c] = NoContract
  BY <1>3 DEF Closed, NoContract
<1>4. CASE con'[c] = [status |-> "Void", by |-> con[c].by]
  <2>1. con'[c].status = "Void"
    BY <1>4
  <2> QED
    BY <2>1 DEF Closed
<1>5. CASE con'[c].status \in {"Signed", "Deleted"}
  BY <1>5 DEF Closed
<1>6. CASE con[c].status = "Sent"
  BY <1>6 DEF Closed
<1>7. CASE \E record : con'[c] = [status |-> "Signed", by |-> record]
  <2>1. con'[c].status = "Signed"
    BY <1>7
  <2> QED
    BY <2>1 DEF Closed
<1> QED
  BY <1>1, <1>2, <1>3, <1>4, <1>5, <1>6, <1>7 DEF ContractMoves

\* A count that ends with the document's UPDATE leaves a document that is
\* signed, or was void or gone.
LEMMA CompletionCloses ==
  ASSUME TypeOK, Places, NEW r \in Requests, CompleteDocument(r), NEW c, c = req[r].con
  PROVE  Closed(c)'
<1> DEFINE new == IF Completable(c) THEN SignedBy(c, "everyone") ELSE con[c]
<1>1. c \in Documents /\ c \in Contracts /\ con[c].status # "None"
  BY RequestTypes, SignerTypes, Disjoint DEF CompleteDocument, SignerSteps, Places
<1>2. new.status \in {"Signed", "Void", "Deleted"}
  BY <1>1 DEF Completable, SignedBy, Exists
<1>3. con' = [con EXCEPT ![c] = new]
  BY DEF CompleteDocument
<1> HIDE DEF new
<1>4. con'[c] = new
  BY <1>1, <1>3 DEF TypeOK
<1> QED
  BY <1>2, <1>4 DEF Closed

LEMMA FinishingStays ==
  ASSUME TypeOK, Places, [Next]_vars, NEW c \in Documents, Finishing(c), AllSigned(c)
  PROVE  Finishing(c)' \/ Closed(c)' \/ c \in lost'
<1>1. PICK r \in Requests : req[r].op \in {"signed", "counted"} /\ req[r].con = c
  BY DEF Finishing
<1>2. EveryoneSigned(c)
  BY DEF AllSigned, EveryoneSigned, AskedOf
<1>3. CASE Restart \/ Throw(r)
  <2>1. c \in LeftOpen({r}) /\ c \in LeftOpen(Requests)
    BY <1>1 DEF LeftOpen, AllSigned
  <2> QED
    BY <1>3, <2>1 DEF Restart, Throw
<1>4. CASE CompleteDocument(r)
  BY <1>1, <1>4, CompletionCloses
<1>5. CASE req'[r].op \in {"signed", "counted"} /\ req'[r].con = c
  BY <1>5 DEF Finishing
<1>6. RequestMoves(r)
  BY EveryRequestMoves
<1>7. ~SignClaim(r) /\ req[r] # Idle
  BY <1>1 DEF SignClaim, Idle
<1> QED
  BY <1>1, <1>2, <1>3, <1>4, <1>5, <1>6, <1>7 DEF RequestMoves, Idle

LEMMA FollowedSend ==
  ASSUME TypeOK, [Next]_vars, NEW r \in Requests, SendCommit(r), NEW d, d = req[r].con
  PROVE  Followed(d)'
<1>1. SignersOf(d)' # {} /\ \A s \in SignersOf(d)' : sgn'[s].status = "Sent"
  BY SendRows
<1> QED
  BY <1>1 DEF Followed, AllSigned

LEMMA FollowedKept ==
  ASSUME TypeOK, Places, [Next]_vars, NEW c \in Documents, Followed(c),
         AllSigned(c)' => AllSigned(c),
         \A r \in Requests : SendCommit(r) => req[r].con # c
  PROVE  Followed(c)'
<1>1. lost \subseteq lost'
  BY DEF Next, vars, OnLetter, ByStaff, BySigner, OnAny, GenerateBegin, GenerateCommit,
      SendLetterBegin, SendLetterCommit, SignLetterBegin, SignLetterCommit, SendBegin,
      SendCommit, CancelBegin, CancelSigners, CancelContract, SignBegin, DeclineBegin,
      SignClaim, Decline, DecideRefuse, CountSignatures, CompleteDocument,
      SignInPersonBegin, SignInPersonCommit, DeleteBegin, DeleteCommit, CreateDocument,
      VoidContract, Throw, Restart, history
<1>2. CASE Closed(c)
  BY <1>2, StaysClosed DEF Followed
<1>3. CASE ~Closed(c)
  <2>1. AllSigned(c) /\ c \notin lost' => Finishing(c)
    BY <1>1, <1>3 DEF Followed
  <2> QED
    BY <2>1, FinishingStays DEF Followed
<1> QED
  BY <1>2, <1>3

LEMMA FollowedStep ==
  ASSUME TypeOK, Places, [Next]_vars, NEW c \in Documents, Followed(c)
  PROVE  Followed(c)'
<1>1. CASE \E r \in Requests : SendCommit(r)
  <2>1. PICK r \in Requests : SendCommit(r)
    BY <1>1
  <2>2. CASE req[r].con = c
    BY <2>1, <2>2, FollowedSend
  <2>3. CASE req[r].con # c
    <3>1. RowsKept(c)
      BY <2>1, <2>3, SendRows
    <3>2. \A q \in Requests : SendCommit(q) => q = r
      <4> SUFFICES ASSUME NEW q \in Requests, SendCommit(q), q # r PROVE FALSE
        OBVIOUS
      <4>1. Done(q) /\ Done(r) /\ req[q].op = "send"
        BY <2>1 DEF SendCommit
      <4> QED
        BY <4>1 DEF Done, TypeOK, Idle
    <3>3. AllSigned(c)' => AllSigned(c)
      BY <3>1 DEF RowsKept, AllSigned
    <3> QED
      BY <2>3, <3>2, <3>3, FollowedKept
  <2> QED
    BY <2>2, <2>3
<1>2. CASE \E r \in Requests : CancelSigners(r)
  <2>1. PICK r \in Requests : CancelSigners(r)
    BY <1>2
  <2>2. AllSigned(c)' => AllSigned(c)
    <3>1. CASE RowsKept(c)
      BY <3>1 DEF RowsKept, AllSigned
    <3>2. CASE ~RowsKept(c)
      <4>1. \E s \in SignersOf(c)' : sgn'[s].status = "Cancelled"
        BY <2>1, <3>2, CancelRows
      <4> QED
        BY <4>1 DEF AllSigned
    <3> QED
      BY <3>1, <3>2
  <2>3. \A q \in Requests : ~SendCommit(q)
    <3> SUFFICES ASSUME NEW q \in Requests, SendCommit(q) PROVE FALSE
      OBVIOUS
    <3>1. req'[q] = Idle /\ req[q].op = "send"
      BY DEF SendCommit, Done, TypeOK
    <3>2. /\ req'[r].op = "cancelled" /\ req[r].op = "cancel"
          /\ \A p \in Requests \ {r} : req'[p] = req[p]
      BY <2>1, GoTypes DEF CancelSigners, StaffSteps
    <3> QED
      BY <3>1, <3>2 DEF Idle
  <2> QED
    BY <2>2, <2>3, FollowedKept
<1>3. CASE \E r \in Requests : SignClaim(r) \/ Decline(r)
  <2>1. PICK r \in Requests : SignClaim(r) \/ Decline(r)
    BY <1>3
  <2>2. /\ req[r].op \in {"sign", "decline"} /\ req[r].op \in SignerSteps
        /\ "signed" \in SignerSteps /\ con' = con
    BY <2>1 DEF SignClaim, Decline, SignerSteps
  <2>3. PICK s : s = req[r].sgn
    OBVIOUS
  <2>4. /\ s \in Signers /\ sgn[s].status = "Sent" /\ Live(s)
        /\ SignersOf(c)' = SignersOf(c)
        /\ Decline(r) => sgn'[s].status = "Declined"
        /\ \A t \in Signers \ {s} : sgn'[t] = sgn[t]
    BY <2>1, <2>3, DecideRows
  <2>5. sgn[s].con = req[r].con
    BY <2>2, <2>3 DEF Places
  <2>6. CASE s \notin SignersOf(c)
    <3>1. \A t \in SignersOf(c) : t \in Signers \ {s}
      BY <2>6 DEF SignersOf
    <3>2. AllSigned(c)' => AllSigned(c)
      BY <2>4, <3>1 DEF AllSigned
    <3>3. \A q \in Requests : ~SendCommit(q)
      <4> SUFFICES ASSUME NEW q \in Requests, SendCommit(q) PROVE FALSE
        OBVIOUS
      <4>1. req'[q] = Idle /\ req[q].op = "send"
        BY DEF SendCommit, Done, TypeOK
      <4>2. \A p \in Requests \ {r} : req'[p] = req[p]
        BY <2>1, <2>2, GoTypes DEF SignClaim, Decline, Done, TypeOK
      <4> QED
        BY <2>2, <4>1, <4>2 DEF Idle
    <3> QED
      BY <3>2, <3>3, FollowedKept
  <2>7. CASE s \in SignersOf(c) /\ Decline(r)
    BY <2>4, <2>7 DEF Followed, AllSigned
  <2>8. CASE s \in SignersOf(c) /\ SignClaim(r)
    <3>1. req'[r].op = "signed" /\ req'[r].con = c
      BY <2>2, <2>5, <2>8, GoTypes DEF SignClaim, SignersOf
    <3> QED
      BY <3>1 DEF Followed, Finishing
  <2> QED
    BY <2>1, <2>6, <2>7, <2>8
<1>4. CASE UNCHANGED <<sgn, meddled>> /\ ~\E r \in Requests : SendCommit(r)
  <2>1. AllSigned(c)' => AllSigned(c)
    BY <1>4 DEF AllSigned, SignersOf, Live
  <2> QED
    BY <1>4, <2>1, FollowedKept
<1> QED
  BY <1>1, <1>2, <1>3, <1>4, SignersMove

\* Whichever signer counts last, a document on which all have signed is closed
\* or about to be, unless the handlers of the last signatures were cut off.
THEOREM LastOneCompletes == Spec => []LastSignatureCompletes
<1> DEFINE Inv == TypeOK /\ Places /\ \A c \in Documents : Followed(c)
<1>1. Init => Inv
  BY DEF Init, TypeOK, Places, Followed, AllSigned, SignersOf, Live, Idle, NoContract,
         NoSigner, Contract, Records, Signer, Request, StaffSteps, SignerSteps, Contracts
<1>2. Inv /\ [Next]_vars => Inv'
  BY TypeStep, PlacesStep, FollowedStep
<1>3. Inv => LastSignatureCompletes
  BY DEF LastSignatureCompletes, Followed, AllSigned, Closed, Finishing
<1> QED
  BY <1>1, <1>2, <1>3, PTL DEF Spec
=============================================================================
