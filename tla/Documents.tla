----------------------------- MODULE Documents -----------------------------
(***************************************************************************)
(* services/document-cv-service and its two neighbours: an uploaded image  *)
(* is analysed and judged, encrypted under a key of its own, stored on     *)
(* disk and entered in document_analyses; staff uploads take their key     *)
(* from the key service of QuantumKeys; account-service then pays, or      *)
(* holds, a request that carries the document.                             *)
(*                                                                         *)
(* The handler of an upload never awaits after it has read the file, so a  *)
(* process works on one upload at a time; the key service, the database    *)
(* and crashes go on beside it.  An image is known by its perceptual       *)
(* distance to others; a feature of its analysis is 0, 1 or 2 for zero, a  *)
(* half and one.  The event document.analyzed has no consumer and is left  *)
(* out, as are pixels, text and ciphers.                                   *)
(*                                                                         *)
(* An operator marked "Mutant" is the definition below it with a plausible *)
(* bug; no specification uses it.                                          *)
(***************************************************************************)
EXTENDS QuantumKeys

CONSTANTS
  Images,
  Distance,      \* [pairs of images -> Hamming distance of their hashes]
  MaxHamming,    \* DOCUMENT_DUPLICATE_HAMMING
  SearchLimit,   \* how many rows the search for duplicates looks at
  Analyses,      \* the features an analysis may find, but for the duplicate
  Processes,     \* processes of the service
  Staff,         \* upload slots of members of staff; the others are customers'
  NoUpload,
  MaxDocuments,  \* bound: rows ever inserted
  UploadFaults   \* bound: errors, crashes and expiries while there are uploads

Features == [tampering : 0..2, amount : 0..2, date : 0..2, layout : 0..2, quality : 0..2,
             signature : 0..2, readable : BOOLEAN]

ASSUME DocumentsAssumption ==
  /\ Analyses \subseteq Features
  /\ Distance \in [Images \X Images -> Nat]
  /\ MaxHamming \in Nat /\ SearchLimit \in Nat \ {0}
  /\ Processes \in Nat /\ MaxDocuments \in Nat /\ UploadFaults \in 0..MaxFaults
  /\ Staff \subseteq Readers

VARIABLES
  documents,  \* rows of document_analyses, by created_at
  blobs,      \* the keys each stored blob is encrypted under, by upload
  upload,     \* what each slot is doing
  uploads,    \* how many were begun; numbers them
  payment,    \* [document -> how the transaction it is attached to came about]
  held,       \* documents of requests that wait for a decision
  clientele   \* bound: whether uploads or others use the key service in a behaviour

storeVars == <<documents, blobs, upload, uploads>>
paymentVars == <<payment, held>>
allVars == <<vars, storeVars, paymentVars, clientele>>

Uploads == 1..(MaxDocuments + UploadFaults)

Open(r, step) == upload[r] # NoUpload /\ upload[r].step = step

-----------------------------------------------------------------------------
(* The verdict: weights in percent, twice the risk as features are 0..2.   *)

\* What an analysis found, with the nearest earlier document or 0.
WithDuplicate(f, near) ==
  [x \in DOMAIN f \cup {"duplicate"} |->
     IF x # "duplicate" THEN f[x] ELSE IF near = 0 THEN 0 ELSE 2]

Risk2(f) ==
    35 * f.tampering + 20 * (2 - f.amount) + 15 * f.duplicate + 10 * (2 - f.date)
  + 10 * (2 - f.layout) + 5 * (2 - f.quality) + 5 * (2 - f.signature)

StatusFor(risk2) == IF risk2 < 60 THEN "CLEAN"
                    ELSE IF risk2 < 140 THEN "REVIEW" ELSE "SUSPICIOUS"

Findings == {"duplicate_document", "amount_mismatch", "invalid_date"}

Reasons(f) == {x \in Findings :
                 \/ x = "duplicate_document" /\ f.duplicate = 2
                 \/ x = "amount_mismatch" /\ f.amount = 0
                 \/ x = "invalid_date" /\ f.date = 0}

\* decide: a hard finding or an unreadable document is never CLEAN.
Status(f) == IF StatusFor(Risk2(f)) = "CLEAN" /\ (Reasons(f) # {} \/ ~f.readable)
             THEN "REVIEW" ELSE StatusFor(Risk2(f))

-----------------------------------------------------------------------------
(* An upload.                                                              *)

Copies(image1, image2) == Distance[<<image1, image2>>] <= MaxHamming

\* Rows near enough to the image, among the latest ones.
Candidates(image) ==
  {d \in DOMAIN documents : /\ d > Len(documents) - SearchLimit
                            /\ Copies(documents[d].image, image)}

\* find_duplicate: the nearest row, the latest of the nearest; 0 for none.
Nearest(near, image) ==
  LET dist(d) == Distance[<<documents[d].image, image>>]
  IN  Max({0} \cup {d \in near : \A e \in near : dist(d) <= dist(e)})

\* POST /documents/analyze up to the verdict.  Only staff send a token on to the
\* key service.
Analyse(r, image, f) ==
  /\ upload[r] = NoUpload /\ task[r] = NoTask
  /\ Cardinality({q \in Readers : upload[q] # NoUpload}) < Processes
  /\ uploads < MaxDocuments + UploadFaults
  /\ uploads' = uploads + 1
  /\ upload' = [upload EXCEPT ![r] =
       [step |-> IF r \in Staff THEN "mint" ELSE "store", id |-> uploads + 1, image |-> image,
        features |-> WithDuplicate(f, Nearest(Candidates(image), image)), kid |-> 0]]
  /\ UNCHANGED <<vars, documents, blobs, paymentVars>>

Goto(r, step) == upload' = [upload EXCEPT ![r].step = step]

\* fetch_quantum_dek: mint a key, then read it.
MintForUpload(r, rounds) ==
  /\ Open(r, "mint")
  /\ Mint(rounds)
  /\ upload' = [upload EXCEPT ![r].kid = Len(minted) + 1, ![r].step = "get"]
  /\ UNCHANGED <<documents, blobs, uploads, paymentVars>>

ReadForUpload(r) ==
  /\ Open(r, "get")
  /\ Get(r, upload[r].kid)
  /\ Goto(r, "consume")
  /\ UNCHANGED <<documents, blobs, uploads, paymentVars>>

ConsumeForUpload(r) ==
  /\ Open(r, "consume")
  /\ Consume(r)
  /\ Goto(r, "store")
  /\ UNCHANGED <<documents, blobs, uploads, paymentVars>>

\* The key identifier of a local key.
NoKid(u) == 0

\* Whatever goes wrong, the key comes from os.urandom: BB84 gave too little, the
\* key is gone, the key service died, or the client has waited long enough while
\* the key service goes on.
FallBack(r) ==
  /\ \/ Open(r, "mint") \/ Open(r, "get") \/ Open(r, "consume")
  /\ upload' = [upload EXCEPT ![r].kid = NoKid(upload[r]), ![r].step = "store"]
  /\ UNCHANGED <<vars, documents, blobs, uploads, paymentVars>>

\* Mutant.
RowFirst == "store"

\* The step that leads to the row: the blob is on disk by then.
BlobStored == "insert"

\* write_blob: a temporary file, synchronised and renamed, so all or nothing.
WriteBlob(r) ==
  /\ Open(r, "store")
  /\ blobs' = [blobs EXCEPT ![upload[r].id] = {upload[r].kid}]
  /\ Goto(r, "insert")
  /\ UNCHANGED <<vars, documents, uploads, paymentVars>>

\* insert_document, and the answer.
InsertDocument(r) ==
  /\ Open(r, BlobStored)
  /\ Len(documents) < MaxDocuments
  /\ LET u == upload[r]
     IN  documents' = Append(documents,
           [id |-> u.id, image |-> u.image, kid |-> u.kid,
            status |-> Status(u.features), reasons |-> Reasons(u.features)])
  /\ upload' = [upload EXCEPT ![r] = NoUpload]
  /\ UNCHANGED <<vars, blobs, uploads, paymentVars>>

\* The service dies or the database fails: what was written stays.
Abort(r) ==
  /\ upload[r] # NoUpload
  /\ faults < MaxFaults
  /\ faults' = faults + 1
  /\ upload' = [upload EXCEPT ![r] = NoUpload]
  /\ UNCHANGED <<generatorVars, keyVars, documents, blobs, uploads, paymentVars>>

-----------------------------------------------------------------------------
(* account-service: a request with the document, in AccountService's short *)
(* form: executed, or held until staff release or reject it.               *)

\* Mutant.
OnlyBadStatusHolds(d) == documents[d].status = "SUSPICIOUS"

\* holdDecision with the default DOCUMENT_HOLD_ON_STATUS and _REASONS.
HoldDecision(d) ==
  \/ documents[d].status = "SUSPICIOUS"
  \/ documents[d].reasons \cap {"duplicate_document", "amount_mismatch"} # {}

CreateTransaction(d) ==
  /\ payment[d] = "none"
  /\ IF HoldDecision(d)
     THEN held' = held \cup {d} /\ UNCHANGED payment
     ELSE payment' = [payment EXCEPT ![d] = "executed"] /\ UNCHANGED held
  /\ UNCHANGED <<vars, storeVars>>

\* decideHold; another request may be held on the same document.
DecideHold(d) ==
  /\ d \in held
  /\ held' \in {held, held \ {d}}
  /\ \/ payment' = [payment EXCEPT ![d] = "released"]
     \/ UNCHANGED payment
  /\ UNCHANGED <<vars, storeVars>>

-----------------------------------------------------------------------------

DocumentsInit ==
  /\ Init
  /\ documents = <<>>
  /\ blobs = [u \in Uploads |-> {}]
  /\ upload = [r \in Readers |-> NoUpload]
  /\ uploads = 0
  /\ payment = [d \in 1..MaxDocuments |-> "none"]
  /\ held = {}
  /\ clientele \in {"uploads", "others"}

UploadNext(r) ==
  \/ \E image \in Images, f \in Analyses : Analyse(r, image, f)
  \/ \E rounds \in [1..Rounds -> Measured] : MintForUpload(r, rounds)
  \/ ReadForUpload(r) \/ ConsumeForUpload(r) \/ FallBack(r)
  \/ WriteBlob(r) \/ InsertDocument(r) \/ Abort(r)

\* The key service finishes or loses a read its client may have given up, and
\* keys expire.
KeyServiceNext ==
  \/ \E r \in Readers : Die(r) \/ (Consume(r) /\ ~Open(r, "consume"))
  \/ \E k \in Keys : Expire(k)

\* The key and quantum services serve uploads or, in other behaviours, all they
\* can be asked for by anyone else.
DocumentsNext ==
  /\ \/ /\ clientele = "uploads"
        /\ \/ \E r \in Readers : UploadNext(r)
           \/ KeyServiceNext /\ UNCHANGED <<storeVars, paymentVars>>
           \/ \E d \in DOMAIN documents : CreateTransaction(d) \/ DecideHold(d)
        /\ faults' <= UploadFaults
     \/ clientele = "others" /\ Next /\ UNCHANGED <<storeVars, paymentVars>>
  /\ UNCHANGED clientele

DocumentsSpec == DocumentsInit /\ [][DocumentsNext]_allVars

-----------------------------------------------------------------------------
(* Properties.                                                             *)

Judged == [tampering : 0..2, amount : 0..2, date : 0..2, layout : 0..2, quality : 0..2,
           signature : 0..2, readable : BOOLEAN, duplicate : {0, 2}]

Row == [id : Uploads, image : Images, kid : 0..MaxKeys,
        status : {"CLEAN", "REVIEW", "SUSPICIOUS"}, reasons : SUBSET Findings]

Work == [step : {"mint", "get", "consume", "store", "insert"}, id : Uploads,
         image : Images, features : Judged, kid : 0..MaxKeys]

StoreTypeOK ==
  /\ documents \in Seq(Row) /\ Len(documents) <= MaxDocuments
  /\ blobs \in [Uploads -> SUBSET (0..MaxKeys)]
  /\ upload \in [Readers -> Work \cup {NoUpload}]
  /\ uploads \in 0..(MaxDocuments + UploadFaults)
  /\ payment \in [1..MaxDocuments -> {"none", "executed", "released"}]
  /\ held \subseteq DOMAIN documents

\* Every variable keeps its type.
DocumentsTypeOK == TypeOK /\ StoreTypeOK

\* The image of every document can be shown: its blob is on disk, under the key
\* whose wrapped copy is in the row.
RowHasBlob == \A d \in DOMAIN documents : blobs[documents[d].id] = {documents[d].kid}

\* A copy of an image that was among the latest documents is paid on nobody's
\* word but a member of staff's: the search, the verdict and the hold, in two
\* services, leave no way around it.
CopyNeedsRelease ==
  \A d \in DOMAIN documents : \A e \in 1..(d - 1) :
    e >= d - SearchLimit /\ Copies(documents[e].image, documents[d].image)
    => payment[d] # "executed"

=============================================================================
