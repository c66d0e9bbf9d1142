--------------------------- MODULE PaymentsProofs ---------------------------
(***************************************************************************)
(* Proofs about Payments: its safety properties, for any accounts, kinds   *)
(* and amounts, any number of reviews, clicks, lookups and uploads, and    *)
(* any order of late, lost and unheard answers.                            *)
(***************************************************************************)
EXTENDS Payments, SequenceTheorems, TLAPS

Payee == Accounts \cup {Nobody}

PageType ==
  [step : 0..3, kind : Kinds \cup {"none"}, field : Payee, recipient : Payee, amount : Nat,
   doc : Nat, key : 0..MaxReviews, analysing : BOOLEAN, busy : BOOLEAN, error : BOOLEAN,
   result : Nat]

BodyType   == [review : Reviews, amount : Nat, payee : Payee]
UploadType == [amount : Nat, state : {"pending", "CLEAN", "SUSPICIOUS", "failed"}]
PostType   == [body : BodyType, doc : Nat, answer : Nat, awaited : BOOLEAN]
EffectType == [body : BodyType, key : Nat, doc : Nat, held : BOOLEAN]

RestTyped ==
  /\ uploads \in Seq(UploadType)
  /\ posts \in Seq(PostType)
  /\ effects \in Seq(EffectType)
  /\ confirmed \subseteq BodyType
  /\ told \in [Reviews -> {"nothing", "done", "error", "left"}]

TypeOK == page \in PageType /\ RestTyped

-----------------------------------------------------------------------------
(* The inductive invariant.                                                *)

\* The page is busy only at its review, and has a key there.
ReviewHasKey == /\ At(2) => page.key > 0
                /\ page.busy => At(2)

\* The page waits for one answer at most, to a payment of the review it shows.
AwaitedIsShown ==
  /\ \A p \in DOMAIN posts : posts[p].awaited => page.busy /\ posts[p].body.review = page.key
  /\ \A p, q \in DOMAIN posts : posts[p].awaited /\ posts[q].awaited => p = q

\* A payment on its way was confirmed, and its answer is about its review.
AnswerIsOwn ==
  \A p \in DOMAIN posts :
    /\ posts[p].body \in confirmed
    /\ posts[p].answer # 0 => /\ posts[p].answer \in DOMAIN effects
                              /\ Effect(posts[p].answer).review = posts[p].body.review

\* Documents that the page or a payment names were uploaded.
DocumentsExist ==
  /\ page.doc # 0 => page.doc \in DOMAIN uploads
  /\ \A p \in DOMAIN posts : posts[p].doc # 0 => posts[p].doc \in DOMAIN uploads
  /\ \A e \in DOMAIN effects : effects[e].doc # 0 => effects[e].doc \in DOMAIN uploads

\* Effects are stored under the key of their review.
KeysAreReviews == \A e \in DOMAIN effects : effects[e].key = Effect(e).review

ReceiptExists == At(3) => page.result \in DOMAIN effects

\* Of a review that was confirmed the customer has heard, or is waiting to hear.
ConfirmedIsTold ==
  \A c \in confirmed : /\ c.review <= page.key
                       /\ told[c.review] # "nothing" \/ (c.review = page.key /\ page.busy)

\* PaidAsConfirmed in its two parts.
PaidAsShown == \A e \in DOMAIN effects : Effect(e) \in confirmed

DocumentFitsEffect ==
  \A e \in DOMAIN effects :
    effects[e].doc # 0 => uploads[effects[e].doc].amount = Effect(e).amount

Inv ==
  /\ TypeOK
  /\ ReviewHasKey /\ AwaitedIsShown /\ AnswerIsOwn /\ DocumentsExist
  /\ KeysAreReviews /\ ReceiptExists /\ ConfirmedIsTold
  /\ ReviewPaidOnce /\ PaidAsShown /\ ReceiptIsOwn /\ DocumentFitsEffect

-----------------------------------------------------------------------------
(* Lemmas.                                                                 *)

\* RemoveAt closes the gap.
LEMMA RemoveAtElements ==
  ASSUME NEW S, NEW s \in Seq(S), NEW i \in DOMAIN s
  PROVE  /\ RemoveAt(s, i) \in Seq(S)
         /\ \A j \in DOMAIN RemoveAt(s, i) :
              \E k \in DOMAIN s : k # i /\ RemoveAt(s, i)[j] = s[k]
                                  /\ k = IF j < i THEN j ELSE j + 1
<1>1. i \in 1..Len(s) /\ Len(s) \in Nat
  OBVIOUS
<1> DEFINE a == SubSeq(s, 1, i - 1)
           b == SubSeq(s, i + 1, Len(s))
<1>2. a \in Seq(S) /\ Len(a) = i - 1 /\ \A j \in 1..(i - 1) : a[j] = s[j]
  BY <1>1
<1>3. b \in Seq(S) /\ Len(b) = Len(s) - i /\ \A j \in 1..(Len(s) - i) : b[j] = s[j + i]
  <2>1. i + 1 \in 1..(Len(s) + 1) /\ (Len(s) - (i + 1)) + 1 = Len(s) - i
    BY <1>1
  <2>2. b \in Seq(S) /\ Len(b) = Len(s) - i
    BY <1>1, <2>1, SubSeqProperties
  <2>3. ASSUME NEW j \in 1..(Len(s) - i)
        PROVE  b[j] = s[j + i]
    <3>1. j \in 1..((Len(s) - (i + 1)) + 1) /\ ((i + 1) + j) - 1 = j + i
      BY <1>1
    <3> QED BY <1>1, <2>1, <3>1, SubSeqProperties
  <2> QED BY <2>2, <2>3
<1>4. RemoveAt(s, i) = a \o b
  BY DEF RemoveAt
<1> HIDE DEF a, b
<1>5. /\ a \o b \in Seq(S)
      /\ Len(a \o b) = Len(a) + Len(b)
      /\ \A j \in 1..(Len(a) + Len(b)) : (a \o b)[j] = IF j <= Len(a) THEN a[j] ELSE b[j - Len(a)]
  BY <1>2, <1>3, ConcatProperties
<1>6. Len(a \o b) = Len(s) - 1 /\ DOMAIN (a \o b) = 1..(Len(s) - 1)
  BY <1>1, <1>2, <1>3, <1>5
<1>7. ASSUME NEW j \in 1..(Len(s) - 1)
      PROVE  \E k \in DOMAIN s : k # i /\ (a \o b)[j] = s[k] /\ k = IF j < i THEN j ELSE j + 1
  <2>1. (a \o b)[j] = IF j <= i - 1 THEN a[j] ELSE b[j - (i - 1)]
    <3>1. Len(a) = i - 1 /\ Len(a) + Len(b) = Len(s) - 1
      BY <1>1, <1>2, <1>3
    <3> QED BY <1>5, <3>1
  <2>2. CASE j < i
    <3>1. j \in 1..(i - 1) /\ j \in DOMAIN s
      BY <2>2, <1>1
    <3> QED BY <2>1, <2>2, <3>1, <1>2
  <2>3. CASE ~(j < i)
    <3>1. /\ j - (i - 1) \in 1..(Len(s) - i) /\ (j - (i - 1)) + i = j + 1
          /\ j + 1 \in DOMAIN s /\ ~(j <= i - 1)
      BY <2>3, <1>1
    <3> QED BY <2>1, <2>3, <3>1, <1>1, <1>3
  <2> QED BY <2>2, <2>3
<1> QED
  BY <1>4, <1>5, <1>6, <1>7

-----------------------------------------------------------------------------
(* Types.                                                                  *)

\* A field of the page changes within its range.
LEMMA PageUpdate ==
  ASSUME NEW g \in PageType
  PROVE  /\ \A x \in 0..3 : [g EXCEPT !.step = x] \in PageType
         /\ \A x \in Kinds \cup {"none"} : [g EXCEPT !.kind = x] \in PageType
         /\ \A x \in Payee : /\ [g EXCEPT !.field = x] \in PageType
                             /\ [g EXCEPT !.recipient = x] \in PageType
         /\ \A x \in Nat : /\ [g EXCEPT !.amount = x] \in PageType
                           /\ [g EXCEPT !.doc = x] \in PageType
                           /\ [g EXCEPT !.result = x] \in PageType
         /\ \A x \in 0..MaxReviews : [g EXCEPT !.key = x] \in PageType
         /\ \A x \in BOOLEAN : /\ [g EXCEPT !.analysing = x] \in PageType
                               /\ [g EXCEPT !.busy = x] \in PageType
                               /\ [g EXCEPT !.error = x] \in PageType
  BY DEF PageType

LEMMA BlankTyped == Blank \in PageType
  BY PaymentsAssumption DEF Blank, PageType, Payee

\* Every step keeps the type of the page.
LEMMA PageTyped ==
  ASSUME TypeOK, Next
  PROVE  page' \in PageType
<1>1. /\ page \in PageType
      /\ page.key \in 0..MaxReviews /\ page.doc \in Nat
      /\ 0 \in 0..3 /\ 1 \in 0..3 /\ 2 \in 0..3 /\ 3 \in 0..3 /\ 0 \in Nat
      /\ TRUE \in BOOLEAN /\ FALSE \in BOOLEAN
      /\ Nobody \in Payee /\ "none" \in Kinds \cup {"none"}
  BY DEF TypeOK, PageType, Payee
<1>2. \A amount : Fitting(page.doc, amount) \in Nat
  BY <1>1 DEF Fitting
<1>3. ASSUME NEW kind \in Kinds, Choose(kind) PROVE page' \in PageType
  BY Zenon, <1>3, <1>1, PageUpdate, BlankTyped DEF Choose, Fill
<1>4. ASSUME NEW a \in Accounts, Type(a) PROVE page' \in PageType
  BY Zenon, <1>4, <1>1, PageUpdate DEF Type, Fill, Payee
<1>5. ASSUME NEW m \in Amounts, SetAmount(m) PROVE page' \in PageType
  <2>1. m \in Nat
    BY PaymentsAssumption
  <2> QED BY Zenon, <1>5, <1>1, <1>2, <2>1, PageUpdate DEF SetAmount, Fill
<1>6. ASSUME DropDocument PROVE page' \in PageType
  BY Zenon, <1>6, <1>1, PageUpdate DEF DropDocument, Fill
<1>7. ASSUME Reset PROVE page' \in PageType
  BY Zenon, <1>7, <1>1, PageUpdate DEF Reset, Fill
<1>8. ASSUME Verify PROVE page' \in PageType
  BY Zenon, <1>8, <1>1, PageUpdate DEF Verify
<1>9. ASSUME NEW a \in Accounts, Verified(a) PROVE page' \in PageType
  BY Zenon, <1>9, <1>1, PageUpdate DEF Verified, Payee
<1>10. ASSUME Analyse PROVE page' \in PageType
  BY Zenon, <1>10, <1>1, PageUpdate DEF Analyse
<1>11. ASSUME NEW u \in DOMAIN uploads, Analysed(u) PROVE page' \in PageType
  <2>1. u \in Nat
    BY DEF TypeOK, RestTyped
  <2>2. PICK state : page' = [page EXCEPT !.doc = IF state = "failed" THEN @ ELSE u,
                                         !.analysing = @ /\ u # Len(uploads)]
    BY <1>11 DEF Analysed
  <2>3. /\ (IF state = "failed" THEN page.doc ELSE u) \in Nat
        /\ (page.analysing /\ u # Len(uploads)) \in BOOLEAN
    BY <1>1, <2>1
  <2> QED BY Zenon, <1>1, <2>2, <2>3, PageUpdate
<1>12. ASSUME Review PROVE page' \in PageType
  <2>1. page.key + 1 \in 0..MaxReviews
    BY <1>12, <1>1, PaymentsAssumption DEF Review
  <2> QED BY Zenon, <1>12, <1>1, <2>1, PageUpdate DEF Review, Fill
<1>13. ASSUME Edit PROVE page' \in PageType
  BY Zenon, <1>13, <1>1, <1>2, PageUpdate DEF Edit, Fill
<1>14. ASSUME Confirm PROVE page' \in PageType
  BY Zenon, <1>14, <1>1, PageUpdate DEF Confirm
<1>15. ASSUME Leave PROVE page' \in PageType
  BY Zenon, <1>15, <1>1, PageUpdate, BlankTyped DEF Leave
<1>16. ASSUME NEW p \in DOMAIN posts, Serve(p) \/ Forget(p) PROVE page' \in PageType
  BY <1>16, <1>1 DEF Serve, Forget
<1>17. ASSUME NEW p \in DOMAIN posts, Succeed(p) PROVE page' \in PageType
  <2>1. posts[p] \in PostType
    BY DEF TypeOK, RestTyped
  <2>2. posts[p].answer \in Nat
    BY <2>1 DEF PostType
  <2> QED BY Zenon, <1>17, <1>1, <2>2, PageUpdate DEF Succeed
<1>18. ASSUME NEW p \in DOMAIN posts, Refuse(p) \/ GiveUp(p) PROVE page' \in PageType
  BY Zenon, <1>18, <1>1, PageUpdate DEF Refuse, GiveUp
<1> QED BY <1>3, <1>4, <1>5, <1>6, <1>7, <1>8, <1>9, <1>10, <1>11, <1>12, <1>13, <1>14, <1>15, <1>16, <1>17, <1>18 DEF Next

\* Every step keeps the types.
LEMMA StepTyped ==
  ASSUME TypeOK, ReviewHasKey, Next
  PROVE  TypeOK'
<1>1. RestTyped /\ page \in PageType
  BY DEF TypeOK, RestTyped
<1> USE DEF RestTyped
<1>2. ASSUME NEW kind \in Kinds, Choose(kind) PROVE RestTyped'
  BY <1>2, <1>1 DEF Choose, Fill
<1>3. ASSUME NEW a \in Accounts, Type(a) PROVE RestTyped'
  BY <1>3, <1>1 DEF Type, Fill
<1>4. ASSUME NEW a \in Accounts, Verified(a) PROVE RestTyped'
  BY <1>4, <1>1 DEF Verified
<1>5. ASSUME NEW m \in Amounts, SetAmount(m) PROVE RestTyped'
  BY <1>5, <1>1 DEF SetAmount, Fill
<1>6. ASSUME DropDocument \/ Reset \/ Verify \/ Review \/ Edit PROVE RestTyped'
  BY <1>6, <1>1 DEF DropDocument, Reset, Verify, Review, Edit, Fill
<1>7. ASSUME Analyse PROVE RestTyped'
  <2>1. [amount |-> page.amount, state |-> "pending"] \in UploadType
    BY <1>1 DEF UploadType, PageType
  <2> QED BY <1>7, <1>1, <2>1 DEF Analyse
<1>8. ASSUME NEW u \in DOMAIN uploads, Analysed(u) PROVE RestTyped'
  <2>1. \A x \in UploadType, state \in {"CLEAN", "SUSPICIOUS", "failed"} :
          [x EXCEPT !.state = state] \in UploadType
    BY DEF UploadType
  <2>2. u \in 1..Len(uploads) /\ uploads[u] \in UploadType
    BY <1>1
  <2>3. PICK state \in {"CLEAN", "SUSPICIOUS", "failed"} :
          uploads' = [uploads EXCEPT ![u] = [uploads[u] EXCEPT !.state = state]]
    BY Zenon, <1>8 DEF Analysed
  <2>4. uploads' \in Seq(UploadType)
    BY <1>1, <2>1, <2>2, <2>3, ExceptSeq
  <2> QED BY <1>8, <1>1, <2>4 DEF Analysed
<1>9. ASSUME Confirm PROVE RestTyped'
  <2>1. Shown \in BodyType
    <3>1. page.key \in Reviews
      BY <1>9, <1>1, PaymentsAssumption DEF Confirm, ReviewHasKey, At, PageType, Reviews
    <3>2. page.amount \in Nat /\ page.recipient \in Payee /\ page.field \in Payee /\ Nobody \in Payee
      BY <1>1 DEF PageType, Payee
    <3> QED BY <3>1, <3>2 DEF Shown, BodyType
  <2>2. [body |-> Body, doc |-> page.doc, answer |-> 0, awaited |-> TRUE] \in PostType
    BY <1>1, <2>1 DEF Body, PostType, PageType
  <2> QED BY <1>9, <1>1, <2>1, <2>2 DEF Confirm
<1>10. ASSUME Leave PROVE RestTyped'
  <2>1. \A x \in UploadType :
          [x EXCEPT !.state = IF @ = "pending" THEN "failed" ELSE @] \in UploadType
    BY DEF UploadType
  <2>2. uploads' \in Seq(UploadType)
    <3>1. uploads' \in [1..Len(uploads) -> UploadType] /\ Len(uploads) \in Nat
      BY <1>10, <1>1, <2>1 DEF Leave
    <3> QED BY <3>1, SeqDef
  <2>3. \A x \in PostType : [x EXCEPT !.awaited = FALSE] \in PostType
    BY DEF PostType
  <2>4. posts' \in Seq(PostType)
    <3>1. posts' \in [1..Len(posts) -> PostType] /\ Len(posts) \in Nat
      BY <1>10, <1>1, <2>3 DEF Leave
    <3> QED BY <3>1, SeqDef
  <2>5. told' \in [Reviews -> {"nothing", "done", "error", "left"}]
    BY <1>10, <1>1 DEF Leave, Tell
  <2> QED BY <1>10, <1>1, <2>2, <2>4, <2>5 DEF Leave
<1>11. ASSUME NEW p \in DOMAIN posts, Serve(p) PROVE RestTyped'
  <2>1. p \in 1..Len(posts) /\ posts[p] \in PostType
    BY <1>1
  <2>2. /\ posts[p].body \in BodyType /\ posts[p].doc \in Nat /\ posts[p].body.review \in Nat
    BY <2>1 DEF PostType, BodyType, Reviews
  <2>3. [body |-> posts[p].body, key |-> Forwarded(posts[p].body.review),
         doc |-> posts[p].doc, held |-> Flagged(p)] \in EffectType
    BY <2>2 DEF Forwarded, Flagged, EffectType
  <2>4. ASSUME NEW e \in Nat, Answer(p, e) PROVE posts' \in Seq(PostType)
    <3>1. [posts[p] EXCEPT !.answer = e] \in PostType
      BY <2>1 DEF PostType
    <3>2. posts' = [posts EXCEPT ![p] = [posts[p] EXCEPT !.answer = e]]
      BY Zenon, <2>4 DEF Answer
    <3> QED BY <1>1, <2>1, <3>1, <3>2, ExceptSeq
  <2>5. Len(effects) + 1 \in Nat /\ Claimed(p) \subseteq Nat
    BY <1>1 DEF Claimed
  <2>6. posts' \in Seq(PostType)
    BY Zenon, <1>11, <2>4, <2>5 DEF Serve
  <2>7. effects' \in Seq(EffectType)
    <3> DEFINE new == [body |-> posts[p].body, key |-> Forwarded(posts[p].body.review),
                       doc |-> posts[p].doc, held |-> Flagged(p)]
    <3>1. effects' = effects \/ effects' = Append(effects, new)
      BY Zenon, <1>11 DEF Serve
    <3>2. new \in EffectType
      BY <2>3
    <3> HIDE DEF new
    <3> QED BY <1>1, <3>1, <3>2
  <2> QED BY <1>11, <1>1, <2>6, <2>7 DEF Serve
<1>12. ASSUME NEW p \in DOMAIN posts, GiveUp(p) PROVE RestTyped'
  <2>1. p \in 1..Len(posts) /\ posts[p] \in PostType
    BY <1>1
  <2>2. [posts[p] EXCEPT !.awaited = FALSE] \in PostType
    BY <2>1 DEF PostType
  <2>3. posts' = [posts EXCEPT ![p] = [posts[p] EXCEPT !.awaited = FALSE]]
    BY Zenon, <1>12 DEF GiveUp
  <2>4. posts' \in Seq(PostType)
    BY <1>1, <2>1, <2>2, <2>3, ExceptSeq
  <2> QED BY <1>12, <1>1, <2>4 DEF GiveUp, Tell
<1>13. ASSUME NEW p \in DOMAIN posts, Succeed(p) \/ Refuse(p) \/ Forget(p)
        PROVE RestTyped'
  <2>1. posts' \in Seq(PostType)
    BY <1>13, <1>1, RemoveAtElements DEF Succeed, Refuse, Forget
  <2>2. told' \in [Reviews -> {"nothing", "done", "error", "left"}]
    BY <1>13, <1>1 DEF Succeed, Refuse, Forget, Tell
  <2>3. UNCHANGED <<uploads, effects, confirmed>>
    BY <1>13 DEF Succeed, Refuse, Forget
  <2> QED BY <1>1, <2>1, <2>2, <2>3
<1> HIDE DEF RestTyped
<1>14. RestTyped'
  BY <1>2, <1>3, <1>4, <1>5, <1>6, <1>7, <1>8, <1>9, <1>10, <1>11, <1>12, <1>13 DEF Next
<1> QED BY <1>14, PageTyped DEF TypeOK

-----------------------------------------------------------------------------
(* The invariant.                                                          *)

LEMMA InitInv == Init => Inv
  BY PaymentsAssumption, BlankTyped
  DEF Init, Inv, TypeOK, RestTyped, Reviews, Blank, At, ReviewHasKey, AwaitedIsShown, AnswerIsOwn,
      DocumentsExist, KeysAreReviews, ReceiptExists, ConfirmedIsTold, ReviewPaidOnce,
      PaidAsShown, ReceiptIsOwn, DocumentFitsEffect, Effect

\* A step of the page alone: whatever it answers to, it leaves a review only when
\* nothing is awaited, and names no document that was not uploaded.
Quiet ==
  /\ UNCHANGED <<posts, effects, confirmed, told>>
  /\ \A u \in DOMAIN uploads : u \in DOMAIN uploads' /\ uploads'[u].amount = uploads[u].amount
  /\ page'.doc # 0 => page'.doc \in DOMAIN uploads'
  /\ page'.busy = page.busy /\ page'.key >= page.key
  /\ page.busy => page'.step = 2 /\ page'.key = page.key
  /\ page'.step = 2 => page'.key > 0
  /\ page'.step = 3 => page.step = 3 /\ page'.result = page.result /\ page'.key = page.key

LEMMA QuietSteps ==
  ASSUME Inv, Next,
         \/ \E kind \in Kinds : Choose(kind)
         \/ \E a \in Accounts : Type(a)
         \/ \E a \in Accounts : Verified(a)
         \/ \E m \in Amounts : SetAmount(m)
         \/ \E u \in DOMAIN uploads : Analysed(u)
         \/ DropDocument \/ Reset \/ Verify \/ Analyse \/ Review \/ Edit
  PROVE  Quiet
<1>1. /\ uploads \in Seq(UploadType) /\ page.busy \in BOOLEAN
      /\ (page.busy => page.step = 2) /\ (page.step = 2 => page.key > 0)
      /\ page.doc # 0 => page.doc \in DOMAIN uploads
      /\ page.key \in Nat
  BY PaymentsAssumption DEF Inv, TypeOK, RestTyped, ReviewHasKey, DocumentsExist, At, PageType
<1>p. page \in PageType
  BY DEF Inv, TypeOK
<1>2. \A amount : Fitting(page.doc, amount) # 0 => Fitting(page.doc, amount) \in DOMAIN uploads
  BY <1>1 DEF Fitting
<1> USE DEF Quiet, At, Fill
<1>3. ASSUME NEW kind \in Kinds, Choose(kind) PROVE Quiet
  <2>1. /\ page'.step = 1 /\ page'.key = page.key /\ page'.busy = FALSE /\ page'.doc = 0
        /\ page.step = 0
    BY <1>3 DEF Choose, Blank
  <2>2. UNCHANGED <<uploads, posts, effects, confirmed, told>>
    BY <1>3 DEF Choose
  <2>3. ~page.busy
    BY <1>1, <2>1
  <2>4. page'.busy = page.busy
    BY Zenon, <1>1, <2>1, <2>3
  <2> QED BY <1>1, <2>1, <2>2, <2>3, <2>4
<1>4. ASSUME NEW a \in Accounts, Type(a) PROVE Quiet
  <2>1. /\ page'.step = 1 /\ page'.key = page.key /\ page'.busy = page.busy /\ page'.doc = page.doc
        /\ page.step = 1
    BY <1>p, <1>4 DEF Type, PageType
  <2>2. UNCHANGED <<uploads, posts, effects, confirmed, told>>
    BY <1>4 DEF Type
  <2> QED BY <1>1, <2>1, <2>2
<1>5. ASSUME NEW a \in Accounts, Verified(a) PROVE Quiet
  <2>1. /\ page'.step = page.step /\ page'.key = page.key /\ page'.busy = page.busy
        /\ page'.result = page.result /\ page'.doc = page.doc
    BY <1>p, <1>5 DEF Verified, PageType
  <2>2. UNCHANGED <<uploads, posts, effects, confirmed, told>>
    BY <1>5 DEF Verified
  <2> QED BY <1>1, <2>1, <2>2
<1>6. ASSUME NEW m \in Amounts, SetAmount(m) PROVE Quiet
  <2>1. /\ page'.step = 1 /\ page'.key = page.key /\ page'.busy = page.busy
        /\ page'.doc = Fitting(page.doc, m) /\ page.step = 1
    BY <1>p, <1>6 DEF SetAmount, PageType
  <2>2. UNCHANGED <<uploads, posts, effects, confirmed, told>>
    BY <1>6 DEF SetAmount
  <2> QED BY <1>1, <1>2, <2>1, <2>2
<1>7. ASSUME NEW u \in DOMAIN uploads, Analysed(u) PROVE Quiet
  <2>1. /\ page'.step = page.step /\ page'.key = page.key /\ page'.busy = page.busy
        /\ page'.result = page.result /\ page'.doc \in {page.doc, u}
    BY <1>p, <1>7 DEF Analysed, PageType
  <2>2. \A v \in DOMAIN uploads : v \in DOMAIN uploads' /\ uploads'[v].amount = uploads[v].amount
    <3>1. PICK state : uploads' = [uploads EXCEPT ![u] = [uploads[u] EXCEPT !.state = state]]
      BY Zenon, <1>7 DEF Analysed
    <3>2. uploads[u] \in UploadType
      BY <1>1
    <3>3. [uploads[u] EXCEPT !.state = state].amount = uploads[u].amount
      BY <3>2 DEF UploadType
    <3> QED BY Zenon, <1>1, <3>1, <3>3
  <2>3. UNCHANGED <<posts, effects, confirmed, told>>
    BY <1>7 DEF Analysed
  <2> QED BY <1>1, <2>1, <2>2, <2>3
<1>8. ASSUME DropDocument \/ Verify PROVE Quiet
  <2>1. /\ page'.step = 1 /\ page'.key = page.key /\ page'.busy = page.busy
        /\ page'.doc \in {page.doc, 0} /\ page.step = 1
    BY <1>p, <1>8 DEF DropDocument, Verify, PageType
  <2>2. UNCHANGED <<uploads, posts, effects, confirmed, told>>
    BY <1>8 DEF DropDocument, Verify
  <2> QED BY <1>1, <2>1, <2>2
<1>9. ASSUME Reset PROVE Quiet
  <2>1. /\ page'.step = 0 /\ page'.key = page.key /\ page'.busy = page.busy /\ page'.doc = page.doc
        /\ page.step \in {1, 3}
    BY <1>p, <1>9 DEF Reset, PageType
  <2>2. UNCHANGED <<uploads, posts, effects, confirmed, told>>
    BY <1>9 DEF Reset
  <2> QED BY <1>1, <2>1, <2>2
<1>10. ASSUME Analyse PROVE Quiet
  <2>1. /\ page'.step = page.step /\ page'.key = page.key /\ page'.busy = page.busy
        /\ page'.result = page.result /\ page'.doc = page.doc
    BY <1>p, <1>10 DEF Analyse, PageType
  <2>2. \A v \in DOMAIN uploads : v \in DOMAIN uploads' /\ uploads'[v] = uploads[v]
    BY <1>1, <1>10 DEF Analyse
  <2>3. UNCHANGED <<posts, effects, confirmed, told>>
    BY <1>10 DEF Analyse
  <2> QED BY <1>1, <2>1, <2>2, <2>3
<1>11. ASSUME Review PROVE Quiet
  <2>1. /\ page'.step = 2 /\ page'.key = page.key + 1 /\ page'.busy = page.busy
        /\ page'.doc = page.doc /\ page.step = 1
    BY <1>p, <1>11 DEF Review, PageType
  <2>2. UNCHANGED <<uploads, posts, effects, confirmed, told>>
    BY <1>11 DEF Review
  <2> QED BY <1>1, <2>1, <2>2
<1>12. ASSUME Edit PROVE Quiet
  <2>1. /\ page'.step = 1 /\ page'.key = page.key /\ page'.busy = page.busy
        /\ page'.doc = Fitting(page.doc, page.amount) /\ ~page.busy
    BY <1>p, <1>12 DEF Edit, PageType
  <2>2. UNCHANGED <<uploads, posts, effects, confirmed, told>>
    BY <1>12 DEF Edit
  <2> QED BY <1>1, <1>2, <2>1, <2>2
<1> HIDE DEF Quiet
<1> QED BY <1>3, <1>4, <1>5, <1>6, <1>7, <1>8, <1>9, <1>10, <1>11, <1>12

LEMMA QuietInv ==
  ASSUME Inv, TypeOK', Quiet
  PROVE  Inv'
<1>1. /\ page.key \in Nat /\ page'.key \in Nat
      /\ \A c \in confirmed : c.review \in Nat
  BY PaymentsAssumption DEF Inv, TypeOK, RestTyped, PageType, BodyType, Reviews
<1>2. ReviewHasKey'
  BY <1>1 DEF Inv, Quiet, ReviewHasKey, At
<1>3. AwaitedIsShown'
  BY DEF Inv, Quiet, AwaitedIsShown
<1>4. AnswerIsOwn' /\ KeysAreReviews' /\ ReviewPaidOnce' /\ PaidAsShown'
  BY DEF Inv, Quiet, AnswerIsOwn, KeysAreReviews, ReviewPaidOnce, PaidAsShown, Effect
<1>5. DocumentsExist' /\ DocumentFitsEffect'
  BY DEF Inv, Quiet, DocumentsExist, DocumentFitsEffect, Effect
<1>6. ReceiptExists' /\ ReceiptIsOwn'
  BY DEF Inv, Quiet, ReceiptExists, ReceiptIsOwn, At, Effect
<1>7. ConfirmedIsTold'
  BY <1>1 DEF Inv, Quiet, ConfirmedIsTold
<1> QED BY <1>2, <1>3, <1>4, <1>5, <1>6, <1>7 DEF Inv

\* What the invariant's types say of the page, the payments and the effects.
LEMMA Reads ==
  ASSUME TypeOK
  PROVE  /\ page \in PageType /\ page.busy \in BOOLEAN /\ page.key \in Nat
         /\ page.step \in 0..3 /\ page.doc \in Nat
         /\ uploads \in Seq(UploadType) /\ posts \in Seq(PostType) /\ effects \in Seq(EffectType)
         /\ Len(posts) \in Nat /\ Len(effects) \in Nat
         /\ \A p \in DOMAIN posts : posts[p] \in PostType /\ posts[p].body.review \in Nat \ {0}
         /\ \A c \in confirmed : c.review \in Reviews
         /\ told \in [Reviews -> {"nothing", "done", "error", "left"}]
<1>1. /\ page \in PageType /\ uploads \in Seq(UploadType) /\ posts \in Seq(PostType)
      /\ effects \in Seq(EffectType) /\ confirmed \subseteq BodyType
      /\ told \in [Reviews -> {"nothing", "done", "error", "left"}]
  BY DEF TypeOK, RestTyped
<1>2. /\ page.busy \in BOOLEAN /\ page.key \in Nat /\ page.step \in 0..3 /\ page.doc \in Nat
  BY <1>1, PaymentsAssumption DEF PageType
<1>3. ASSUME NEW p \in DOMAIN posts
      PROVE  posts[p] \in PostType /\ posts[p].body.review \in Nat \ {0}
  <2>1. posts[p] \in PostType
    BY <1>1
  <2> QED BY <2>1 DEF PostType, BodyType, Reviews
<1>4. \A c \in confirmed : c.review \in Reviews
  BY <1>1 DEF BodyType
<1> QED BY <1>1, <1>2, <1>3, <1>4

LEMMA ConfirmInv ==
  ASSUME Inv, TypeOK', Confirm
  PROVE  Inv'
<1>1. TypeOK /\ page.step = 2 /\ page.busy = FALSE
  BY Reads DEF Inv, Confirm, At
<1>2. /\ page'.step = 2 /\ page'.busy = TRUE /\ page'.key = page.key /\ page'.doc = page.doc
  BY <1>1, Reads DEF Confirm, PageType
<1> DEFINE new == [body |-> Body, doc |-> page.doc, answer |-> 0, awaited |-> TRUE]
<1>3. /\ new.body = Shown /\ new.doc = page.doc /\ new.answer = 0 /\ new.awaited
      /\ Shown.review = page.key
  BY DEF Body, Shown
<1>4. /\ posts' = Append(posts, new) /\ confirmed' = confirmed \cup {Shown}
      /\ UNCHANGED <<uploads, effects, told>>
  BY DEF Confirm
<1> HIDE DEF new
<1>5. /\ DOMAIN posts' = DOMAIN posts \cup {Len(posts) + 1}
      /\ \A p \in DOMAIN posts : posts'[p] = posts[p] /\ p # Len(posts) + 1
      /\ posts'[Len(posts) + 1] = new
  BY <1>1, <1>4, Reads
<1>6. \A p \in DOMAIN posts : ~posts[p].awaited
  BY <1>1 DEF Inv, AwaitedIsShown
<1>7. ReviewHasKey'
  BY <1>1, <1>2 DEF Inv, ReviewHasKey, At
<1>8. AwaitedIsShown'
  BY <1>2, <1>3, <1>5, <1>6 DEF AwaitedIsShown
<1>9. AnswerIsOwn'
  BY <1>3, <1>4, <1>5 DEF Inv, AnswerIsOwn, Effect
<1>10. DocumentsExist' /\ DocumentFitsEffect'
  BY <1>2, <1>3, <1>4, <1>5 DEF Inv, DocumentsExist, DocumentFitsEffect, Effect
<1>11. KeysAreReviews' /\ ReviewPaidOnce' /\ PaidAsShown'
  BY <1>4 DEF Inv, KeysAreReviews, ReviewPaidOnce, PaidAsShown, Effect
<1>12. ReceiptExists' /\ ReceiptIsOwn'
  BY <1>2 DEF ReceiptExists, ReceiptIsOwn, At
<1>13. ConfirmedIsTold'
  BY <1>1, <1>2, <1>3, <1>4, Reads DEF Inv, ConfirmedIsTold
<1> QED BY <1>7, <1>8, <1>9, <1>10, <1>11, <1>12, <1>13 DEF Inv

LEMMA ServeInv ==
  ASSUME Inv, TypeOK', NEW p \in DOMAIN posts, Serve(p)
  PROVE  Inv'
<1>1. TypeOK /\ UNCHANGED <<page, uploads, confirmed, told>>
  BY DEF Inv, Serve
<1>2. PICK e : Answer(p, e) /\ (\/ e \in Claimed(p) /\ UNCHANGED effects
                              \/ /\ e = Len(effects) + 1
                                 /\ Claimed(p) = {} /\ DocumentFits(p)
                                 /\ effects' = Append(effects,
                                      [body |-> posts[p].body,
                                       key |-> Forwarded(posts[p].body.review),
                                       doc |-> posts[p].doc, held |-> Flagged(p)]))
  BY Zenon DEF Serve
<1>3. /\ DOMAIN posts' = DOMAIN posts
      /\ \A q \in DOMAIN posts : /\ posts'[q].body = posts[q].body
                                 /\ posts'[q].doc = posts[q].doc
                                 /\ posts'[q].awaited = posts[q].awaited
                                 /\ posts'[q].answer = IF q = p THEN e ELSE posts[q].answer
  <2>1. posts' = [posts EXCEPT ![p] = [posts[p] EXCEPT !.answer = e]]
    <3>1. Answer(p, e)
      BY <1>2
    <3> QED BY Zenon, <3>1 DEF Answer
  <2>2. posts[p] \in PostType /\ posts \in Seq(PostType)
    BY <1>1, Reads
  <2> DEFINE new == [posts[p] EXCEPT !.answer = e]
  <2>3. /\ new.body = posts[p].body /\ new.doc = posts[p].doc
        /\ new.awaited = posts[p].awaited /\ new.answer = e
    BY <2>2 DEF PostType
  <2> HIDE DEF new
  <2>4. /\ DOMAIN posts' = DOMAIN posts
        /\ \A q \in DOMAIN posts : posts'[q] = IF q = p THEN new ELSE posts[q]
    BY <2>1, <2>2 DEF new
  <2> QED BY <2>3, <2>4
<1>4. /\ \A f \in DOMAIN effects : f \in DOMAIN effects' /\ effects'[f] = effects[f]
      /\ e \in DOMAIN effects' /\ effects'[e].body.review = posts[p].body.review
      /\ \A f \in DOMAIN effects' \ DOMAIN effects :
            /\ Claimed(p) = {} /\ DocumentFits(p) /\ f = Len(effects) + 1
            /\ effects'[f].body = posts[p].body /\ effects'[f].key = posts[p].body.review
            /\ effects'[f].doc = posts[p].doc
  <2>1. CASE e \in Claimed(p) /\ UNCHANGED effects
    BY <2>1 DEF Inv, Claimed, Forwarded, KeysAreReviews, Effect
  <2>2. CASE ~(e \in Claimed(p) /\ UNCHANGED effects)
    <3> DEFINE new == [body |-> posts[p].body, key |-> Forwarded(posts[p].body.review),
                       doc |-> posts[p].doc, held |-> Flagged(p)]
    <3>1. /\ e = Len(effects) + 1 /\ Claimed(p) = {} /\ DocumentFits(p)
          /\ effects' = Append(effects, new)
      BY <1>2, <2>2
    <3>2. new.body = posts[p].body /\ new.key = posts[p].body.review /\ new.doc = posts[p].doc
      BY DEF Forwarded
    <3> HIDE DEF new
    <3>3. /\ DOMAIN effects' = DOMAIN effects \cup {Len(effects) + 1}
          /\ \A f \in DOMAIN effects : effects'[f] = effects[f] /\ f # Len(effects) + 1
          /\ effects'[Len(effects) + 1] = new
      BY <1>1, <3>1, Reads
    <3> QED BY <3>1, <3>2, <3>3
  <2> QED BY <2>1, <2>2
<1>5. posts[p].body.review # 0
  BY <1>1, Reads
<1>6. ReviewHasKey' /\ ConfirmedIsTold'
  BY <1>1 DEF Inv, ReviewHasKey, At, ConfirmedIsTold
<1>7. AwaitedIsShown'
  BY <1>1, <1>3 DEF Inv, AwaitedIsShown
<1>8. AnswerIsOwn'
  BY <1>1, <1>3, <1>4 DEF Inv, AnswerIsOwn, Effect
<1>9. DocumentsExist'
  BY <1>1, <1>3, <1>4 DEF Inv, DocumentsExist
<1>10. DocumentFitsEffect'
  BY <1>1, <1>4 DEF Inv, DocumentFitsEffect, DocumentFits, Effect
<1>11. KeysAreReviews'
  BY <1>4 DEF Inv, KeysAreReviews, Effect
<1>12. ReviewPaidOnce'
  BY <1>4, <1>5 DEF Inv, ReviewPaidOnce, KeysAreReviews, Claimed, Forwarded, Effect
<1>13. PaidAsShown'
  BY <1>1, <1>4 DEF Inv, PaidAsShown, AnswerIsOwn, Effect
<1>14. ReceiptExists' /\ ReceiptIsOwn'
  BY <1>1, <1>4 DEF Inv, ReceiptExists, ReceiptIsOwn, At, Effect
<1> QED BY <1>6, <1>7, <1>8, <1>9, <1>10, <1>11, <1>12, <1>13, <1>14 DEF Inv

\* An answer is heard, or nobody hears it any more: nothing is awaited then.
LEMMA SilenceInv ==
  ASSUME Inv, TypeOK', UNCHANGED <<effects, confirmed>>,
         \A u \in DOMAIN uploads : u \in DOMAIN uploads' /\ uploads'[u].amount = uploads[u].amount,
         \A q \in DOMAIN posts' :
           /\ ~posts'[q].awaited
           /\ \E k \in DOMAIN posts : /\ posts'[q].body = posts[k].body
                                      /\ posts'[q].doc = posts[k].doc
                                      /\ posts'[q].answer = posts[k].answer,
         page'.busy = FALSE, page'.key = page.key, page'.doc \in {page.doc, 0},
         page'.step = 2 => page.step = 2,
         page'.step = 3 => /\ page'.result \in DOMAIN effects
                           /\ effects[page'.result].body.review = page.key,
         \A r \in Reviews : told[r] # "nothing" \/ (r = page.key /\ page.busy) => told'[r] # "nothing"
  PROVE  Inv'
<1>1. TypeOK
  BY DEF Inv
<1>2. ReviewHasKey' /\ AwaitedIsShown'
  BY DEF Inv, ReviewHasKey, At, AwaitedIsShown
<1>3. AnswerIsOwn' /\ DocumentsExist'
  BY DEF Inv, AnswerIsOwn, DocumentsExist, Effect
<1>4. KeysAreReviews' /\ ReviewPaidOnce' /\ PaidAsShown' /\ DocumentFitsEffect'
  BY DEF Inv, KeysAreReviews, ReviewPaidOnce, PaidAsShown, DocumentFitsEffect, DocumentsExist,
         Effect
<1>5. ReceiptExists' /\ ReceiptIsOwn'
  BY DEF ReceiptExists, ReceiptIsOwn, At, Effect
<1>6. ConfirmedIsTold'
  BY <1>1, Reads DEF Inv, ConfirmedIsTold
<1> QED BY <1>2, <1>3, <1>4, <1>5, <1>6 DEF Inv

\* A payment goes, with its answer or without.
LEMMA RemovedPosts ==
  ASSUME TypeOK, NEW p \in DOMAIN posts, posts' = RemoveAt(posts, p)
  PROVE  \A q \in DOMAIN posts' : \E k \in DOMAIN posts :
           k # p /\ posts'[q] = posts[k] /\ k = IF q < p THEN q ELSE q + 1
  BY Reads, RemoveAtElements

LEMMA HeardInv ==
  ASSUME Inv, TypeOK', NEW p \in DOMAIN posts, Succeed(p) \/ Refuse(p) \/ GiveUp(p)
  PROVE  Inv'
<1>1. /\ TypeOK /\ posts[p].awaited /\ page.busy /\ page.step = 2
      /\ posts[p].body.review = page.key
  BY DEF Inv, AwaitedIsShown, ReviewHasKey, At, Succeed, Heard, Refuse, GiveUp
<1>2. UNCHANGED <<uploads, effects, confirmed>>
  BY DEF Succeed, Refuse, GiveUp
<1>3. /\ page'.busy = FALSE /\ page'.key = page.key /\ page'.doc = page.doc
      /\ Succeed(p) => page'.result = posts[p].answer
      /\ ~Succeed(p) => page'.step = 2
  BY <1>1, Reads DEF Succeed, Refuse, GiveUp, PageType
<1>4. ASSUME NEW q \in DOMAIN posts'
      PROVE  /\ ~posts'[q].awaited
             /\ \E k \in DOMAIN posts : /\ posts'[q].body = posts[k].body
                                        /\ posts'[q].doc = posts[k].doc
                                        /\ posts'[q].answer = posts[k].answer
  <2>1. \A k \in DOMAIN posts : posts[k].awaited => k = p
    BY <1>1 DEF Inv, AwaitedIsShown
  <2>2. CASE posts' = RemoveAt(posts, p)
    BY <1>1, <2>1, <2>2, RemovedPosts
  <2>3. CASE GiveUp(p)
    <3>1. posts' = [posts EXCEPT ![p] = [posts[p] EXCEPT !.awaited = FALSE]]
      BY Zenon, <2>3 DEF GiveUp
    <3>2. posts[p] \in PostType /\ posts \in Seq(PostType)
      BY <1>1, Reads
    <3> DEFINE new == [posts[p] EXCEPT !.awaited = FALSE]
    <3>3. /\ new.body = posts[p].body /\ new.doc = posts[p].doc
          /\ new.answer = posts[p].answer /\ new.awaited = FALSE
      BY <3>2 DEF PostType
    <3>4. q \in DOMAIN posts /\ posts'[q] = IF q = p THEN new ELSE posts[q]
      BY <3>1, <3>2
    <3> HIDE DEF new
    <3> QED BY <2>1, <3>3, <3>4
  <2> QED BY <2>2, <2>3 DEF Succeed, Refuse
<1>5. page'.step = 3 => /\ page'.result \in DOMAIN effects
                        /\ effects[page'.result].body.review = page.key
  BY <1>1, <1>3 DEF Inv, AnswerIsOwn, Effect, Succeed
<1>6. \A r \in Reviews : told[r] # "nothing" \/ (r = page.key /\ page.busy) => told'[r] # "nothing"
  BY <1>1, Reads DEF Succeed, Refuse, GiveUp, Tell
<1> QED BY <1>1, <1>2, <1>3, <1>4, <1>5, <1>6, SilenceInv

LEMMA ForgetInv ==
  ASSUME Inv, TypeOK', NEW p \in DOMAIN posts, Forget(p)
  PROVE  Inv'
<1>1. TypeOK /\ UNCHANGED <<page, uploads, effects, confirmed, told>> /\ p \in Nat
  BY Reads DEF Inv, Forget
<1>2. \A q \in DOMAIN posts' : \E k \in DOMAIN posts :
        posts'[q] = posts[k] /\ k = IF q < p THEN q ELSE q + 1
  BY <1>1, RemovedPosts DEF Forget
<1>3. \A q \in DOMAIN posts' : q \in Nat
  BY <1>1, Reads DEF Forget, TypeOK, RestTyped
<1>4. ReviewHasKey' /\ ReceiptExists' /\ ConfirmedIsTold' /\ KeysAreReviews' /\ ReviewPaidOnce'
      /\ PaidAsShown' /\ ReceiptIsOwn' /\ DocumentFitsEffect'
  BY <1>1 DEF Inv, ReviewHasKey, At, ReceiptExists, ConfirmedIsTold, KeysAreReviews, ReviewPaidOnce,
              PaidAsShown, ReceiptIsOwn, DocumentFitsEffect, Effect
<1>5. AwaitedIsShown'
  BY <1>1, <1>2, <1>3 DEF Inv, AwaitedIsShown
<1>6. AnswerIsOwn' /\ DocumentsExist'
  BY <1>1, <1>2 DEF Inv, AnswerIsOwn, DocumentsExist, Effect
<1> QED BY <1>4, <1>5, <1>6 DEF Inv

LEMMA LeaveInv ==
  ASSUME Inv, TypeOK', Leave
  PROVE  Inv'
<1>1. TypeOK /\ UNCHANGED <<effects, confirmed>>
  BY DEF Inv, Leave
<1>2. page'.step = 0 /\ page'.key = page.key /\ page'.busy = FALSE /\ page'.doc = 0
  BY DEF Leave, Blank
<1>3. \A u \in DOMAIN uploads : u \in DOMAIN uploads' /\ uploads'[u].amount = uploads[u].amount
  <2>1. \A x \in UploadType : [x EXCEPT !.state = IF @ = "pending" THEN "failed" ELSE @].amount = x.amount
    BY DEF UploadType
  <2>2. \A u \in DOMAIN uploads : uploads[u] \in UploadType
    BY <1>1, Reads
  <2> QED BY <2>1, <2>2 DEF Leave
<1>4. \A q \in DOMAIN posts' :
        /\ ~posts'[q].awaited
        /\ \E k \in DOMAIN posts : /\ posts'[q].body = posts[k].body
                                   /\ posts'[q].doc = posts[k].doc
                                   /\ posts'[q].answer = posts[k].answer
  <2>1. \A x \in PostType : LET y == [x EXCEPT !.awaited = FALSE]
                            IN  ~y.awaited /\ y.body = x.body /\ y.doc = x.doc /\ y.answer = x.answer
    BY DEF PostType
  <2>2. \A p \in DOMAIN posts : posts[p] \in PostType
    BY <1>1, Reads
  <2> QED BY <2>1, <2>2 DEF Leave
<1>5. \A r \in Reviews : told[r] # "nothing" \/ (r = page.key /\ page.busy) => told'[r] # "nothing"
  BY <1>1, Reads DEF Leave, Tell
<1>6. page'.doc \in {page.doc, 0} /\ page'.step # 2 /\ page'.step # 3
  BY <1>2
<1> QED BY <1>1, <1>2, <1>3, <1>4, <1>5, <1>6, SilenceInv

LEMMA NextInv ==
  ASSUME Inv, Next
  PROVE  Inv'
<1>1. TypeOK'
  BY StepTyped DEF Inv
<1>2. ASSUME Quiet PROVE Inv'
  BY <1>1, <1>2, QuietInv
<1>3. ASSUME NEW kind \in Kinds, Choose(kind) PROVE Inv'
  BY <1>2, <1>3, QuietSteps
<1>4. ASSUME NEW a \in Accounts, Type(a) PROVE Inv'
  BY <1>2, <1>4, QuietSteps
<1>5. ASSUME NEW a \in Accounts, Verified(a) PROVE Inv'
  BY <1>2, <1>5, QuietSteps
<1>6. ASSUME NEW m \in Amounts, SetAmount(m) PROVE Inv'
  BY <1>2, <1>6, QuietSteps
<1>7. ASSUME NEW u \in DOMAIN uploads, Analysed(u) PROVE Inv'
  BY <1>2, <1>7, QuietSteps
<1>8. CASE DropDocument \/ Reset \/ Verify \/ Analyse \/ Review \/ Edit
  BY <1>2, <1>8, QuietSteps
<1>9. CASE Confirm
  BY <1>1, <1>9, ConfirmInv
<1>10. CASE Leave
  BY <1>1, <1>10, LeaveInv
<1>11. ASSUME NEW p \in DOMAIN posts, Serve(p) PROVE Inv'
  BY <1>1, <1>11, ServeInv
<1>12. ASSUME NEW p \in DOMAIN posts, Succeed(p) PROVE Inv'
  BY <1>1, <1>12, HeardInv
<1>13. ASSUME NEW p \in DOMAIN posts, Refuse(p) PROVE Inv'
  BY <1>1, <1>13, HeardInv
<1>14. ASSUME NEW p \in DOMAIN posts, GiveUp(p) PROVE Inv'
  BY <1>1, <1>14, HeardInv
<1>15. ASSUME NEW p \in DOMAIN posts, Forget(p) PROVE Inv'
  BY <1>1, <1>15, ForgetInv
<1>16. CASE \E p \in DOMAIN posts :
              Serve(p) \/ Succeed(p) \/ Refuse(p) \/ GiveUp(p) \/ Forget(p)
  BY <1>11, <1>12, <1>13, <1>14, <1>15, <1>16
<1> QED BY <1>3, <1>4, <1>5, <1>6, <1>7, <1>8, <1>9, <1>10, <1>16 DEF Next

LEMMA StepInv == Inv /\ [Next]_vars => Inv'
<1> SUFFICES ASSUME Inv, [Next]_vars PROVE Inv'
  OBVIOUS
<1>1. CASE UNCHANGED vars
  BY <1>1 DEF vars, Inv, TypeOK, RestTyped, ReviewHasKey, At, AwaitedIsShown, AnswerIsOwn,
      DocumentsExist, KeysAreReviews, ReceiptExists, ConfirmedIsTold, ReviewPaidOnce,
      PaidAsShown, ReceiptIsOwn, DocumentFitsEffect, Effect
<1>2. CASE Next
  BY <1>2, NextInv
<1> QED BY <1>1, <1>2

\* The invariant holds in every state: in particular a review is paid or held once
\* and as it was confirmed, with a document that was analysed for its amount, and
\* the receipt on the screen is its own.
THEOREM Invariant == Spec => []Inv
  BY InitInv, StepInv, PTL DEF Spec

\* However often a review is confirmed, it is paid or held once.
THEOREM PaidOnce == Spec => []ReviewPaidOnce
<1>1. Inv => ReviewPaidOnce
  BY DEF Inv
<1> QED BY <1>1, Invariant, PTL

\* Late lookups cannot redirect a payment unseen: it is paid as it was confirmed,
\* and with no document that was analysed for another amount.
THEOREM NoRedirection == Spec => []PaidAsConfirmed
<1>1. Inv => PaidAsConfirmed
  BY DEF Inv, PaidAsShown, DocumentFitsEffect, PaidAsConfirmed
<1> QED BY <1>1, Invariant, PTL

\* The receipt on the screen is that of the last review.
THEOREM OwnReceipt == Spec => []ReceiptIsOwn
<1>1. Inv => ReceiptIsOwn
  BY DEF Inv
<1> QED BY <1>1, Invariant, PTL

\* Nobody is charged by two reviews before hearing of the first one.
THEOREM SecondChargeIsWarned == Spec => []SecondChargeWasWarned
<1>1. Inv => SecondChargeWasWarned
  <2> SUFFICES ASSUME Inv, NEW e \in DOMAIN effects, NEW f \in DOMAIN effects,
                      Effect(e).review < Effect(f).review
               PROVE  told[Effect(e).review] # "nothing"
    BY DEF SecondChargeWasWarned
  <2>1. /\ Effect(f).review <= page.key /\ page.key \in Nat
        /\ Effect(e).review \in Reviews /\ Effect(f).review \in Reviews
        /\ told[Effect(e).review] # "nothing" \/ Effect(e).review = page.key
    BY Reads DEF Inv, PaidAsShown, ConfirmedIsTold
  <2> QED BY <2>1, PaymentsAssumption DEF Reviews
<1> QED BY <1>1, Invariant, PTL

=============================================================================
