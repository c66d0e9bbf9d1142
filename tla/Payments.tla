------------------------------ MODULE Payments ------------------------------
(***************************************************************************)
(* A customer pays: the wizard of customer_frontend, its document upload,  *)
(* the lookup of a recipient, the gateway in between, and what             *)
(* account-service does with the requests that reach it, in AccountService's *)
(* short form.                                                             *)
(*                                                                         *)
(* Answers arrive late, out of order or never; a request whose sender gave *)
(* up goes on.  The browser waits 10 seconds for a payment and the gateway *)
(* 15, so nobody hears the gateway's own timeout, and it is left out.      *)
(* Left out too: the balance the page compares the amount with, which may  *)
(* be missing, and references.  The two kinds of payee are one.            *)
(*                                                                         *)
(* An operator marked "Mutant" is the definition below it with a plausible *)
(* bug; no specification uses it.                                          *)
(***************************************************************************)
EXTENDS Integers, Sequences, SequencesExt

CONSTANTS
  Kinds,       \* of a transaction: among "TRANSFER", "BILL_PAYMENT", "WITHDRAW"
  Accounts,    \* others' accounts, and payees
  Nobody,      \* no account
  Amounts,     \* what may be typed
  MaxReviews,  \* bound: times the page goes to its review
  MaxClicks,   \* bound: clicks on Confirm
  MaxLookups,  \* bound: lookups in flight
  MaxUploads   \* bound: uploads of documents

ASSUME PaymentsAssumption ==
  /\ Nobody \notin Accounts
  /\ Amounts \subseteq Nat \ {0}
  /\ MaxReviews \in Nat /\ MaxClicks \in Nat /\ MaxLookups \in Nat /\ MaxUploads \in Nat

VARIABLES
  page,      \* the wizard
  lookups,   \* [account -> lookups of it in flight]
  uploads,   \* the amounts that documents were uploaded for, and what became of them
  posts,     \* payments on their way, oldest first
  effects,   \* what account-service did
  confirmed, \* history: what was on the screen when Confirm was clicked
  told,      \* history: what the customer last heard of each review
  clicks     \* counter behind the bound

vars == <<page, lookups, uploads, posts, effects, confirmed, told, clicks>>

Reviews == 1..MaxReviews

\* The state of a page just opened.  The key is the number of the review that
\* minted it; field is the recipient's id or the payee's code.
Blank == [step |-> 0, kind |-> "none", field |-> Nobody, recipient |-> Nobody, amount |-> 0,
          doc |-> 0, key |-> 0, analysing |-> FALSE, busy |-> FALSE, error |-> FALSE, result |-> 0]

At(step) == page.step = step

-----------------------------------------------------------------------------
(* Filling in.                                                             *)

Fill(new) ==
  /\ page' = new
  /\ UNCHANGED <<lookups, uploads, posts, effects, confirmed, told, clicks>>

\* choose: the keys of old payments, lookups and uploads live on.
Choose(kind) ==
  /\ At(0)
  /\ Fill([Blank EXCEPT !.step = 1, !.kind = kind, !.key = page.key])

\* The onChange of the recipient, or of the payee.
Type(a) ==
  /\ At(1) /\ page.kind # "WITHDRAW"
  /\ Fill([page EXCEPT !.field = a, !.recipient = Nobody])

\* A document analysed for another amount is dropped when the amount changes, and
\* when the upload box is mounted again.
Fitting(doc, amount) == IF doc # 0 /\ uploads[doc].amount = amount THEN doc ELSE 0

SetAmount(m) ==
  /\ At(1)
  /\ Fill([page EXCEPT !.amount = m, !.doc = Fitting(@, m)])

\* pick and clear
DropDocument == At(1) /\ Fill([page EXCEPT !.doc = 0])

\* Back, and "New transaction": only these fields are cleared.
Reset ==
  /\ At(1) \/ At(3)
  /\ Fill([page EXCEPT !.step = 0, !.kind = "none", !.recipient = Nobody, !.result = 0,
                       !.error = FALSE, !.analysing = FALSE])

\* verifyRecipient: the button is disabled meanwhile, the Enter key is not.
Verify ==
  /\ At(1) /\ page.kind = "TRANSFER" /\ page.field # Nobody
  /\ lookups[page.field] < MaxLookups
  /\ page' = [page EXCEPT !.recipient = Nobody]
  /\ lookups' = [lookups EXCEPT ![page.field] = @ + 1]
  /\ UNCHANGED <<uploads, posts, effects, confirmed, told, clicks>>

\* Its answer, wherever the page is by now; an error changes nothing.
Verified(a) ==
  /\ lookups[a] > 0
  /\ lookups' = [lookups EXCEPT ![a] = @ - 1]
  /\ \/ page' = [page EXCEPT !.recipient = a]
     \/ UNCHANGED page
  /\ UNCHANGED <<uploads, posts, effects, confirmed, told, clicks>>

\* analyse
Analyse ==
  /\ At(1) /\ page.amount # 0 /\ page.doc = 0 /\ ~page.analysing
  /\ Len(uploads) < MaxUploads
  /\ uploads' = Append(uploads, [amount |-> page.amount, state |-> "pending"])
  /\ page' = [page EXCEPT !.analysing = TRUE]
  /\ UNCHANGED <<lookups, posts, effects, confirmed, told, clicks>>

\* Its answer goes to the wizard even if the box, or another visit to it, has gone;
\* busy is the box's own.
Analysed(u) ==
  /\ uploads[u].state = "pending"
  /\ \E state \in {"CLEAN", "SUSPICIOUS", "failed"} :
       /\ uploads' = [uploads EXCEPT ![u].state = state]
       /\ page' = [page EXCEPT !.doc = IF state = "failed" THEN @ ELSE u,
                               !.analysing = @ /\ u # Len(uploads)]
  /\ UNCHANGED <<lookups, posts, effects, confirmed, told, clicks>>

-----------------------------------------------------------------------------
(* Review and confirmation.                                                *)

\* detailsValid
Valid ==
  /\ page.amount # 0
  /\ page.kind = "TRANSFER" => page.recipient # Nobody
  /\ page.kind = "BILL_PAYMENT" => page.field # Nobody

\* goReview
Review ==
  /\ At(1) /\ Valid
  /\ page.key < MaxReviews
  /\ Fill([page EXCEPT !.step = 2, !.key = @ + 1, !.error = FALSE, !.analysing = FALSE])

\* Mutant.
EditAnytime == At(2) /\ Fill([page EXCEPT !.step = 1, !.doc = Fitting(@, page.amount)])

Edit ==
  /\ At(2) /\ ~page.busy
  /\ Fill([page EXCEPT !.step = 1, !.doc = Fitting(@, page.amount)])

\* What the review shows.
Shown == [review |-> page.key, amount |-> page.amount,
          payee |-> CASE page.kind = "TRANSFER"     -> page.recipient
                      [] page.kind = "BILL_PAYMENT" -> page.field
                      [] OTHER                      -> Nobody]

\* Mutant.
BodyFromForm == [Shown EXCEPT !.payee = page.field]

\* The body that submit sends.
Body == Shown

\* submit
Confirm ==
  /\ At(2) /\ ~page.busy
  /\ clicks < MaxClicks
  /\ clicks' = clicks + 1
  /\ page' = [page EXCEPT !.busy = TRUE, !.error = FALSE]
  /\ posts' = Append(posts, [body |-> Body, doc |-> page.doc, answer |-> 0, awaited |-> TRUE])
  /\ confirmed' = confirmed \cup {Shown}
  /\ UNCHANGED <<lookups, uploads, effects, told>>

-----------------------------------------------------------------------------
(* The gateway and account-service.                                        *)

\* Mutant.
HeaderDropped(key) == 0

\* fwdHeaders: the key the service sees, 0 for none.
Forwarded(key) == key

\* createTransaction claims the key first and replays what is stored under it.
Claimed(p) == {e \in DOMAIN effects : effects[e].key = Forwarded(posts[p].body.review)
                                      /\ effects[e].key # 0}

\* checkDocument: not attached yet, and analysed for this amount.
DocumentFits(p) ==
  posts[p].doc # 0 =>
    /\ uploads[posts[p].doc].amount = posts[p].body.amount
    /\ \A e \in DOMAIN effects : effects[e].doc = posts[p].doc => effects[e].held

Flagged(p) == posts[p].doc # 0 /\ uploads[posts[p].doc].state = "SUSPICIOUS"

Answer(p, e) == posts' = [posts EXCEPT ![p].answer = e]

\* The request is served: replayed, or executed or held.
Serve(p) ==
  /\ posts[p].answer = 0
  /\ \/ /\ Claimed(p) # {}
        /\ \E e \in Claimed(p) : Answer(p, e)
        /\ UNCHANGED effects
     \/ /\ Claimed(p) = {} /\ DocumentFits(p)
        /\ effects' = Append(effects, [body |-> posts[p].body, key |-> Forwarded(posts[p].body.review),
                                       doc |-> posts[p].doc, held |-> Flagged(p)])
        /\ Answer(p, Len(effects) + 1)
  /\ UNCHANGED <<page, lookups, uploads, confirmed, told, clicks>>

Tell(what) == told' = [told EXCEPT ![page.key] = what]

\* Mutant.
Overheard(p) == page.busy

\* axios settles a promise once.
Heard(p) == posts[p].awaited

\* The result arrives.
Succeed(p) ==
  /\ posts[p].answer # 0 /\ Heard(p)
  /\ page' = [page EXCEPT !.busy = FALSE, !.result = posts[p].answer, !.step = 3]
  /\ posts' = RemoveAt(posts, p)
  /\ Tell("done")
  /\ UNCHANGED <<lookups, uploads, effects, confirmed, clicks>>

\* An error arrives: the rate limiter, the gateway or the service turned the
\* request away, or the acknowledgement of its COMMIT was lost; nothing of it goes on.
Refuse(p) ==
  /\ posts[p].awaited
  /\ page' = [page EXCEPT !.busy = FALSE, !.error = TRUE]
  /\ posts' = RemoveAt(posts, p)
  /\ Tell("error")
  /\ UNCHANGED <<lookups, uploads, effects, confirmed, clicks>>

\* The browser has waited 10 seconds, or the connection broke: the request goes on.
GiveUp(p) ==
  /\ posts[p].awaited
  /\ page' = [page EXCEPT !.busy = FALSE, !.error = TRUE]
  /\ posts' = [posts EXCEPT ![p].awaited = FALSE]
  /\ Tell("error")
  /\ UNCHANGED <<lookups, uploads, effects, confirmed, clicks>>

\* A request nobody awaits any more is over.
Forget(p) ==
  /\ ~posts[p].awaited
  /\ posts' = RemoveAt(posts, p)
  /\ UNCHANGED <<page, lookups, uploads, effects, confirmed, told, clicks>>

\* The customer goes elsewhere in the dashboard, or a 401 leads to the login page.
Leave ==
  /\ ~At(0)
  /\ page' = [Blank EXCEPT !.key = page.key]
  /\ lookups' = [a \in Accounts |-> 0]
  /\ uploads' = [u \in DOMAIN uploads |-> [uploads[u] EXCEPT
                   !.state = IF @ = "pending" THEN "failed" ELSE @]]
  /\ posts' = [p \in DOMAIN posts |-> [posts[p] EXCEPT !.awaited = FALSE]]
  /\ IF page.busy THEN Tell("left") ELSE UNCHANGED told
  /\ UNCHANGED <<effects, confirmed, clicks>>

-----------------------------------------------------------------------------

Init ==
  /\ page = Blank
  /\ lookups = [a \in Accounts |-> 0]
  /\ uploads = <<>>
  /\ posts = <<>>
  /\ effects = <<>>
  /\ confirmed = {}
  /\ told = [r \in Reviews |-> "nothing"]
  /\ clicks = 0

Next ==
  \/ \E kind \in Kinds : Choose(kind)
  \/ \E a \in Accounts : Type(a) \/ Verified(a)
  \/ \E m \in Amounts : SetAmount(m)
  \/ DropDocument \/ Reset \/ Verify \/ Analyse
  \/ \E u \in DOMAIN uploads : Analysed(u)
  \/ Review \/ Edit \/ Confirm \/ Leave
  \/ \E p \in DOMAIN posts : Serve(p) \/ Succeed(p) \/ Refuse(p) \/ GiveUp(p) \/ Forget(p)

Spec == Init /\ [][Next]_vars

-----------------------------------------------------------------------------
(* Properties.                                                             *)

Effect(e) == effects[e].body

\* However often a review is confirmed, by double clicks or by retries after
\* errors that came when the money had moved, it is paid or held once.
ReviewPaidOnce ==
  \A e \in DOMAIN effects, f \in DOMAIN effects : Effect(e).review = Effect(f).review => e = f

\* Whom the bank pays, and how much, was on the screen when that review was
\* confirmed: late lookups cannot redirect a payment unseen.  And no payment rests
\* on a document analysed for another amount, though the page may attach one when
\* an analysis is late.
PaidAsConfirmed ==
  \A e \in DOMAIN effects :
    /\ Effect(e) \in confirmed
    /\ effects[e].doc # 0 => uploads[effects[e].doc].amount = Effect(e).amount

\* The receipt on the screen is that of the last review and not of an earlier one.
ReceiptIsOwn == At(3) => Effect(page.result).review = page.key

\* A customer is charged by two reviews only after hearing of the first: its
\* receipt, an error, or leaving the page while it was on its way.
SecondChargeWasWarned ==
  \A e \in DOMAIN effects, f \in DOMAIN effects :
    Effect(e).review < Effect(f).review => told[Effect(e).review] # "nothing"

=============================================================================
