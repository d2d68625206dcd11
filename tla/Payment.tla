------------------------------ MODULE Payment -------------------------------
(***************************************************************************)
(* PaymentService on one checkout, until a payment is captured: creating   *)
(* and retrying payments, the attempts opened at a gateway, and the four   *)
(* ways the gateway's word comes back (webhook, replayed webhook, browser  *)
(* return, reconciliation).  Every database and gateway call that matters  *)
(* is a step; call[c] holds what a call has read and carries over awaits.  *)
(*                                                                         *)
(* A save of a payment writes the fields that were changed since it was    *)
(* read, with no condition on what the document has become.                *)
(*                                                                         *)
(* A behaviour takes place under one of the given circumstances: whether   *)
(* calls may overlap, and whether they may die or meet a database error.   *)
(* What becomes of a captured payment afterwards is in modules Refund and  *)
(* OrderFulfilment.                                                        *)
(***************************************************************************)
EXTENDS Integers, FiniteSets

CONSTANTS
  Gateways,      (* the gateways offered                                   *)
  Can,           (* gateway -> its features, see Features                  *)
  MaxTries,      (* maxAttempts of a payment                               *)
  Calls,         (* calls that may be under way at once                    *)
  Circumstances  (* the circumstances behaviours take place under          *)

(* Bounds of the model.                                                    *)
CONSTANTS
  MaxPayments,   (* payment documents ever made                            *)
  MaxAttempts,   (* attempt documents ever made                            *)
  MaxWords,      (* decisions of the gateways, over all attempts           *)
  MaxDeaths      (* deaths and database errors                             *)

(* notify: it sends webhooks; replay: unfinished ones are swept up; verify: *)
(* it can be asked; askAll: for every attempt, not the latest only; return: *)
(* the browser brings its signed word; shareId: its notices carry an id of *)
(* the payment that they share.                                            *)
Features == {"notify", "replay", "verify", "askAll", "return", "shareId"}

ASSUME PaymentConstants ==
  /\ Gateways # {}
  /\ Can \in [Gateways -> SUBSET Features]
  /\ MaxTries \in Nat /\ MaxPayments \in Nat \ {0} /\ MaxAttempts \in Nat \ {0}
  /\ MaxDeaths \in Nat
  /\ Circumstances \subseteq [overlap : BOOLEAN, crash : BOOLEAN]

VARIABLES
  under,    (* the circumstances of this behaviour                         *)
  deaths,   (* deaths and database errors so far                           *)
  payment,  (* payment id -> its document; ids in the order of creation    *)
  attempt,  (* attempt id -> its document                                  *)
  said,     (* attempt id -> what the gateway has decided and may report   *)
  record,   (* webhook event -> its payment_webhooks document              *)
  told,     (* payments with a published PAYMENT_SUCCEEDED                 *)
  wasPaid,  (* payments that were once saved as paid; a history variable   *)
  call      (* call -> where it is suspended and what it carries           *)

vars == << under, deaths, payment, attempt, said, record, told, wasPaid, call >>

Payments == 1 .. MaxPayments
Attempts == 1 .. MaxAttempts
Notices == {"pending", "paid", "failed"}
Events == Attempts \X (Notices \cup {"any"})

(* "failed" stands for cancelled as well; no gateway reports "authorized". *)
Statuses == {"none", "pending", "processing", "paid", "failed", "expired"}
InFlight == {"pending", "processing"}
Retryable == {"failed", "expired"}

StatusFor == [pending |-> "processing", paid |-> "paid", failed |-> "failed"]

Labels == {"idle", "create", "switch", "expire", "retry", "reopen", "attempt", "gateway",
           "session", "answer", "fail", "hook", "hookSave", "hookClose", "hookTell",
           "verify", "record", "tell"}

AnyGateway == CHOOSE g \in Gateways : TRUE

NoPayment == [status |-> "none", via |-> AnyGateway, count |-> 0]
NoAttempt == [of |-> 0, number |-> 0, via |-> AnyGateway, made |-> FALSE, sent |-> FALSE]
AtRest == [pc |-> "idle", p |-> 1, a |-> 1, via |-> AnyGateway, count |-> 0,
           seen |-> "none", says |-> "pending"]

Init ==
  /\ under   \in Circumstances
  /\ deaths  = 0
  /\ payment = [p \in Payments |-> NoPayment]
  /\ attempt = [a \in Attempts |-> NoAttempt]
  /\ said    = [a \in Attempts |-> {}]
  /\ record  = [e \in Events |-> "none"]
  /\ told    = {}
  /\ wasPaid = {}
  /\ call    = [c \in Calls |-> AtRest]

MayBegin(c) ==
  /\ call[c].pc = "idle"
  /\ under.overlap \/ \A d \in Calls : call[d].pc = "idle"

Suspend(c, carried) == call' = [call EXCEPT ![c] = carried]
Goto(c, label) == Suspend(c, [call[c] EXCEPT !.pc = label])
Leave(c) == Suspend(c, AtRest)

Made == {p \in Payments : payment[p].status # "none"}
AttemptsOf(p) == {a \in Attempts : attempt[a].of = p}

(* The bounds: a call that will make a document finds room for it.         *)
Attempting == {"create", "switch", "expire", "retry", "reopen", "attempt"}
RoomForAttempt ==
  Cardinality({c \in Calls : call[c].pc \in Attempting}) < Cardinality(AttemptsOf(0))
RoomForPayment ==
  Cardinality({c \in Calls : call[c].pc = "create"}) < Cardinality(Payments \ Made)

(* save(): a status that is what was read is not written.                  *)
SaveStatus(p, seen, status) ==
  /\ payment' = [payment EXCEPT ![p].status = IF status = seen THEN @ ELSE status]
  /\ wasPaid' = IF status = "paid" THEN wasPaid \cup {p} ELSE wasPaid

-----------------------------------------------------------------------------
(* createPayment, the read of the checkout's newest payment.  A payment    *)
(* that is paid, or in flight with a redirect, is returned as it is.       *)
(* Whether expiresAt has passed is left open at every read.                *)
FindPayment(c, g) ==
  /\ MayBegin(c) /\ RoomForAttempt
  /\ \/ /\ Made = {} /\ RoomForPayment
        /\ Suspend(c, [AtRest EXCEPT !.pc = "create", !.via = g])
     \/ \E p \in Made :
          /\ \A q \in Made : q <= p
          /\ LET d == payment[p]
                 Take(label) == Suspend(c, [AtRest EXCEPT !.pc = label, !.p = p, !.via = g,
                                              !.count = d.count, !.seen = d.status])
             IN
             \/ d.status \in InFlight /\ d.via # g /\ Take("switch")
             \/ d.status \in InFlight /\ d.via = g /\ d.count = 0 /\ Take("attempt")
             \/ d.status \in InFlight /\ Take("expire")
             \/ d.status \in Retryable /\ Take("retry")
  /\ UNCHANGED << under, deaths, payment, attempt, said, record, told, wasPaid >>

(* PaymentModel.create: nothing in the collection refuses a second payment *)
(* for the checkout.                                                       *)
CreateDocument(c) ==
  /\ call[c].pc = "create"
  /\ \E p \in Payments \ Made :
       /\ \A q \in Payments \ Made : p <= q
       /\ payment' = [payment EXCEPT ![p] = [NoPayment EXCEPT !.status = "pending",
                                                              !.via = call[c].via]]
       /\ Suspend(c, [call[c] EXCEPT !.pc = "attempt", !.p = p, !.seen = "pending"])
  /\ UNCHANGED << under, deaths, attempt, said, record, told, wasPaid >>

(* The customer has chosen another gateway.                                *)
SwitchGateway(c) ==
  /\ call[c].pc = "switch"
  /\ payment' = [payment EXCEPT ![call[c].p].via = call[c].via]
  /\ Goto(c, "attempt")
  /\ UNCHANGED << under, deaths, attempt, said, record, told, wasPaid >>

MarkExpired(c) ==
  /\ call[c].pc = "expire"
  /\ SaveStatus(call[c].p, call[c].seen, "expired")
  /\ Goto(c, "retry")
  /\ UNCHANGED << under, deaths, attempt, said, record, told >>

(* retryPayment, on its own or from createPayment: it reads the payment    *)
(* (anew), and the checkout may turn out not to be payable.                *)
RetryPayment(c, p, g) ==
  LET d == payment[p] IN
  /\ MayBegin(c) /\ RoomForAttempt
  /\ d.status \in Retryable /\ d.count < MaxTries
  /\ Suspend(c, [AtRest EXCEPT !.pc = "reopen", !.p = p, !.via = g, !.count = d.count])
  /\ UNCHANGED << under, deaths, payment, attempt, said, record, told, wasPaid >>

ReadForRetry(c) ==
  LET d == payment[call[c].p] IN
  /\ call[c].pc = "retry"
  /\ \/ /\ d.status \in Retryable /\ d.count < MaxTries
        /\ Suspend(c, [call[c] EXCEPT !.pc = "reopen", !.count = d.count, !.seen = "none"])
     \/ Leave(c)
  /\ UNCHANGED << under, deaths, payment, attempt, said, record, told, wasPaid >>

SaveReopened(c) ==
  /\ call[c].pc = "reopen"
  /\ payment' = [payment EXCEPT ![call[c].p] =
                   [@ EXCEPT !.status = "pending", !.via = call[c].via]]
  /\ Suspend(c, [call[c] EXCEPT !.pc = "attempt", !.seen = "pending"])
  /\ UNCHANGED << under, deaths, attempt, said, record, told, wasPaid >>

-----------------------------------------------------------------------------
(* createAttempt: the attempt's number follows on the count that was read; *)
(* with the payment's reference it is the order id the gateway sees.       *)
CreateAttempt(c) ==
  /\ call[c].pc = "attempt"
  /\ \E a \in AttemptsOf(0) :
       /\ \A b \in AttemptsOf(0) : a <= b
       /\ attempt' = [attempt EXCEPT ![a] = [of |-> call[c].p, number |-> call[c].count + 1,
                                             via |-> call[c].via, made |-> FALSE, sent |-> FALSE]]
       /\ Suspend(c, [AtRest EXCEPT !.pc = "gateway", !.p = call[c].p, !.a = a,
                                    !.seen = call[c].seen])
  /\ UNCHANGED << under, deaths, payment, said, record, told, wasPaid >>

OpenSession(c) ==
  /\ call[c].pc = "gateway"
  /\ attempt' = [attempt EXCEPT ![call[c].a].made = TRUE]
  /\ Goto(c, "session")
  /\ UNCHANGED << under, deaths, payment, said, record, told, wasPaid >>

SaveUncounted(c) ==         \* faulty: attemptCount is left as it was
  /\ call[c].pc = "session"
  /\ payment' = [payment EXCEPT ![call[c].p].status =
                   IF call[c].seen = "processing" THEN @ ELSE "processing"]
  /\ Suspend(c, [AtRest EXCEPT !.pc = "answer", !.p = call[c].p, !.a = call[c].a])
  /\ UNCHANGED << under, deaths, attempt, said, record, told, wasPaid >>

SaveSession(c) ==
  LET d == payment[call[c].p] IN
  /\ call[c].pc = "session"
  /\ payment' = [payment EXCEPT ![call[c].p] =
       [d EXCEPT !.count = attempt[call[c].a].number,
                 !.status = IF call[c].seen = "processing" THEN d.status ELSE "processing"]]
  /\ Suspend(c, [AtRest EXCEPT !.pc = "answer", !.p = call[c].p, !.a = call[c].a])
  /\ UNCHANGED << under, deaths, attempt, said, record, told, wasPaid >>

(* The customer gets the redirect, and only now can pay.                   *)
AnswerCustomer(c) ==
  /\ call[c].pc = "answer"
  /\ attempt' = [attempt EXCEPT ![call[c].a].sent = TRUE]
  /\ Leave(c)
  /\ UNCHANGED << under, deaths, payment, said, record, told, wasPaid >>

(* createSession fails, or a write after it does.  Then the changes that   *)
(* could not be saved are saved with the failure.                          *)
FailSession(c) ==
  /\ \/ /\ call[c].pc = "gateway"
        /\ UNCHANGED deaths
     \/ /\ call[c].pc \in {"session", "answer"}
        /\ under.crash /\ deaths < MaxDeaths
        /\ deaths' = deaths + 1
  /\ Suspend(c, [AtRest EXCEPT !.pc = "fail", !.p = call[c].p,
                               !.count = IF call[c].pc = "gateway" THEN 0
                                         ELSE attempt[call[c].a].number])
  /\ UNCHANGED << under, payment, attempt, said, record, told, wasPaid >>

SaveFailed(c) ==
  LET d == payment[call[c].p] IN
  /\ call[c].pc = "fail"
  /\ payment' = [payment EXCEPT ![call[c].p] =
       [d EXCEPT !.status = "failed",
                 !.count = IF call[c].count = 0 THEN d.count ELSE call[c].count]]
  /\ Leave(c)
  /\ UNCHANGED << under, deaths, attempt, said, record, told, wasPaid >>

-----------------------------------------------------------------------------
(* The gateway decides; a declined customer may try again on its page.     *)
Decide(a, o) ==
  /\ attempt[a].sent
  /\ o \notin said[a] /\ "paid" \notin said[a]
  /\ o = "pending" => said[a] = {}
  /\ Cardinality({w \in Attempts \X Notices : w[2] \in said[w[1]]}) < MaxWords
  /\ said' = [said EXCEPT ![a] = @ \cup {o}]
  /\ UNCHANGED << under, deaths, payment, attempt, record, told, wasPaid, call >>

(* The unique key of a notice's record.                                    *)
EventOf(a, o) == << a, IF "shareId" \in Can[attempt[a].via] THEN "any" ELSE o >>

NeedsReplayNever(state) == FALSE        \* faulty: whatever was seen is a duplicate
NeedsReplay(state) == state # "closed"

(* handleWebhook: a notice that comes for the first time, or again after   *)
(* its handling was not finished; any other one is a duplicate.            *)
Deliver(c, a, o) ==
  LET e == EventOf(a, o) IN
  /\ MayBegin(c)
  /\ o \in said[a]
  /\ "notify" \in Can[attempt[a].via]
  /\ \/ record[e] = "none"
     \/ record[e] # "none" /\ NeedsReplay(record[e])
  /\ record' = [record EXCEPT ![e] = IF @ = "none" THEN "open" ELSE @]
  /\ Suspend(c, [AtRest EXCEPT !.pc = "hook", !.a = a, !.p = attempt[a].of, !.says = o])
  /\ UNCHANGED << under, deaths, payment, attempt, said, told, wasPaid >>

Mark(c, state) == record' = [record EXCEPT ![EventOf(call[c].a, call[c].says)] = state]

JudgeUnguarded(c) ==        \* faulty: a late failure is not ignored after paid
  LET d == payment[call[c].p] IN
  /\ call[c].pc = "hook"
  /\ \/ /\ d.via # attempt[call[c].a].via
        /\ Mark(c, "rejected")
        /\ Leave(c)
     \/ /\ d.via = attempt[call[c].a].via
        /\ Suspend(c, [call[c] EXCEPT !.pc = "hookSave", !.seen = d.status])
        /\ UNCHANGED record
  /\ UNCHANGED << under, deaths, payment, attempt, said, told, wasPaid >>

JudgeNotice(c) ==
  LET d == payment[call[c].p] IN
  /\ call[c].pc = "hook"
  /\ \/ /\ d.via # attempt[call[c].a].via
        /\ Mark(c, "rejected")
        /\ Leave(c)
     \/ /\ d.via = attempt[call[c].a].via
        /\ d.status = "paid" /\ call[c].says # "paid"
        /\ Mark(c, "closed")
        /\ Leave(c)
     \/ /\ d.via = attempt[call[c].a].via
        /\ d.status = "paid" => call[c].says = "paid"
        /\ Suspend(c, [call[c] EXCEPT !.pc = "hookSave", !.seen = d.status])
        /\ UNCHANGED record
  /\ UNCHANGED << under, deaths, payment, attempt, said, told, wasPaid >>

SaveUnrecorded(c) ==        \* faulty: the record is closed before the payment is saved
  /\ call[c].pc = "hookSave"
  /\ Mark(c, "closed")
  /\ Suspend(c, [call[c] EXCEPT !.pc = "hookClose", !.seen = "none"])
  /\ UNCHANGED << under, deaths, payment, attempt, said, told, wasPaid >>

SaveNotice(c) ==
  /\ call[c].pc = "hookSave"
  /\ SaveStatus(call[c].p, call[c].seen, StatusFor[call[c].says])
  /\ Suspend(c, [call[c] EXCEPT !.pc = "hookClose", !.seen = "none"])
  /\ UNCHANGED << under, deaths, attempt, said, record, told >>

CloseNotice(c) ==
  /\ call[c].pc = "hookClose"
  /\ Mark(c, "closed")
  /\ IF call[c].says = "paid" THEN Goto(c, "hookTell") ELSE Leave(c)
  /\ UNCHANGED << under, deaths, payment, attempt, said, told, wasPaid >>

(* An error inside the handler leaves the record open.                     *)
FailNotice(c) ==
  /\ under.crash /\ deaths < MaxDeaths
  /\ call[c].pc \in {"hook", "hookSave", "hookClose", "hookTell"}
  /\ deaths' = deaths + 1
  /\ Mark(c, "open")
  /\ Leave(c)
  /\ UNCHANGED << under, payment, attempt, said, told, wasPaid >>

(* The replay sweep closes the record of a payment that is paid by now.    *)
SkipReplay(c, a) ==
  LET e == EventOf(a, "paid") IN
  /\ MayBegin(c)
  /\ attempt[a].of # 0 /\ "replay" \in Can[attempt[a].via]
  /\ record[e] = "open"
  /\ payment[attempt[a].of].status = "paid"
  /\ record' = [record EXCEPT ![e] = "closed"]
  /\ UNCHANGED << under, deaths, payment, attempt, said, told, wasPaid, call >>

Announce(c) ==
  /\ call[c].pc \in {"hookTell", "tell"}
  /\ told' = told \cup {call[c].p}
  /\ Leave(c)
  /\ UNCHANGED << under, deaths, payment, attempt, said, record, wasPaid >>

-----------------------------------------------------------------------------
(* handleMintpayBrowserReturn, handleKokoBrowserReturn: the gateway's word *)
(* brought by the browser, as often as the customer opens the page.        *)
ReturnPage(c, a, o) ==
  LET d == payment[attempt[a].of] IN
  /\ MayBegin(c)
  /\ attempt[a].of # 0
  /\ "return" \in Can[attempt[a].via]
  /\ o \in said[a] \ {"pending"}
  /\ \/ /\ d.status # "paid"
        /\ Suspend(c, [AtRest EXCEPT !.pc = "record", !.p = attempt[a].of, !.seen = d.status,
                                     !.says = o])
     \/ /\ d.status = "paid" /\ o = "paid"
        /\ Suspend(c, [AtRest EXCEPT !.pc = "tell", !.p = attempt[a].of])
  /\ UNCHANGED << under, deaths, payment, attempt, said, record, told, wasPaid >>

(* reconcilePendingGatewayPayment, from the status page and from the sweep *)
ReconciledInFlight == InFlight          \* faulty: expired payments are forgotten
Reconciled == InFlight \cup {"expired"}

Reconcile(c, p) ==
  /\ MayBegin(c)
  /\ payment[p].status \in Reconciled
  /\ "verify" \in Can[payment[p].via]
  /\ Suspend(c, [AtRest EXCEPT !.pc = "verify", !.p = p, !.via = payment[p].via,
                               !.count = payment[p].count, !.seen = payment[p].status])
  /\ UNCHANGED << under, deaths, payment, attempt, said, record, told, wasPaid >>

(* The attempts of p whose order ids are put to gateway g: all of them, or *)
(* those with the latest attempt's number (the count's, if that attempt    *)
(* never got a session).                                                   *)
Latest(p) == {a \in AttemptsOf(p) : \A b \in AttemptsOf(p) : attempt[b].number <= attempt[a].number}
NumberAsked(a, count) ==
  IF attempt[a].made THEN attempt[a].number ELSE IF count = 0 THEN 1 ELSE count
Asked(p, g, count) ==
  {a \in AttemptsOf(p) :
     /\ attempt[a].via = g
     /\ \/ "askAll" \in Can[g]
        \/ \E b \in Latest(p) : attempt[a].number = NumberAsked(b, count)}

(* A gateway asked about several attempts may answer for any of them,      *)
(* unless all are asked for: then a capture is preferred.                  *)
Word(a) == IF said[a] \subseteq {"pending"} THEN said[a] ELSE said[a] \ {"pending"}
Answers(p, g, count) ==
  LET words == UNION {Word(a) : a \in Asked(p, g, count)}
  IN IF "askAll" \in Can[g] /\ "paid" \in words THEN {"paid"} ELSE words

AskTrustingly(c) ==         \* faulty: an order the gateway knows is taken for paid
  /\ call[c].pc = "verify"
  /\ \/ /\ Asked(call[c].p, call[c].via, call[c].count) # {}
        /\ Suspend(c, [call[c] EXCEPT !.pc = "record", !.says = "paid"])
     \/ /\ Asked(call[c].p, call[c].via, call[c].count) = {}
        /\ Leave(c)
  /\ UNCHANGED << under, deaths, payment, attempt, said, record, told, wasPaid >>

AskGateway(c) ==
  LET answers == Answers(call[c].p, call[c].via, call[c].count) IN
  /\ call[c].pc = "verify"
  /\ \/ \E o \in answers \ {"pending"} :
          Suspend(c, [AtRest EXCEPT !.pc = "record", !.p = call[c].p, !.seen = call[c].seen,
                                    !.says = o])
     \/ /\ "pending" \in answers \/ answers = {}
        /\ Leave(c)
  /\ UNCHANGED << under, deaths, payment, attempt, said, record, told, wasPaid >>

(* The save of a return page or a reconciliation.                          *)
RecordOutcome(c) ==
  /\ call[c].pc = "record"
  /\ SaveStatus(call[c].p, call[c].seen, StatusFor[call[c].says])
  /\ IF call[c].says = "paid" THEN Suspend(c, [AtRest EXCEPT !.pc = "tell", !.p = call[c].p])
     ELSE Leave(c)
  /\ UNCHANGED << under, deaths, attempt, said, record, told >>

Die(c) ==
  /\ under.crash /\ deaths < MaxDeaths
  /\ call[c].pc # "idle"
  /\ deaths' = deaths + 1
  /\ Leave(c)
  /\ UNCHANGED << under, payment, attempt, said, record, told, wasPaid >>

-----------------------------------------------------------------------------
Begin(c) ==
  \/ \E g \in Gateways : FindPayment(c, g)
  \/ \E g \in Gateways, p \in Payments : RetryPayment(c, p, g)
  \/ \E a \in Attempts, o \in Notices : Deliver(c, a, o) \/ ReturnPage(c, a, o)
  \/ \E a \in Attempts : SkipReplay(c, a)
  \/ \E p \in Payments : Reconcile(c, p)

GoOn(c) ==
  \/ CreateDocument(c) \/ SwitchGateway(c) \/ MarkExpired(c) \/ ReadForRetry(c) \/ SaveReopened(c)
  \/ CreateAttempt(c) \/ OpenSession(c) \/ SaveSession(c) \/ AnswerCustomer(c)
  \/ FailSession(c) \/ SaveFailed(c)
  \/ JudgeNotice(c) \/ SaveNotice(c) \/ CloseNotice(c) \/ Announce(c)
  \/ AskGateway(c) \/ RecordOutcome(c)

Next ==
  \/ \E c \in Calls : Begin(c) \/ GoOn(c) \/ FailNotice(c) \/ Die(c)
  \/ \E a \in Attempts, o \in Notices : Decide(a, o)

Spec == Init /\ [][Next]_vars

Replay(c, a) ==
  /\ "replay" \in Can[attempt[a].via]
  /\ record[EventOf(a, "paid")] = "open"
  /\ Deliver(c, a, "paid")

(* A call that has begun goes on; the sync of payments runs every two      *)
(* minutes: it replays unfinished successes and reconciles open payments.  *)
Fairness ==
  /\ \A c \in Calls : WF_vars(GoOn(c))
  /\ SF_vars(\E c \in Calls, p \in Payments : Reconcile(c, p))
  /\ SF_vars(\E c \in Calls, a \in Attempts : Replay(c, a))

FairSpec == Spec /\ Fairness

-----------------------------------------------------------------------------
PaymentDocuments == [status : Statuses, via : Gateways, count : Nat]
AttemptDocuments == [of : 0 .. MaxPayments, number : Nat, via : Gateways, made : BOOLEAN,
                     sent : BOOLEAN]
CallStates == [pc : Labels, p : Payments, a : Attempts, via : Gateways, count : Nat,
               seen : Statuses, says : Notices]

TypeOK ==
  /\ under   \in Circumstances
  /\ deaths  \in Nat
  /\ payment \in [Payments -> PaymentDocuments]
  /\ attempt \in [Attempts -> AttemptDocuments]
  /\ said    \in [Attempts -> SUBSET Notices]
  /\ record  \in [Events -> {"none", "open", "rejected", "closed"}]
  /\ told    \subseteq Payments
  /\ wasPaid \subseteq Payments
  /\ call    \in [Calls -> CallStates]

(* Whatever interleaves or dies, a payment is saved as paid only after the *)
(* gateway has taken money for one of its attempts, and its success is     *)
(* published only after it was saved (handleWebhook, the browser returns   *)
(* and the reconciliation all save first and publish then).                *)
Paying == {p \in Payments : \E a \in Attempts : attempt[a].of = p /\ "paid" \in said[a]}

Promise == INSTANCE Capture WITH taken <- Paying, recorded <- wasPaid, announced <- told

CaptureSpec == Promise!Spec

(* webhookRecordNeedsReplay: the record of a success is closed, so that    *)
(* nobody looks at it again, only when its payment has been saved as paid. *)
(* (Where notices share an id another notice may have closed the record.)  *)
NoSuccessDropped ==
  \A a \in Attempts :
    /\ "shareId" \notin Can[attempt[a].via]
    /\ record[<< a, "paid" >>] = "closed"
    => attempt[a].of \in wasPaid

InTurn == ~under.overlap

(* When calls come one after the other, deaths included: late failures,    *)
(* repeated notices and retries never make a paid payment unpaid ...       *)
CapturedStays ==
  [][\A p \in Payments : InTurn /\ payment[p].status = "paid" => payment'[p].status = "paid"]_vars

(* ... the checkout has one payment, and no two attempts a customer was    *)
(* sent to share an order id, so a gateway never takes a second payment    *)
(* for a repetition of the first.                                          *)
OneChargeAtATime ==
  InTurn =>
    /\ Cardinality(Made) <= 1
    /\ \A a, b \in Attempts :
         attempt[a].sent /\ attempt[b].sent /\ a # b => attempt[a].number # attempt[b].number

(* ... a capture nobody was told of does not leave its payment open or     *)
(* expired for good, while the reconciliation asks for its attempt: the    *)
(* payment ends as paid, or as failed if a decline was reported first ...  *)
Unfound(p) ==
  /\ payment[p].status \in InFlight \cup {"expired"}
  /\ "verify" \in Can[payment[p].via]
  /\ "paid" \in UNION {said[a] : a \in Asked(p, payment[p].via, payment[p].count)}

CaptureIsFound ==
  (InTurn /\ \E p \in Payments : Unfound(p)) ~> \A p \in Payments : ~Unfound(p)

(* ... and the handling of a success that was cut off is taken up again.   *)
CutOff(a) == "replay" \in Can[attempt[a].via] /\ record[EventOf(a, "paid")] = "open"

CutIsReplayed ==
  (InTurn /\ \E a \in Attempts : CutOff(a)) ~> \A a \in Attempts : ~CutOff(a)

=============================================================================
