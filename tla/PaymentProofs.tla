---------------------------- MODULE PaymentProofs ----------------------------
(***************************************************************************)
(* What holds of the payments of a checkout for any number of payments,    *)
(* attempts, gateways and calls, under every circumstance.                 *)
(***************************************************************************)
EXTENDS Payment, FiniteSetTheorems, TLAPS

(* A payment that is paid was saved so at some time, and was saved so only *)
(* with the gateway's word.                                                *)
PaidIsBacked ==
  /\ \A p \in Payments : payment[p].status = "paid" => p \in wasPaid
  /\ wasPaid \subseteq Paying

(* Nothing is known of an attempt that was not made, and a customer is     *)
(* sent to attempts of a payment only.                                     *)
UnmadeIsUnknown ==
  \A a \in Attempts :
    attempt[a].of = 0 =>
      /\ ~attempt[a].sent
      /\ said[a] = {}
      /\ \A o \in Notices \cup {"any"} : record[<< a, o >>] = "none"

(* What a suspended call knows: the attempt it works on is one of its      *)
(* payment, the notice it handles was sent, and a success it is to record  *)
(* or to announce has been taken or recorded.                              *)
Backed(r) ==
  /\ r \in CallStates
  /\ r.pc \in {"gateway", "session", "answer", "hook", "hookSave", "hookClose", "hookTell"} =>
       attempt[r.a].of = r.p
  /\ r.pc \in {"hook", "hookSave", "hookClose", "hookTell"} => r.says \in said[r.a]
  /\ r.pc = "hookTell" => r.says = "paid"
  /\ r.pc = "record" /\ r.says = "paid" => r.p \in Paying
  /\ r.pc \in {"hookClose", "hookTell"} /\ r.says = "paid" => r.p \in wasPaid
  /\ r.pc = "tell" => r.p \in wasPaid

(* The documents, apart from the calls.                                    *)
Documents ==
  /\ under   \in Circumstances
  /\ deaths  \in Nat
  /\ payment \in [Payments -> PaymentDocuments]
  /\ attempt \in [Attempts -> AttemptDocuments]
  /\ said    \in [Attempts -> SUBSET Notices]
  /\ record  \in [Events -> {"none", "open", "rejected", "closed"}]
  /\ told    \subseteq Payments
  /\ wasPaid \subseteq Payments
  /\ PaidIsBacked
  /\ UnmadeIsUnknown
  /\ NoSuccessDropped

Inv ==
  /\ Documents
  /\ call \in [Calls -> CallStates]
  /\ \A c \in Calls : Backed(call[c])

-----------------------------------------------------------------------------
(* Attempts keep their payment, words accumulate, and what was once paid   *)
(* stays so in the record: what a call knows remains true.                 *)
Grows ==
  /\ \A a \in Attempts : attempt[a].of # 0 => /\ attempt'[a].of = attempt[a].of
                                              /\ attempt'[a].via = attempt[a].via
  /\ \A a \in Attempts : said[a] \subseteq said'[a]
  /\ wasPaid \subseteq wasPaid'

LEMMA PayingGrows ==
  ASSUME Documents, Grows
  PROVE  Paying \subseteq Paying'
<1> SUFFICES ASSUME NEW p \in Payments, NEW a \in Attempts, attempt[a].of = p, "paid" \in said[a]
             PROVE  attempt'[a].of = p /\ "paid" \in said'[a]
  BY DEF Paying
<1>1. p # 0
  BY DEF Payments
<1>2. QED BY <1>1 DEF Grows

LEMMA BackedStays ==
  ASSUME Documents, Grows, NEW r, Backed(r)
  PROVE  Backed(r)'
<1>1. Paying \subseteq Paying' /\ wasPaid \subseteq wasPaid'
  BY PayingGrows DEF Grows
<1>2. r.p # 0 /\ r.a \in Attempts
  BY DEF Backed, CallStates, Payments
<1>3. attempt[r.a].of = r.p => attempt'[r.a].of = r.p
  BY <1>2 DEF Grows
<1>4. said[r.a] \subseteq said'[r.a]
  BY <1>2 DEF Grows
<1>5. QED BY <1>1, <1>3, <1>4 DEF Backed

(* The shape of every step of a call: the documents stay sound, and what   *)
(* the call carries on is backed.                                          *)
LEMMA StepStands ==
  ASSUME Inv, Grows, Documents', NEW c \in Calls, NEW r, Backed(r)', Suspend(c, r)
  PROVE  Inv'
<1>1. call' = [call EXCEPT ![c] = r]
  BY DEF Suspend
<1>2. \A d \in Calls : call'[d] = IF d = c THEN r ELSE call[d]
  BY <1>1 DEF Inv
<1>3. \A d \in Calls : Backed(call[d])'
  <2> SUFFICES ASSUME NEW d \in Calls PROVE Backed(call[d])'
    OBVIOUS
  <2> DEFINE x == call'[d]
  <2>1. CASE d = c
    BY <1>2, <2>1
  <2>2. CASE d # c
    BY <1>2, <2>2, BackedStays DEF Inv
  <2>3. QED BY <2>1, <2>2
<1>4. call' \in [Calls -> CallStates]
  BY <1>1 DEF Inv, Backed
<1>5. QED BY <1>3, <1>4 DEF Inv

LEMMA DocumentsStay ==
  ASSUME Documents, deaths' \in Nat,
         UNCHANGED << under, payment, attempt, said, record, told, wasPaid >>
  PROVE  Documents' /\ Grows
<1>1. Grows
  BY DEF Grows
<1>2. PaidIsBacked' /\ UnmadeIsUnknown' /\ NoSuccessDropped'
  BY DEF Documents, PaidIsBacked, Paying, UnmadeIsUnknown, NoSuccessDropped
<1>3. QED BY <1>1, <1>2 DEF Documents

(* What the steps carry on, field by field.                                *)
LEMMA CarryTo ==
  ASSUME NEW r \in CallStates, NEW pc
  PROVE  [r EXCEPT !.pc = pc] =
           [pc |-> pc, p |-> r.p, a |-> r.a, via |-> r.via, count |-> r.count,
            seen |-> r.seen, says |-> r.says]
  BY DEF CallStates

LEMMA CarrySeen ==
  ASSUME NEW r \in CallStates, NEW pc, NEW seen
  PROVE  [r EXCEPT !.pc = pc, !.seen = seen] =
           [pc |-> pc, p |-> r.p, a |-> r.a, via |-> r.via, count |-> r.count,
            seen |-> seen, says |-> r.says]
<1> DEFINE n == [r EXCEPT !.pc = pc]
<1>1. n = [pc |-> pc, p |-> r.p, a |-> r.a, via |-> r.via, count |-> r.count,
           seen |-> r.seen, says |-> r.says]
  BY CarryTo
<1> HIDE DEF n
<1>2. [n EXCEPT !.seen = seen] =
        [pc |-> pc, p |-> r.p, a |-> r.a, via |-> r.via, count |-> r.count,
         seen |-> seen, says |-> r.says]
  BY <1>1
<1>3. QED BY <1>2 DEF n

LEMMA CarrySays ==
  ASSUME NEW r \in CallStates, NEW pc, NEW says
  PROVE  [r EXCEPT !.pc = pc, !.says = says] =
           [pc |-> pc, p |-> r.p, a |-> r.a, via |-> r.via, count |-> r.count,
            seen |-> r.seen, says |-> says]
<1> DEFINE n == [r EXCEPT !.pc = pc]
<1>1. n = [pc |-> pc, p |-> r.p, a |-> r.a, via |-> r.via, count |-> r.count,
           seen |-> r.seen, says |-> r.says]
  BY CarryTo
<1> HIDE DEF n
<1>2. [n EXCEPT !.says = says] =
        [pc |-> pc, p |-> r.p, a |-> r.a, via |-> r.via, count |-> r.count,
         seen |-> r.seen, says |-> says]
  BY <1>1
<1>3. QED BY <1>2 DEF n

LEMMA CarryPayment ==
  ASSUME NEW r \in CallStates, NEW pc, NEW p, NEW seen
  PROVE  [r EXCEPT !.pc = pc, !.p = p, !.seen = seen] =
           [pc |-> pc, p |-> p, a |-> r.a, via |-> r.via, count |-> r.count,
            seen |-> seen, says |-> r.says]
<1> DEFINE n == [r EXCEPT !.pc = pc]
           m == [n EXCEPT !.p = p]
<1>1. n = [pc |-> pc, p |-> r.p, a |-> r.a, via |-> r.via, count |-> r.count,
           seen |-> r.seen, says |-> r.says]
  BY CarryTo
<1> HIDE DEF n
<1>2. m = [pc |-> pc, p |-> p, a |-> r.a, via |-> r.via, count |-> r.count,
           seen |-> r.seen, says |-> r.says]
  BY <1>1
<1> HIDE DEF m
<1>3. [m EXCEPT !.seen = seen] =
        [pc |-> pc, p |-> p, a |-> r.a, via |-> r.via, count |-> r.count,
         seen |-> seen, says |-> r.says]
  BY <1>2
<1>4. QED BY <1>3 DEF n, m

LEMMA CarryCount ==
  ASSUME NEW r \in CallStates, NEW pc, NEW count, NEW seen
  PROVE  [r EXCEPT !.pc = pc, !.count = count, !.seen = seen] =
           [pc |-> pc, p |-> r.p, a |-> r.a, via |-> r.via, count |-> count,
            seen |-> seen, says |-> r.says]
<1> DEFINE n == [r EXCEPT !.pc = pc]
           m == [n EXCEPT !.count = count]
<1>1. n = [pc |-> pc, p |-> r.p, a |-> r.a, via |-> r.via, count |-> r.count,
           seen |-> r.seen, says |-> r.says]
  BY CarryTo
<1> HIDE DEF n
<1>2. m = [pc |-> pc, p |-> r.p, a |-> r.a, via |-> r.via, count |-> count,
           seen |-> r.seen, says |-> r.says]
  BY <1>1
<1> HIDE DEF m
<1>3. [m EXCEPT !.seen = seen] =
        [pc |-> pc, p |-> r.p, a |-> r.a, via |-> r.via, count |-> count,
         seen |-> seen, says |-> r.says]
  BY <1>2
<1>4. QED BY <1>3 DEF n, m

LEMMA RestBacked ==
  /\ AnyGateway \in Gateways /\ 1 \in Payments /\ 1 \in Attempts
  /\ AtRest \in CallStates /\ AtRest.pc = "idle"
  /\ Backed(AtRest) /\ Backed(AtRest)'
<1>1. AnyGateway \in Gateways
  BY PaymentConstants, Zenon DEF AnyGateway
<1>2. 1 \in Payments /\ 1 \in Attempts
  BY PaymentConstants DEF Payments, Attempts
<1>3. AtRest \in CallStates /\ AtRest.pc = "idle"
  BY <1>1, <1>2 DEF AtRest, CallStates, Labels, Statuses, Notices
<1>4. QED BY <1>1, <1>2, <1>3 DEF Backed

(* Leaving, whatever has been done to the documents.                       *)
LEMMA LeavingStands ==
  ASSUME Inv, Grows, Documents', NEW c \in Calls, Leave(c)
  PROVE  Inv'
  BY StepStands, RestBacked DEF Leave

LEMMA InitInv == Init => Inv
<1> SUFFICES ASSUME Init PROVE Inv
  OBVIOUS
<1>1. \A p \in Payments : payment[p] = NoPayment
  BY DEF Init
<1>2. \A a \in Attempts : attempt[a] = NoAttempt /\ said[a] = {}
  BY DEF Init
<1>3. NoPayment \in PaymentDocuments /\ NoAttempt \in AttemptDocuments
  BY RestBacked, PaymentConstants DEF NoPayment, NoAttempt, PaymentDocuments, AttemptDocuments, Statuses
<1>4. PaidIsBacked
  BY <1>1 DEF Init, PaidIsBacked, NoPayment
<1>5. UnmadeIsUnknown /\ NoSuccessDropped
  BY <1>2 DEF Init, UnmadeIsUnknown, NoSuccessDropped, NoAttempt, Events, Notices
<1>6. Documents
  BY <1>3, <1>4, <1>5 DEF Init, Documents
<1>7. QED BY <1>6, RestBacked DEF Init, Inv

-----------------------------------------------------------------------------
(* Steps that only read: the documents stay, and the call carries what it  *)
(* has seen.                                                               *)
LEMMA ReadingStands ==
  ASSUME Inv, NEW c \in Calls,
         \/ \E g \in Gateways : FindPayment(c, g)
         \/ \E g \in Gateways, p \in Payments : RetryPayment(c, p, g)
         \/ ReadForRetry(c) \/ FailSession(c) \/ Die(c)
         \/ \E a \in Attempts, o \in Notices : ReturnPage(c, a, o)
         \/ \E p \in Payments : Reconcile(c, p)
         \/ AskGateway(c)
  PROVE  Inv'
<1>1. deaths' \in Nat
  <2>1. deaths' = deaths \/ deaths' = deaths + 1
    BY Zenon DEF FindPayment, RetryPayment, ReadForRetry, FailSession, Die, ReturnPage, Reconcile,
                 AskGateway
  <2>2. QED BY <2>1 DEF Inv, Documents
<1>2. UNCHANGED << under, payment, attempt, said, record, told, wasPaid >>
  BY DEF FindPayment, RetryPayment, ReadForRetry, FailSession, Die, ReturnPage, Reconcile, AskGateway
<1>3. Documents' /\ Grows
  BY <1>1, <1>2, DocumentsStay DEF Inv
<1>4. \A r : Backed(r) => Backed(r)'
  BY <1>3, BackedStays DEF Inv
<1>5. SUFFICES \E r : Backed(r) /\ Suspend(c, r)
  BY <1>3, <1>4, StepStands
<1>6. Backed(call[c]) /\ call[c] \in CallStates
  BY DEF Inv, Backed
<1>7. /\ \A p \in Payments : payment[p] \in PaymentDocuments
      /\ \A a \in Attempts : attempt[a] \in AttemptDocuments
  BY DEF Inv, Documents
<1>8. ASSUME Leave(c) PROVE \E r : Backed(r) /\ Suspend(c, r)
  BY <1>8, RestBacked DEF Leave
<1>9. ASSUME NEW g \in Gateways, FindPayment(c, g)
      PROVE  \E r : Backed(r) /\ Suspend(c, r)
  <2>1. ASSUME Suspend(c, [AtRest EXCEPT !.pc = "create", !.via = g])
        PROVE  \E r : Backed(r) /\ Suspend(c, r)
    <3>1. Backed([AtRest EXCEPT !.pc = "create", !.via = g])
      BY RestBacked DEF Backed, AtRest, CallStates, Labels, Statuses, Notices
    <3>2. QED BY <2>1, <3>1
  <2>2. ASSUME NEW p \in Made, NEW label \in {"switch", "attempt", "expire", "retry"},
               Suspend(c, [AtRest EXCEPT !.pc = label, !.p = p, !.via = g,
                                         !.count = payment[p].count, !.seen = payment[p].status])
        PROVE  \E r : Backed(r) /\ Suspend(c, r)
    <3>1. p \in Payments /\ payment[p].count \in Nat /\ payment[p].status \in Statuses
      BY <1>7 DEF Made, PaymentDocuments
    <3>2. Backed([AtRest EXCEPT !.pc = label, !.p = p, !.via = g,
                                !.count = payment[p].count, !.seen = payment[p].status])
      BY <3>1, RestBacked DEF Backed, AtRest, CallStates, Labels, Notices
    <3>3. QED BY <2>2, <3>2
  <2>3. QED BY <1>9, <2>1, <2>2, Zenon DEF FindPayment
<1>10. ASSUME NEW g \in Gateways, NEW p \in Payments, RetryPayment(c, p, g)
       PROVE  \E r : Backed(r) /\ Suspend(c, r)
  <2>1. Suspend(c, [AtRest EXCEPT !.pc = "reopen", !.p = p, !.via = g, !.count = payment[p].count])
    BY <1>10 DEF RetryPayment
  <2>2. payment[p].count \in Nat
    BY <1>7 DEF PaymentDocuments
  <2>3. Backed([AtRest EXCEPT !.pc = "reopen", !.p = p, !.via = g, !.count = payment[p].count])
    BY <2>2, RestBacked DEF Backed, AtRest, CallStates, Labels, Statuses, Notices
  <2>4. QED BY <2>1, <2>3
<1>11. ASSUME ReadForRetry(c) PROVE \E r : Backed(r) /\ Suspend(c, r)
  <2> DEFINE n == payment[call[c].p].count
  <2>1. Leave(c) \/ Suspend(c, [call[c] EXCEPT !.pc = "reopen", !.count = n, !.seen = "none"])
    BY <1>11 DEF ReadForRetry
  <2>2. n \in Nat
    BY <1>6, <1>7 DEF CallStates, PaymentDocuments
  <2> HIDE DEF n
  <2>3. [call[c] EXCEPT !.pc = "reopen", !.count = n, !.seen = "none"] =
          [pc |-> "reopen", p |-> call[c].p, a |-> call[c].a, via |-> call[c].via, count |-> n,
           seen |-> "none", says |-> call[c].says]
    BY <1>6, CarryCount, Zenon
  <2>4. Backed([call[c] EXCEPT !.pc = "reopen", !.count = n, !.seen = "none"])
    BY <1>6, <2>2, <2>3 DEF Backed, CallStates, Labels, Statuses
  <2>5. QED BY <1>8, <2>1, <2>4
<1>12. ASSUME FailSession(c) PROVE \E r : Backed(r) /\ Suspend(c, r)
  <2> DEFINE n == IF call[c].pc = "gateway" THEN 0 ELSE attempt[call[c].a].number
  <2>1. Suspend(c, [AtRest EXCEPT !.pc = "fail", !.p = call[c].p, !.count = n])
    BY <1>12 DEF FailSession
  <2>2. n \in Nat /\ call[c].p \in Payments
    BY <1>6, <1>7 DEF CallStates, AttemptDocuments
  <2> HIDE DEF n
  <2>3. Backed([AtRest EXCEPT !.pc = "fail", !.p = call[c].p, !.count = n])
    BY <2>2, RestBacked DEF Backed, AtRest, CallStates, Labels, Statuses, Notices
  <2>4. QED BY <2>1, <2>3
<1>13. ASSUME NEW a \in Attempts, NEW o \in Notices, ReturnPage(c, a, o)
       PROVE  \E r : Backed(r) /\ Suspend(c, r)
  <2> DEFINE p == attempt[a].of
  <2>1. p \in Payments /\ o \in said[a]
    <3>1. attempt[a].of \in 0 .. MaxPayments /\ attempt[a].of # 0 /\ o \in said[a]
      BY <1>7, <1>13 DEF ReturnPage, AttemptDocuments
    <3>2. QED BY <3>1, PaymentConstants DEF Payments
  <2>2. payment[p].status \in Statuses
    BY <1>7, <2>1 DEF PaymentDocuments
  <2>3. ASSUME Suspend(c, [AtRest EXCEPT !.pc = "record", !.p = p, !.seen = payment[p].status, !.says = o])
        PROVE  \E r : Backed(r) /\ Suspend(c, r)
    <3>1. o = "paid" => p \in Paying
      BY <2>1 DEF Paying
    <3> HIDE DEF p
    <3>2. Backed([AtRest EXCEPT !.pc = "record", !.p = p, !.seen = payment[p].status, !.says = o])
      BY <2>1, <2>2, <3>1, RestBacked DEF Backed, AtRest, CallStates, Labels
    <3>3. QED BY <2>3, <3>2
  <2>4. ASSUME payment[p].status = "paid", Suspend(c, [AtRest EXCEPT !.pc = "tell", !.p = p])
        PROVE  \E r : Backed(r) /\ Suspend(c, r)
    <3>1. p \in wasPaid
      BY <2>1, <2>4 DEF Inv, Documents, PaidIsBacked
    <3> HIDE DEF p
    <3>2. Backed([AtRest EXCEPT !.pc = "tell", !.p = p])
      BY <2>1, <3>1, RestBacked DEF Backed, AtRest, CallStates, Labels, Statuses, Notices
    <3>3. QED BY <2>4, <3>2
  <2>5. QED BY <1>13, <2>3, <2>4, Zenon DEF ReturnPage
<1>14. ASSUME NEW p \in Payments, Reconcile(c, p)
       PROVE  \E r : Backed(r) /\ Suspend(c, r)
  <2>1. Suspend(c, [AtRest EXCEPT !.pc = "verify", !.p = p, !.via = payment[p].via,
                                  !.count = payment[p].count, !.seen = payment[p].status])
    BY <1>14 DEF Reconcile
  <2>2. payment[p].via \in Gateways /\ payment[p].count \in Nat /\ payment[p].status \in Statuses
    BY <1>7 DEF PaymentDocuments
  <2>3. Backed([AtRest EXCEPT !.pc = "verify", !.p = p, !.via = payment[p].via,
                              !.count = payment[p].count, !.seen = payment[p].status])
    BY <2>2, RestBacked DEF Backed, AtRest, CallStates, Labels, Notices
  <2>4. QED BY <2>1, <2>3
<1>15. ASSUME AskGateway(c) PROVE \E r : Backed(r) /\ Suspend(c, r)
  <2> DEFINE answers == Answers(call[c].p, call[c].via, call[c].count)
  <2>1. ASSUME NEW o \in answers
        PROVE  o \in Notices /\ (o = "paid" => call[c].p \in Paying)
    <3>1. PICK a \in Asked(call[c].p, call[c].via, call[c].count) : o \in Word(a)
      BY <2>1 DEF Answers
    <3>2. a \in Attempts /\ attempt[a].of = call[c].p /\ o \in said[a]
      BY <3>1 DEF Asked, AttemptsOf, Word
    <3>3. QED BY <1>6, <3>2 DEF Inv, Documents, Paying, CallStates
  <2>2. ASSUME NEW o \in answers,
               Suspend(c, [AtRest EXCEPT !.pc = "record", !.p = call[c].p, !.seen = call[c].seen,
                                         !.says = o])
        PROVE  \E r : Backed(r) /\ Suspend(c, r)
    <3>1. o \in Notices /\ (o = "paid" => call[c].p \in Paying)
      BY <2>1, <2>2
    <3>2. Backed([AtRest EXCEPT !.pc = "record", !.p = call[c].p, !.seen = call[c].seen, !.says = o])
      BY <1>6, <3>1, RestBacked DEF Backed, AtRest, CallStates, Labels
    <3>3. QED BY <2>2, <3>2
  <2>3. QED BY <1>8, <1>15, <2>2, Zenon DEF AskGateway
<1>16. ASSUME Die(c) PROVE \E r : Backed(r) /\ Suspend(c, r)
  BY <1>8, <1>16 DEF Die
<1>17. QED
  BY <1>9, <1>10, <1>11, <1>12, <1>13, <1>14, <1>15, <1>16

-----------------------------------------------------------------------------
(* Steps that save the payment.                                            *)
LEMMA PaymentSaved ==
  ASSUME Documents, UNCHANGED << under, deaths, attempt, said, record, told >>,
         payment' \in [Payments -> PaymentDocuments],
         wasPaid \subseteq wasPaid', wasPaid' \subseteq Payments, wasPaid' \subseteq Paying,
         \A p \in Payments : payment'[p].status = "paid" => p \in wasPaid'
  PROVE  Documents' /\ Grows
<1>1. Grows
  BY DEF Grows
<1>2. PaidIsBacked'
  BY DEF Documents, PaidIsBacked, Paying
<1>3. UnmadeIsUnknown' /\ NoSuccessDropped'
  BY DEF Documents, UnmadeIsUnknown, NoSuccessDropped
<1>4. QED BY <1>1, <1>2, <1>3 DEF Documents

(* A document with some fields written.                                    *)
LEMMA StatusWritten ==
  ASSUME NEW d \in PaymentDocuments, NEW status \in Statuses
  PROVE  /\ [d EXCEPT !.status = status] = [status |-> status, via |-> d.via, count |-> d.count]
         /\ [d EXCEPT !.status = status] \in PaymentDocuments
  BY DEF PaymentDocuments

LEMMA ViaWritten ==
  ASSUME NEW d \in PaymentDocuments, NEW via \in Gateways
  PROVE  /\ [d EXCEPT !.via = via].status = d.status
         /\ [d EXCEPT !.via = via] \in PaymentDocuments
  BY DEF PaymentDocuments

LEMMA StatusViaWritten ==
  ASSUME NEW d \in PaymentDocuments, NEW status \in Statuses, NEW via \in Gateways
  PROVE  /\ [d EXCEPT !.status = status, !.via = via] =
              [status |-> status, via |-> via, count |-> d.count]
         /\ [status |-> status, via |-> via, count |-> d.count] \in PaymentDocuments
<1> DEFINE x == [d EXCEPT !.status = status]
<1>1. x = [status |-> status, via |-> d.via, count |-> d.count] /\ x \in PaymentDocuments
  BY StatusWritten
<1> HIDE DEF x
<1>2. [x EXCEPT !.via = via] = [status |-> status, via |-> via, count |-> d.count]
  BY <1>1
<1>3. [status |-> status, via |-> via, count |-> d.count] \in PaymentDocuments
  BY DEF PaymentDocuments
<1>4. QED BY <1>2, <1>3 DEF x

LEMMA StatusCountWritten ==
  ASSUME NEW d \in PaymentDocuments, NEW status \in Statuses, NEW count \in Nat
  PROVE  /\ [d EXCEPT !.status = status, !.count = count] =
              [status |-> status, via |-> d.via, count |-> count]
         /\ [d EXCEPT !.count = count, !.status = status] =
              [status |-> status, via |-> d.via, count |-> count]
         /\ [status |-> status, via |-> d.via, count |-> count] \in PaymentDocuments
<1> DEFINE x == [d EXCEPT !.status = status]
           y == [d EXCEPT !.count = count]
<1>1. x = [status |-> status, via |-> d.via, count |-> d.count]
  BY StatusWritten
<1>2. y = [status |-> d.status, via |-> d.via, count |-> count]
  BY DEF PaymentDocuments
<1> HIDE DEF x, y
<1>3. [x EXCEPT !.count = count] = [status |-> status, via |-> d.via, count |-> count]
  BY <1>1
<1>4. [y EXCEPT !.status = status] = [status |-> status, via |-> d.via, count |-> count]
  BY <1>2
<1>5. [status |-> status, via |-> d.via, count |-> count] \in PaymentDocuments
  BY DEF PaymentDocuments
<1>6. QED BY <1>3, <1>4, <1>5 DEF x, y

(* One payment is saved, as something other than paid or as what it was.   *)
LEMMA OpenPaymentSaved ==
  ASSUME Documents, UNCHANGED << under, deaths, attempt, said, record, told, wasPaid >>,
         NEW p \in Payments, NEW d \in PaymentDocuments,
         d.status = "paid" => payment[p].status = "paid",
         payment' = [payment EXCEPT ![p] = d]
  PROVE  Documents' /\ Grows
<1>1. payment' \in [Payments -> PaymentDocuments]
  BY DEF Documents
<1>2. \A q \in Payments : payment'[q].status = "paid" => q \in wasPaid'
  BY DEF Documents, PaidIsBacked
<1>3. QED BY <1>1, <1>2, PaymentSaved DEF Documents, PaidIsBacked

(* SaveStatus: what is saved as paid has been taken.                       *)
LEMMA StatusSaved ==
  ASSUME Documents, UNCHANGED << under, deaths, attempt, said, record, told >>,
         NEW p \in Payments, NEW seen, NEW status \in Statuses,
         status = "paid" => p \in Paying,
         SaveStatus(p, seen, status)
  PROVE  Documents' /\ Grows /\ (status = "paid" => p \in wasPaid')
<1> DEFINE d == [payment[p] EXCEPT !.status = IF status = seen THEN payment[p].status ELSE status]
<1>1. payment' = [payment EXCEPT ![p] = d]
  BY DEF SaveStatus
<1>2. payment[p] \in PaymentDocuments /\ payment[p].status \in Statuses
  BY DEF Documents, PaymentDocuments
<1>3. d \in PaymentDocuments /\ d.status = IF status = seen THEN payment[p].status ELSE status
  BY <1>2, StatusWritten DEF PaymentDocuments
<1> HIDE DEF d
<1>4. wasPaid' = IF status = "paid" THEN wasPaid \cup {p} ELSE wasPaid
  BY DEF SaveStatus
<1>5. payment' \in [Payments -> PaymentDocuments]
  BY <1>1, <1>3 DEF Documents
<1>6. \A q \in Payments : payment'[q].status = "paid" => q \in wasPaid'
  BY <1>1, <1>3, <1>4 DEF Documents, PaidIsBacked
<1>7. wasPaid \subseteq wasPaid' /\ wasPaid' \subseteq Payments /\ wasPaid' \subseteq Paying
  BY <1>4 DEF Documents, PaidIsBacked
<1>8. QED BY <1>4, <1>5, <1>6, <1>7, PaymentSaved

LEMMA SavingStands ==
  ASSUME Inv, NEW c \in Calls,
         \/ CreateDocument(c) \/ SwitchGateway(c) \/ SaveReopened(c) \/ SaveSession(c) \/ SaveFailed(c)
         \/ MarkExpired(c) \/ SaveNotice(c) \/ RecordOutcome(c)
  PROVE  Inv'
<1> DEFINE p == call[c].p
<1>1. Backed(call[c]) /\ call[c] \in CallStates /\ Documents
  BY DEF Inv, Backed
<1>2. p \in Payments /\ call[c].a \in Attempts /\ call[c].via \in Gateways /\ call[c].count \in Nat
  BY <1>1 DEF CallStates
<1>3. payment[p] \in PaymentDocuments /\ attempt[call[c].a].number \in Nat
  BY <1>1, <1>2 DEF Documents, AttemptDocuments
<1>4. payment[p].status \in Statuses /\ payment[p].via \in Gateways /\ payment[p].count \in Nat
  BY <1>3 DEF PaymentDocuments
<1>5. SUFFICES Documents' /\ Grows /\ \E r : Suspend(c, r) /\ (Backed(r)' \/ Backed(r))
  BY <1>1, BackedStays, StepStands
<1> HIDE DEF p
<1>6. CASE CreateDocument(c)
  <2>1. PICK q \in Payments \ Made :
          /\ payment' = [payment EXCEPT ![q] = [NoPayment EXCEPT !.status = "pending", !.via = call[c].via]]
          /\ Suspend(c, [call[c] EXCEPT !.pc = "attempt", !.p = q, !.seen = "pending"])
    BY <1>6 DEF CreateDocument
  <2>2. UNCHANGED << under, deaths, attempt, said, record, told, wasPaid >>
    BY <1>6 DEF CreateDocument
  <2> DEFINE d == [NoPayment EXCEPT !.status = "pending", !.via = call[c].via]
  <2>3. d \in PaymentDocuments /\ d.status = "pending"
    BY <1>2 DEF NoPayment, PaymentDocuments, Statuses
  <2> HIDE DEF d
  <2>4. payment' = [payment EXCEPT ![q] = d]
    BY <2>1 DEF d
  <2>5. Documents' /\ Grows
    BY <1>1, <2>2, <2>3, <2>4, OpenPaymentSaved
  <2>6. [call[c] EXCEPT !.pc = "attempt", !.p = q, !.seen = "pending"] =
          [pc |-> "attempt", p |-> q, a |-> call[c].a, via |-> call[c].via, count |-> call[c].count,
           seen |-> "pending", says |-> call[c].says]
    BY <1>1, CarryPayment, Zenon
  <2>7. Backed([call[c] EXCEPT !.pc = "attempt", !.p = q, !.seen = "pending"])
    BY <1>1, <2>6 DEF Backed, CallStates, Labels, Statuses
  <2>8. QED BY <2>1, <2>5, <2>7
<1>7. CASE SwitchGateway(c)
  <2> DEFINE d == [payment[p] EXCEPT !.via = call[c].via]
  <2>1. /\ payment' = [payment EXCEPT ![p] = d] /\ Goto(c, "attempt")
        /\ UNCHANGED << under, deaths, attempt, said, record, told, wasPaid >>
    BY <1>7 DEF SwitchGateway, p
  <2>2. d \in PaymentDocuments /\ d.status = payment[p].status
    BY <1>2, <1>3, ViaWritten
  <2> HIDE DEF d
  <2>3. Documents' /\ Grows
    BY <1>1, <1>2, <2>1, <2>2, OpenPaymentSaved
  <2>4. Backed([call[c] EXCEPT !.pc = "attempt"])
    BY <1>1, CarryTo DEF Backed, CallStates, Labels
  <2>5. QED BY <2>1, <2>3, <2>4 DEF Goto
<1>8. CASE SaveReopened(c)
  <2> DEFINE d == [payment[p] EXCEPT !.status = "pending", !.via = call[c].via]
  <2>1. /\ payment' = [payment EXCEPT ![p] = d]
        /\ Suspend(c, [call[c] EXCEPT !.pc = "attempt", !.seen = "pending"])
        /\ UNCHANGED << under, deaths, attempt, said, record, told, wasPaid >>
    BY <1>8 DEF SaveReopened, p
  <2>2. d \in PaymentDocuments /\ d.status = "pending"
    <3>1. "pending" \in Statuses
      BY DEF Statuses
    <3>2. /\ d = [status |-> "pending", via |-> call[c].via, count |-> payment[p].count]
          /\ [status |-> "pending", via |-> call[c].via, count |-> payment[p].count] \in PaymentDocuments
      BY <1>2, <1>3, <3>1, StatusViaWritten, Zenon
    <3> HIDE DEF d
    <3>3. QED BY <3>2
  <2> HIDE DEF d
  <2>3. Documents' /\ Grows
    BY <1>1, <1>2, <2>1, <2>2, OpenPaymentSaved
  <2>4. [call[c] EXCEPT !.pc = "attempt", !.seen = "pending"] =
          [pc |-> "attempt", p |-> call[c].p, a |-> call[c].a, via |-> call[c].via,
           count |-> call[c].count, seen |-> "pending", says |-> call[c].says]
    BY <1>1, CarrySeen, Zenon
  <2>5. Backed([call[c] EXCEPT !.pc = "attempt", !.seen = "pending"])
    BY <1>1, <2>4 DEF Backed, CallStates, Labels, Statuses
  <2>6. QED BY <2>1, <2>3, <2>5
<1>9. CASE SaveSession(c)
  <2> DEFINE s == IF call[c].seen = "processing" THEN payment[p].status ELSE "processing"
             d == [payment[p] EXCEPT !.count = attempt[call[c].a].number, !.status = s]
  <2>1. /\ payment' = [payment EXCEPT ![p] = d]
        /\ Suspend(c, [AtRest EXCEPT !.pc = "answer", !.p = call[c].p, !.a = call[c].a])
        /\ UNCHANGED << under, deaths, attempt, said, record, told, wasPaid >>
        /\ call[c].pc = "session"
    BY <1>9 DEF SaveSession, p
  <2>2. s \in Statuses /\ (s = "paid" => payment[p].status = "paid")
    BY <1>4 DEF Statuses
  <2> HIDE DEF s
  <2>3. d \in PaymentDocuments /\ d.status = s
    <3>1. /\ d = [status |-> s, via |-> payment[p].via, count |-> attempt[call[c].a].number]
          /\ [status |-> s, via |-> payment[p].via, count |-> attempt[call[c].a].number] \in PaymentDocuments
      BY <1>3, <2>2, StatusCountWritten, Zenon
    <3> HIDE DEF d
    <3>2. QED BY <3>1
  <2> HIDE DEF d
  <2>4. Documents' /\ Grows
    BY <1>1, <1>2, <2>1, <2>2, <2>3, OpenPaymentSaved
  <2>5. Backed([AtRest EXCEPT !.pc = "answer", !.p = call[c].p, !.a = call[c].a])
    <3>1. attempt[call[c].a].of = call[c].p
      BY <1>1, <2>1 DEF Backed
    <3>2. call[c].p \in Payments
      BY <1>2 DEF p
    <3>3. QED BY <1>2, <3>1, <3>2, RestBacked DEF Backed, AtRest, CallStates, Labels, Statuses, Notices
  <2>6. QED BY <2>1, <2>4, <2>5
<1>10. CASE SaveFailed(c)
  <2> DEFINE n == IF call[c].count = 0 THEN payment[p].count ELSE call[c].count
             d == [payment[p] EXCEPT !.status = "failed", !.count = n]
  <2>1. /\ payment' = [payment EXCEPT ![p] = d] /\ Leave(c)
        /\ UNCHANGED << under, deaths, attempt, said, record, told, wasPaid >>
    BY <1>10 DEF SaveFailed, p
  <2>2. n \in Nat /\ "failed" \in Statuses
    BY <1>2, <1>4 DEF Statuses
  <2> HIDE DEF n
  <2>3. d \in PaymentDocuments /\ d.status = "failed"
    <3>1. /\ d = [status |-> "failed", via |-> payment[p].via, count |-> n]
          /\ [status |-> "failed", via |-> payment[p].via, count |-> n] \in PaymentDocuments
      BY <1>3, <2>2, StatusCountWritten, Zenon
    <3> HIDE DEF d
    <3>2. QED BY <3>1
  <2> HIDE DEF d
  <2>4. Documents' /\ Grows
    BY <1>1, <1>2, <2>1, <2>3, OpenPaymentSaved
  <2>5. QED BY <2>1, <2>4, RestBacked DEF Leave
<1>11. CASE MarkExpired(c)
  <2>1. /\ SaveStatus(p, call[c].seen, "expired") /\ Goto(c, "retry")
        /\ UNCHANGED << under, deaths, attempt, said, record, told >>
    BY <1>11 DEF MarkExpired, p
  <2>2. "expired" \in Statuses
    BY DEF Statuses
  <2>3. Documents' /\ Grows
    BY <1>1, <1>2, <2>1, <2>2, StatusSaved
  <2>4. Backed([call[c] EXCEPT !.pc = "retry"])
    BY <1>1, CarryTo DEF Backed, CallStates, Labels
  <2>5. QED BY <2>1, <2>3, <2>4 DEF Goto
<1>12. CASE SaveNotice(c)
  <2>1. /\ SaveStatus(p, call[c].seen, StatusFor[call[c].says])
        /\ Suspend(c, [call[c] EXCEPT !.pc = "hookClose", !.seen = "none"])
        /\ UNCHANGED << under, deaths, attempt, said, record, told >>
        /\ call[c].pc = "hookSave"
    BY <1>12 DEF SaveNotice, p
  <2>2. /\ call[c].says \in Notices /\ call[c].says \in said[call[c].a]
        /\ attempt[call[c].a].of = p
    BY <1>1, <2>1 DEF Backed, CallStates, p
  <2>3. /\ StatusFor[call[c].says] \in Statuses
        /\ StatusFor[call[c].says] = "paid" <=> call[c].says = "paid"
    BY <2>2 DEF StatusFor, Notices, Statuses
  <2>4. call[c].says = "paid" => p \in Paying
    BY <1>2, <2>2 DEF Paying
  <2>5. Documents' /\ Grows /\ (call[c].says = "paid" => p \in wasPaid')
    BY <1>1, <1>2, <2>1, <2>3, <2>4, StatusSaved
  <2>6. [call[c] EXCEPT !.pc = "hookClose", !.seen = "none"] =
          [pc |-> "hookClose", p |-> call[c].p, a |-> call[c].a, via |-> call[c].via,
           count |-> call[c].count, seen |-> "none", says |-> call[c].says]
    BY <1>1, CarrySeen, Zenon
  <2>7. attempt' = attempt /\ said' = said
    BY <2>1
  <2>8. PICK r : r = [call[c] EXCEPT !.pc = "hookClose", !.seen = "none"]
    OBVIOUS
  <2>9. /\ r \in CallStates /\ r.pc = "hookClose" /\ r.p = p /\ r.a = call[c].a
        /\ r.says = call[c].says
    BY <1>1, <2>6, <2>8 DEF CallStates, Labels, Statuses, p
  <2>10. Backed(r)'
    BY <2>2, <2>5, <2>7, <2>9 DEF Backed
  <2>11. Suspend(c, r)
    BY <2>1, <2>8
  <2>12. QED BY <2>5, <2>10, <2>11
<1>13. CASE RecordOutcome(c)
  <2>1. /\ SaveStatus(p, call[c].seen, StatusFor[call[c].says])
        /\ UNCHANGED << under, deaths, attempt, said, record, told >>
        /\ call[c].pc = "record"
        /\ \/ call[c].says = "paid" /\ Suspend(c, [AtRest EXCEPT !.pc = "tell", !.p = p])
           \/ Leave(c)
    BY <1>13 DEF RecordOutcome, p
  <2>2. call[c].says \in Notices /\ (call[c].says = "paid" => p \in Paying)
    BY <1>1, <2>1 DEF Backed, CallStates, p
  <2>3. /\ StatusFor[call[c].says] \in Statuses
        /\ StatusFor[call[c].says] = "paid" <=> call[c].says = "paid"
    BY <2>2 DEF StatusFor, Notices, Statuses
  <2>4. Documents' /\ Grows /\ (call[c].says = "paid" => p \in wasPaid')
    BY <1>1, <1>2, <2>1, <2>2, <2>3, StatusSaved
  <2>5. CASE Leave(c)
    BY <2>4, <2>5, RestBacked DEF Leave
  <2>6. CASE call[c].says = "paid" /\ Suspend(c, [AtRest EXCEPT !.pc = "tell", !.p = p])
    <3>1. PICK r : r = [AtRest EXCEPT !.pc = "tell", !.p = p]
      OBVIOUS
    <3>2. r \in CallStates /\ r.pc = "tell" /\ r.p = p
      BY <1>2, <3>1, RestBacked DEF AtRest, CallStates, Labels, Statuses, Notices
    <3>3. Backed(r)'
      BY <2>4, <2>6, <3>2 DEF Backed
    <3>4. Suspend(c, r)
      BY <2>6, <3>1
    <3>5. QED BY <2>4, <3>3, <3>4
  <2>7. QED BY <2>1, <2>5, <2>6
<1>14. QED
  BY <1>6, <1>7, <1>8, <1>9, <1>10, <1>11, <1>12, <1>13

-----------------------------------------------------------------------------
(* Steps that write an attempt.                                            *)
LEMMA AttemptSaved ==
  ASSUME Documents, UNCHANGED << under, deaths, payment, said, record, told, wasPaid >>,
         NEW a \in Attempts, NEW d \in AttemptDocuments, attempt' = [attempt EXCEPT ![a] = d],
         d.of # 0,
         attempt[a].of # 0 => d.of = attempt[a].of /\ d.via = attempt[a].via
  PROVE  Documents' /\ Grows
<1>1. attempt' \in [Attempts -> AttemptDocuments]
  BY DEF Documents
<1>2. \A b \in Attempts : attempt'[b] = IF b = a THEN d ELSE attempt[b]
  BY DEF Documents
<1>3. Grows
  BY <1>2 DEF Grows
<1>4. PaidIsBacked'
  BY <1>3, PayingGrows DEF Documents, PaidIsBacked
<1>5. UnmadeIsUnknown'
  BY <1>2 DEF Documents, UnmadeIsUnknown
<1>6. NoSuccessDropped'
  <2> SUFFICES ASSUME NEW b \in Attempts, "shareId" \notin Can[attempt'[b].via],
                      record[<< b, "paid" >>] = "closed"
               PROVE  attempt'[b].of \in wasPaid
    BY DEF NoSuccessDropped
  <2>1. attempt[b].of # 0
    BY DEF Documents, UnmadeIsUnknown, Notices
  <2>2. attempt'[b].of = attempt[b].of /\ attempt'[b].via = attempt[b].via
    BY <1>2, <2>1
  <2>3. QED BY <2>2 DEF Documents, NoSuccessDropped
<1>7. QED BY <1>1, <1>3, <1>4, <1>5, <1>6 DEF Documents

LEMMA AttemptingStands ==
  ASSUME Inv, NEW c \in Calls, CreateAttempt(c) \/ OpenSession(c) \/ AnswerCustomer(c)
  PROVE  Inv' /\ Grows
<1> DEFINE p == call[c].p
<1>1. Backed(call[c]) /\ call[c] \in CallStates /\ Documents
  BY DEF Inv, Backed
<1>2. /\ p \in Payments /\ p # 0 /\ p \in 0 .. MaxPayments /\ call[c].a \in Attempts
      /\ call[c].via \in Gateways /\ call[c].count \in Nat /\ call[c].seen \in Statuses
  BY <1>1, PaymentConstants DEF CallStates, Payments
<1>3. UNCHANGED << under, deaths, payment, said, record, told, wasPaid >>
  BY DEF CreateAttempt, OpenSession, AnswerCustomer
<1>4. SUFFICES Documents' /\ Grows /\ \E r : Suspend(c, r) /\ (Backed(r)' \/ Backed(r))
  BY <1>1, BackedStays, StepStands
<1> HIDE DEF p
<1>5. CASE CreateAttempt(c)
  <2>1. PICK a \in AttemptsOf(0) :
          /\ attempt' = [attempt EXCEPT ![a] = [of |-> p, number |-> call[c].count + 1,
                                                via |-> call[c].via, made |-> FALSE, sent |-> FALSE]]
          /\ Suspend(c, [AtRest EXCEPT !.pc = "gateway", !.p = p, !.a = a, !.seen = call[c].seen])
    BY <1>5 DEF CreateAttempt, p
  <2> DEFINE d == [of |-> p, number |-> call[c].count + 1, via |-> call[c].via,
                   made |-> FALSE, sent |-> FALSE]
  <2>2. a \in Attempts /\ attempt[a].of = 0
    BY DEF AttemptsOf
  <2>3. d \in AttemptDocuments /\ d.of = p
    BY <1>2 DEF AttemptDocuments
  <2> HIDE DEF d
  <2>4. attempt' = [attempt EXCEPT ![a] = d]
    BY <2>1 DEF d
  <2>5. Documents' /\ Grows
    BY <1>1, <1>2, <1>3, <2>2, <2>3, <2>4, AttemptSaved
  <2>6. PICK r : r = [AtRest EXCEPT !.pc = "gateway", !.p = p, !.a = a, !.seen = call[c].seen]
    OBVIOUS
  <2>7. r \in CallStates /\ r.pc = "gateway" /\ r.p = p /\ r.a = a
    BY <1>2, <2>2, <2>6, RestBacked DEF AtRest, CallStates, Labels, Notices
  <2>8. attempt'[a].of = p
    BY <1>1, <2>2, <2>3, <2>4 DEF Documents
  <2>9. Backed(r)'
    BY <2>7, <2>8 DEF Backed
  <2>10. QED BY <2>1, <2>5, <2>6, <2>9
<1>6. CASE OpenSession(c)
  <2> DEFINE d == [attempt[call[c].a] EXCEPT !.made = TRUE]
  <2>1. /\ attempt' = [attempt EXCEPT ![call[c].a] = d]
        /\ Suspend(c, [call[c] EXCEPT !.pc = "session"])
        /\ attempt[call[c].a].of = p
    BY <1>1, <1>6 DEF OpenSession, Goto, Backed, p
  <2>2. d \in AttemptDocuments /\ d.of = attempt[call[c].a].of /\ d.via = attempt[call[c].a].via
    BY <1>1, <1>2 DEF Documents, AttemptDocuments
  <2> HIDE DEF d
  <2>3. Documents' /\ Grows
    BY <1>1, <1>2, <1>3, <2>1, <2>2, AttemptSaved
  <2>4. Backed([call[c] EXCEPT !.pc = "session"])
    BY <1>1, <2>1, CarryTo DEF Backed, CallStates, Labels, p
  <2>5. QED BY <2>1, <2>3, <2>4
<1>7. CASE AnswerCustomer(c)
  <2> DEFINE d == [attempt[call[c].a] EXCEPT !.sent = TRUE]
  <2>1. attempt' = [attempt EXCEPT ![call[c].a] = d] /\ Leave(c) /\ attempt[call[c].a].of = p
    BY <1>1, <1>7 DEF AnswerCustomer, Backed, p
  <2>2. d \in AttemptDocuments /\ d.of = attempt[call[c].a].of /\ d.via = attempt[call[c].a].via
    BY <1>1, <1>2 DEF Documents, AttemptDocuments
  <2> HIDE DEF d
  <2>3. Documents' /\ Grows
    BY <1>1, <1>2, <1>3, <2>1, <2>2, AttemptSaved
  <2>4. QED BY <2>1, <2>3, RestBacked DEF Leave
<1>8. QED BY <1>5, <1>6, <1>7

-----------------------------------------------------------------------------
(* Steps that write the record of a notice: a success is closed only when  *)
(* its payment has been saved as paid.                                     *)
LEMMA RecordSaved ==
  ASSUME Documents, deaths' \in Nat, UNCHANGED << under, payment, attempt, said, told, wasPaid >>,
         NEW a \in Attempts, NEW o \in Notices,
         NEW state \in {"none", "open", "rejected", "closed"},
         attempt[a].of # 0,
         state = "closed" => o # "paid" \/ attempt[a].of \in wasPaid,
         record' = [record EXCEPT ![EventOf(a, o)] = state]
  PROVE  Documents' /\ Grows
<1>1. EventOf(a, o) \in Events
  BY DEF EventOf, Events
<1>2. Grows
  BY DEF Grows
<1>3. PaidIsBacked'
  BY DEF Documents, PaidIsBacked, Paying
<1>4. UnmadeIsUnknown'
  <2>1. \A b \in Attempts, x \in Notices \cup {"any"} :
          b # a => record'[<< b, x >>] = record[<< b, x >>]
    BY <1>1 DEF Documents, EventOf, Events
  <2>2. QED BY <2>1 DEF Documents, UnmadeIsUnknown
<1>5. NoSuccessDropped'
  <2> SUFFICES ASSUME NEW b \in Attempts, "shareId" \notin Can[attempt[b].via],
                      record'[<< b, "paid" >>] = "closed"
               PROVE  attempt[b].of \in wasPaid
    BY DEF NoSuccessDropped
  <2>1. CASE << b, "paid" >> = EventOf(a, o)
    <3>1. b = a /\ o = "paid"
      BY <2>1 DEF EventOf
    <3>2. state = "closed"
      BY <1>1, <2>1 DEF Documents
    <3>3. QED BY <3>1, <3>2
  <2>2. CASE << b, "paid" >> # EventOf(a, o)
    <3>1. << b, "paid" >> \in Events
      BY DEF Events, Notices
    <3>2. record[<< b, "paid" >>] = "closed"
      BY <1>1, <2>2, <3>1 DEF Documents
    <3>3. QED BY <3>2 DEF Documents, NoSuccessDropped
  <2>3. QED BY <2>1, <2>2
<1>6. record' \in [Events -> {"none", "open", "rejected", "closed"}]
  BY <1>1 DEF Documents
<1>7. QED BY <1>2, <1>3, <1>4, <1>5, <1>6 DEF Documents

LEMMA NoticesStand ==
  ASSUME Inv, NEW c \in Calls,
         \/ \E a \in Attempts, o \in Notices : Deliver(c, a, o)
         \/ JudgeNotice(c) \/ CloseNotice(c) \/ FailNotice(c)
  PROVE  Inv'
<1>1. Backed(call[c]) /\ call[c] \in CallStates /\ Documents
  BY DEF Inv, Backed
<1>2. SUFFICES Documents' /\ Grows /\ \E r : Suspend(c, r) /\ (Backed(r)' \/ Backed(r))
  BY <1>1, BackedStays, StepStands
<1>3. deaths \in Nat /\ deaths + 1 \in Nat
  BY <1>1 DEF Documents
<1>4. Leave(c) => \E r : Suspend(c, r) /\ Backed(r)
  BY RestBacked DEF Leave
<1>5. ASSUME call[c].pc \in {"hook", "hookSave", "hookClose", "hookTell"}
      PROVE  /\ attempt[call[c].a].of = call[c].p /\ attempt[call[c].a].of # 0
             /\ call[c].says \in Notices /\ call[c].a \in Attempts /\ call[c].p \in Payments
  BY <1>1, <1>5 DEF Backed, CallStates, Payments
<1>6. ASSUME NEW a \in Attempts, NEW o \in Notices, Deliver(c, a, o)
      PROVE  Documents' /\ Grows /\ \E r : Suspend(c, r) /\ (Backed(r)' \/ Backed(r))
  <2> DEFINE e == EventOf(a, o)
             state == IF record[e] = "none" THEN "open" ELSE record[e]
  <2>1. /\ record' = [record EXCEPT ![e] = state]
        /\ UNCHANGED << under, deaths, payment, attempt, said, told, wasPaid >>
        /\ Suspend(c, [AtRest EXCEPT !.pc = "hook", !.a = a, !.p = attempt[a].of, !.says = o])
        /\ o \in said[a] /\ state # "closed" /\ e \in Events
    BY <1>6 DEF Deliver, NeedsReplay, EventOf, Events
  <2>2. attempt[a].of # 0
    BY <1>1, <2>1 DEF Documents, UnmadeIsUnknown
  <2>3. state \in {"none", "open", "rejected", "closed"}
    BY <1>1, <2>1 DEF Documents
  <2>4. attempt[a].of \in Payments
    <3>1. attempt[a].of \in 0 .. MaxPayments
      BY <1>1 DEF Documents, AttemptDocuments
    <3>2. QED BY <2>2, <3>1, PaymentConstants DEF Payments
  <2>5. Backed([AtRest EXCEPT !.pc = "hook", !.a = a, !.p = attempt[a].of, !.says = o])
    BY <2>1, <2>4, RestBacked DEF Backed, AtRest, CallStates, Labels, Statuses
  <2> HIDE DEF state
  <2>6. Documents' /\ Grows
    BY <1>1, <1>3, <2>1, <2>2, <2>3, RecordSaved
  <2>7. QED BY <2>1, <2>5, <2>6
<1>7. CASE JudgeNotice(c)
  <2>1. /\ UNCHANGED << under, deaths, payment, attempt, said, told, wasPaid >>
        /\ call[c].pc = "hook"
        /\ \/ Mark(c, "rejected") /\ Leave(c)
           \/ Mark(c, "closed") /\ call[c].says # "paid" /\ Leave(c)
           \/ /\ Suspend(c, [call[c] EXCEPT !.pc = "hookSave", !.seen = payment[call[c].p].status])
              /\ UNCHANGED record
    BY <1>7, Zenon DEF JudgeNotice
  <2>2. ASSUME NEW state \in {"rejected", "closed"}, Mark(c, state), Leave(c),
               state = "closed" => call[c].says # "paid"
        PROVE  Documents' /\ Grows /\ \E r : Suspend(c, r) /\ (Backed(r)' \/ Backed(r))
    BY <1>1, <1>3, <1>4, <1>5, <2>1, <2>2, RecordSaved DEF Mark
  <2>3. ASSUME Suspend(c, [call[c] EXCEPT !.pc = "hookSave", !.seen = payment[call[c].p].status]),
               UNCHANGED record
        PROVE  Documents' /\ Grows /\ \E r : Suspend(c, r) /\ (Backed(r)' \/ Backed(r))
    <3> DEFINE s == payment[call[c].p].status
    <3>1. s \in Statuses
      BY <1>1, <1>5, <2>1 DEF Documents, PaymentDocuments
    <3>2. Suspend(c, [call[c] EXCEPT !.pc = "hookSave", !.seen = s])
      BY <2>3
    <3> HIDE DEF s
    <3>3. [call[c] EXCEPT !.pc = "hookSave", !.seen = s] =
            [pc |-> "hookSave", p |-> call[c].p, a |-> call[c].a, via |-> call[c].via,
             count |-> call[c].count, seen |-> s, says |-> call[c].says]
      BY <1>1, CarrySeen, Zenon
    <3>4. Backed([call[c] EXCEPT !.pc = "hookSave", !.seen = s])
      BY <1>1, <2>1, <3>1, <3>3 DEF Backed, CallStates, Labels
    <3>5. Documents' /\ Grows
      BY <1>1, <1>3, <2>1, <2>3, DocumentsStay
    <3>6. QED BY <3>2, <3>4, <3>5
  <2>4. QED BY <2>1, <2>2, <2>3
<1>8. CASE CloseNotice(c)
  <2>1. /\ Mark(c, "closed") /\ call[c].pc = "hookClose"
        /\ UNCHANGED << under, deaths, payment, attempt, said, told, wasPaid >>
        /\ \/ call[c].says = "paid" /\ Suspend(c, [call[c] EXCEPT !.pc = "hookTell"])
           \/ Leave(c)
    BY <1>8, Zenon DEF CloseNotice, Goto
  <2>2. call[c].says = "paid" => call[c].p \in wasPaid
    BY <1>1, <2>1 DEF Backed
  <2>3. Documents' /\ Grows
    BY <1>1, <1>3, <1>5, <2>1, <2>2, RecordSaved DEF Mark
  <2>4. call[c].says = "paid" => Backed([call[c] EXCEPT !.pc = "hookTell"])
    BY <1>1, <2>1, <2>2, CarryTo DEF Backed, CallStates, Labels
  <2>5. QED BY <1>4, <2>1, <2>3, <2>4
<1>9. CASE FailNotice(c)
  <2>1. /\ Mark(c, "open") /\ call[c].pc \in {"hook", "hookSave", "hookClose", "hookTell"}
        /\ UNCHANGED << under, payment, attempt, said, told, wasPaid >> /\ deaths' = deaths + 1
        /\ Leave(c)
    BY <1>9 DEF FailNotice
  <2>2. Documents' /\ Grows
    BY <1>1, <1>3, <1>5, <2>1, RecordSaved DEF Mark
  <2>3. QED BY <1>4, <2>1, <2>2
<1>10. QED BY <1>6, <1>7, <1>8, <1>9

(* Steps that suspend no call, and the announcement.                       *)
LEMMA StandingStands ==
  ASSUME Inv, Documents', Grows, UNCHANGED call
  PROVE  Inv'
<1> SUFFICES ASSUME NEW c \in Calls PROVE Backed(call[c])'
  BY DEF Inv
<1>1. PICK r : r = call[c] /\ Backed(r)
  BY DEF Inv
<1>2. Backed(r)' /\ call'[c] = r
  BY <1>1, BackedStays DEF Inv
<1>3. QED BY <1>2

LEMMA SkipStands ==
  ASSUME Inv, NEW c \in Calls, NEW a \in Attempts, SkipReplay(c, a)
  PROVE  Inv'
<1>1. /\ attempt[a].of # 0 /\ payment[attempt[a].of].status = "paid"
      /\ record' = [record EXCEPT ![EventOf(a, "paid")] = "closed"]
      /\ UNCHANGED << under, deaths, payment, attempt, said, told, wasPaid, call >>
  BY DEF SkipReplay
<1>2. attempt[a].of \in Payments
  <2>1. attempt[a].of \in 0 .. MaxPayments
    BY DEF Inv, Documents, AttemptDocuments
  <2>2. QED BY <1>1, <2>1, PaymentConstants DEF Payments
<1>3. attempt[a].of \in wasPaid
  BY <1>1, <1>2 DEF Inv, Documents, PaidIsBacked
<1>4. "paid" \in Notices /\ deaths \in Nat
  BY DEF Notices, Inv, Documents
<1>5. Documents' /\ Grows
  BY <1>1, <1>3, <1>4, RecordSaved DEF Inv
<1>6. QED BY <1>1, <1>5, StandingStands

LEMMA AnnouncingStands ==
  ASSUME Inv, NEW c \in Calls, Announce(c)
  PROVE  Inv' /\ call[c].p \in wasPaid
<1>1. /\ call[c].pc \in {"hookTell", "tell"} /\ told' = told \cup {call[c].p} /\ Leave(c)
      /\ UNCHANGED << under, deaths, payment, attempt, said, record, wasPaid >>
  BY DEF Announce
<1>2. call[c].p \in wasPaid /\ call[c].p \in Payments
  BY <1>1 DEF Inv, Backed, CallStates
<1>3. Documents' /\ Grows
  BY <1>1, <1>2 DEF Inv, Documents, Grows, PaidIsBacked, Paying, UnmadeIsUnknown, NoSuccessDropped
<1>4. QED BY <1>1, <1>2, <1>3, LeavingStands

LEMMA DecidingStands ==
  ASSUME Inv, NEW a \in Attempts, NEW o \in Notices, Decide(a, o)
  PROVE  Inv'
<1>1. /\ attempt[a].sent /\ said' = [said EXCEPT ![a] = @ \cup {o}]
      /\ UNCHANGED << under, deaths, payment, attempt, record, told, wasPaid, call >>
  BY DEF Decide
<1>2. said' \in [Attempts -> SUBSET Notices] /\ \A b \in Attempts : said[b] \subseteq said'[b]
  BY <1>1 DEF Inv, Documents
<1>3. Grows
  BY <1>1, <1>2 DEF Grows
<1>4. PaidIsBacked'
  BY <1>1, <1>3, PayingGrows DEF Inv, Documents, PaidIsBacked
<1>5. UnmadeIsUnknown' /\ NoSuccessDropped'
  BY <1>1 DEF Inv, Documents, UnmadeIsUnknown, NoSuccessDropped
<1>6. Documents'
  BY <1>1, <1>2, <1>4, <1>5 DEF Inv, Documents
<1>7. QED BY <1>1, <1>3, <1>6, StandingStands

LEMMA NextStands == Inv /\ [Next]_vars => Inv'
<1> SUFFICES ASSUME Inv, [Next]_vars PROVE Inv'
  OBVIOUS
<1>1. CASE UNCHANGED vars
  <2>1. Documents' /\ Grows /\ UNCHANGED call
    BY <1>1, DocumentsStay DEF vars, Inv, Documents
  <2>2. QED BY <2>1, StandingStands
<1>2. ASSUME NEW c \in Calls, Begin(c) PROVE Inv'
  BY <1>2, ReadingStands, NoticesStand, SkipStands, Zenon DEF Begin
<1>3. ASSUME NEW c \in Calls, GoOn(c) PROVE Inv'
  BY <1>3, ReadingStands, SavingStands, AttemptingStands, NoticesStand, AnnouncingStands DEF GoOn
<1>4. ASSUME NEW c \in Calls, FailNotice(c) \/ Die(c) PROVE Inv'
  BY <1>4, NoticesStand, ReadingStands
<1>5. ASSUME NEW a \in Attempts, NEW o \in Notices, Decide(a, o) PROVE Inv'
  BY <1>5, DecidingStands
<1>6. QED BY <1>1, <1>2, <1>3, <1>4, <1>5 DEF Next

LEMMA InvAlways == Spec => []Inv
<1>1. QED BY InitInv, NextStands, PTL DEF Spec

(* Payments, attempts, records of notices and what calls carry stay well   *)
(* formed.                                                                 *)
THEOREM TypeCorrect == Spec => []TypeOK
<1>1. Inv => TypeOK
  BY DEF Inv, Documents, TypeOK
<1>2. QED BY <1>1, InvAlways, PTL

(* However notices, replays, browser returns, reconciliations and retries  *)
(* interleave and wherever they are cut off: a success whose record is     *)
(* closed, so that no delivery of it is looked at again, has been saved.   *)
THEOREM NoSuccessEverDropped == Spec => []NoSuccessDropped
<1>1. Inv => NoSuccessDropped
  BY DEF Inv, Documents
<1>2. QED BY <1>1, InvAlways, PTL

-----------------------------------------------------------------------------
(* The payment service keeps the promise of module Capture: each step is a *)
(* step of the promise or leaves it alone.                                 *)
LEMMA PayingStays ==
  ASSUME Documents, Grows, UNCHANGED said
  PROVE  Paying' = Paying
<1>1. Paying \subseteq Paying'
  BY PayingGrows
<1>2. ASSUME NEW p \in Payments, NEW a \in Attempts, attempt'[a].of = p, "paid" \in said[a]
      PROVE  attempt[a].of = p
  <2>1. attempt[a].of # 0
    BY <1>2 DEF Documents, UnmadeIsUnknown
  <2>2. QED BY <1>2, <2>1 DEF Grows
<1>3. Paying' \subseteq Paying
  BY <1>2 DEF Paying
<1>4. QED BY <1>1, <1>3

LEMMA StatusRecorded ==
  ASSUME Inv, NEW p \in Payments, NEW seen, NEW status, status = "paid" => p \in Paying,
         SaveStatus(p, seen, status), UNCHANGED << attempt, said, told >>
  PROVE  Promise!Next \/ UNCHANGED Promise!vars
<1>1. Paying' = Paying
  BY DEF Paying
<1>2. CASE status = "paid"
  <2>1. Promise!Record(p)
    BY <1>1, <1>2 DEF SaveStatus, Promise!Record
  <2>2. QED BY <2>1 DEF Promise!Next
<1>3. CASE status # "paid"
  BY <1>1, <1>3 DEF SaveStatus, Promise!vars
<1>4. QED BY <1>2, <1>3

LEMMA StepKeepsPromise ==
  ASSUME Inv, NEW c \in Calls, Begin(c) \/ GoOn(c) \/ FailNotice(c) \/ Die(c)
  PROVE  Promise!Next \/ UNCHANGED Promise!vars
<1>1. Backed(call[c]) /\ Documents /\ call[c].p \in Payments /\ call[c].says \in Notices
      /\ call[c].a \in Attempts
  BY DEF Inv, Backed, CallStates
<1>2. CASE UNCHANGED << attempt, said, told, wasPaid >>
  BY <1>2 DEF Promise!vars, Paying
<1>3. CASE CreateAttempt(c) \/ OpenSession(c) \/ AnswerCustomer(c)
  <2>1. UNCHANGED << said, told, wasPaid >>
    BY <1>3 DEF CreateAttempt, OpenSession, AnswerCustomer
  <2>2. Paying' = Paying
    BY <1>1, <1>3, <2>1, AttemptingStands, PayingStays
  <2>3. QED BY <2>1, <2>2 DEF Promise!vars
<1>4. CASE MarkExpired(c)
  BY <1>1, <1>4, StatusRecorded DEF MarkExpired
<1>5. CASE SaveNotice(c) \/ RecordOutcome(c)
  <2>1. /\ SaveStatus(call[c].p, call[c].seen, StatusFor[call[c].says])
        /\ UNCHANGED << attempt, said, told >> /\ call[c].pc \in {"hookSave", "record"}
    BY <1>5 DEF SaveNotice, RecordOutcome
  <2>2. StatusFor[call[c].says] = "paid" => call[c].says = "paid"
    BY <1>1 DEF StatusFor, Notices
  <2>3. call[c].says = "paid" => call[c].p \in Paying
    BY <1>1, <2>1 DEF Backed, Paying
  <2>4. QED BY <1>1, <2>1, <2>2, <2>3, StatusRecorded
<1>6. CASE Announce(c)
  <2>1. call[c].p \in wasPaid
    BY <1>6, AnnouncingStands
  <2>2. Promise!Announce(call[c].p)
    BY <1>6, <2>1 DEF Announce, Promise!Announce, Paying
  <2>3. QED BY <1>1, <2>2 DEF Promise!Next
<1>7. ASSUME Begin(c) PROVE UNCHANGED << attempt, said, told, wasPaid >>
  BY <1>7, Zenon DEF Begin, FindPayment, RetryPayment, Deliver, ReturnPage, SkipReplay, Reconcile
<1>8. ASSUME FailNotice(c) \/ Die(c) PROVE UNCHANGED << attempt, said, told, wasPaid >>
  BY <1>8, Zenon DEF FailNotice, Die
<1>9. ASSUME CreateDocument(c) \/ SwitchGateway(c) \/ ReadForRetry(c) \/ SaveReopened(c)
             \/ SaveSession(c) \/ FailSession(c) \/ SaveFailed(c) \/ JudgeNotice(c)
             \/ CloseNotice(c) \/ AskGateway(c)
      PROVE  UNCHANGED << attempt, said, told, wasPaid >>
  BY <1>9, Zenon DEF CreateDocument, SwitchGateway, ReadForRetry, SaveReopened, SaveSession,
                     FailSession, SaveFailed, JudgeNotice, CloseNotice, AskGateway
<1>10. QED
  BY <1>2, <1>3, <1>4, <1>5, <1>6, <1>7, <1>8, <1>9 DEF GoOn

LEMMA DecisionTakes ==
  ASSUME Inv, NEW a \in Attempts, NEW o \in Notices, Decide(a, o)
  PROVE  Promise!Next \/ UNCHANGED Promise!vars
<1> DEFINE p == attempt[a].of
<1>1. /\ attempt[a].sent /\ said' = [said EXCEPT ![a] = @ \cup {o}]
      /\ UNCHANGED << attempt, told, wasPaid >>
  BY DEF Decide
<1>2. \A b \in Attempts : said'[b] = IF b = a THEN said[b] \cup {o} ELSE said[b]
  BY <1>1 DEF Inv, Documents
<1>3. p \in Payments
  <2>1. p \in 0 .. MaxPayments /\ p # 0
    BY <1>1 DEF Inv, Documents, AttemptDocuments, UnmadeIsUnknown
  <2>2. QED BY <2>1, PaymentConstants DEF Payments
<1>4. CASE o = "paid"
  <2>1. Paying' = Paying \cup {p}
    BY <1>1, <1>2, <1>3, <1>4 DEF Paying
  <2>2. Promise!Take(p)
    BY <1>1, <2>1 DEF Promise!Take
  <2>3. QED BY <1>3, <2>2 DEF Promise!Next
<1>5. CASE o # "paid"
  <2>1. Paying' = Paying
    BY <1>1, <1>2, <1>5 DEF Paying
  <2>2. QED BY <1>1, <2>1 DEF Promise!vars
<1>6. QED BY <1>4, <1>5

(* Whatever interleaves, fails or is delivered twice: a payment is saved   *)
(* as paid only after the gateway has taken money for it, and its success  *)
(* is announced to the order consumer only after that.                     *)
THEOREM KeepsCapturePromise == Spec => CaptureSpec
<1>1. Init => Promise!Init
  <2> SUFFICES ASSUME Init PROVE Promise!Init
    OBVIOUS
  <2>1. Paying = {}
    BY DEF Init, Paying
  <2>2. QED BY <2>1 DEF Init, Promise!Init
<1>2. Inv /\ [Next]_vars => [Promise!Next]_(Promise!vars)
  <2> SUFFICES ASSUME Inv, [Next]_vars PROVE Promise!Next \/ UNCHANGED Promise!vars
    OBVIOUS
  <2>1. CASE UNCHANGED vars
    BY <2>1 DEF vars, Promise!vars, Paying
  <2>2. CASE Next
    BY <2>2, StepKeepsPromise, DecisionTakes DEF Next
  <2>3. QED BY <2>1, <2>2
<1>3. QED BY <1>1, <1>2, InvAlways, PTL DEF Spec, CaptureSpec, Promise!Spec

-----------------------------------------------------------------------------
(* Calls that come one after the other.  The call under way, if there is   *)
(* one, works on a payment that has not been captured, or is about to save *)
(* it as paid, or does not save it.                                        *)
OnOpenPayment ==
  {"switch", "expire", "retry", "reopen", "attempt", "gateway", "session", "answer", "fail",
   "verify", "record"}

MayOnlyPay(r, docs) ==
  /\ r.pc \in OnOpenPayment => docs[r.p].status # "paid"
  /\ r.pc = "hookSave" => (docs[r.p].status = "paid" => r.says = "paid")

OneAtATime == \A c, d \in Calls : call[c].pc # "idle" /\ call[d].pc # "idle" => c = d

TurnInv == InTurn => OneAtATime /\ \A c \in Calls : MayOnlyPay(call[c], payment)

LEMMA RestPays == AtRest.pc = "idle" /\ MayOnlyPay(AtRest, payment) /\ MayOnlyPay(AtRest, payment')
  BY RestBacked DEF MayOnlyPay, OnOpenPayment

(* The shape of every step of the call under way.                          *)
LEMMA TurnPasses ==
  ASSUME Inv, NEW c \in Calls, \A d \in Calls : d # c => call[d].pc = "idle",
         NEW r, Suspend(c, r), MayOnlyPay(r, payment')
  PROVE  TurnInv'
<1>1. \A d \in Calls : call'[d] = IF d = c THEN r ELSE call[d]
  BY DEF Suspend, Inv
<1>2. OneAtATime'
  BY <1>1 DEF OneAtATime
<1>3. ASSUME NEW d \in Calls PROVE MayOnlyPay(call'[d], payment')
  <2>1. CASE d = c
    <3>1. call'[d] = r
      BY <1>1, <2>1
    <3>2. QED BY <3>1 DEF MayOnlyPay
  <2>2. CASE d # c
    <3>1. call'[d].pc = "idle"
      BY <1>1, <2>2
    <3>2. QED BY <3>1 DEF MayOnlyPay, OnOpenPayment
  <2>3. QED BY <2>1, <2>2
<1>4. QED BY <1>2, <1>3 DEF TurnInv

(* The call that steps is the only one under way.                          *)
LEMMA OthersRest ==
  ASSUME TurnInv, InTurn, NEW c \in Calls, call[c].pc # "idle" \/ MayBegin(c)
  PROVE  \A d \in Calls : d # c => call[d].pc = "idle"
  BY DEF TurnInv, InTurn, OneAtATime, MayBegin

NoneUnpaid == \A p \in Payments : payment[p].status = "paid" => payment'[p].status = "paid"

(* Steps that begin a call: the payment is as it was read.                 *)
LEMMA TurnBegins ==
  ASSUME Inv, TurnInv, InTurn, NEW c \in Calls, Begin(c)
  PROVE  TurnInv' /\ NoneUnpaid
<1>1. payment' = payment /\ under' = under
  BY Zenon DEF Begin, FindPayment, RetryPayment, Deliver, ReturnPage, SkipReplay, Reconcile
<1>2. MayBegin(c)
  BY Zenon DEF Begin, FindPayment, RetryPayment, Deliver, ReturnPage, SkipReplay, Reconcile
<1>3. NoneUnpaid
  BY <1>1 DEF NoneUnpaid
<1>4. SUFFICES TurnInv'
  BY <1>3
<1>5. ASSUME NEW r, Suspend(c, r), MayOnlyPay(r, payment)
      PROVE  TurnInv'
  <2>1. MayOnlyPay(r, payment')
    BY <1>1, <1>5 DEF MayOnlyPay
  <2>2. QED BY <1>2, <1>5, <2>1, OthersRest, TurnPasses
<1>6. ASSUME NEW g \in Gateways, FindPayment(c, g)
      PROVE  TurnInv'
  <2>1. ASSUME Suspend(c, [AtRest EXCEPT !.pc = "create", !.via = g])
        PROVE  TurnInv'
    <3>1. MayOnlyPay([AtRest EXCEPT !.pc = "create", !.via = g], payment)
      BY DEF MayOnlyPay, OnOpenPayment, AtRest
    <3>2. QED BY <1>5, <2>1, <3>1
  <2>2. ASSUME NEW p \in Made, NEW label \in {"switch", "attempt", "expire", "retry"},
               payment[p].status # "paid",
               Suspend(c, [AtRest EXCEPT !.pc = label, !.p = p, !.via = g,
                                         !.count = payment[p].count, !.seen = payment[p].status])
        PROVE  TurnInv'
    <3>1. MayOnlyPay([AtRest EXCEPT !.pc = label, !.p = p, !.via = g,
                                    !.count = payment[p].count, !.seen = payment[p].status], payment)
      BY <2>2 DEF MayOnlyPay, AtRest
    <3>2. QED BY <1>5, <2>2, <3>1
  <2>3. "paid" \notin InFlight /\ "paid" \notin Retryable
    BY DEF InFlight, Retryable
  <2>4. QED BY <1>6, <2>1, <2>2, <2>3, Zenon DEF FindPayment
<1>7. ASSUME NEW g \in Gateways, NEW p \in Payments, RetryPayment(c, p, g)
      PROVE  TurnInv'
  <2>1. /\ Suspend(c, [AtRest EXCEPT !.pc = "reopen", !.p = p, !.via = g,
                                     !.count = payment[p].count])
        /\ payment[p].status # "paid"
    BY <1>7 DEF RetryPayment, Retryable
  <2>2. MayOnlyPay([AtRest EXCEPT !.pc = "reopen", !.p = p, !.via = g, !.count = payment[p].count], payment)
    BY <2>1 DEF MayOnlyPay, AtRest
  <2>3. QED BY <1>5, <2>1, <2>2
<1>8. ASSUME NEW a \in Attempts, NEW o \in Notices, Deliver(c, a, o)
      PROVE  TurnInv'
  <2>1. Suspend(c, [AtRest EXCEPT !.pc = "hook", !.a = a, !.p = attempt[a].of, !.says = o])
    BY <1>8 DEF Deliver
  <2>2. MayOnlyPay([AtRest EXCEPT !.pc = "hook", !.a = a, !.p = attempt[a].of, !.says = o], payment)
    BY DEF MayOnlyPay, OnOpenPayment, AtRest
  <2>3. QED BY <1>5, <2>1, <2>2
<1>9. ASSUME NEW a \in Attempts, NEW o \in Notices, ReturnPage(c, a, o)
      PROVE  TurnInv'
  <2> DEFINE p == attempt[a].of
  <2>1. \/ /\ payment[p].status # "paid"
           /\ Suspend(c, [AtRest EXCEPT !.pc = "record", !.p = p, !.seen = payment[p].status,
                                        !.says = o])
        \/ Suspend(c, [AtRest EXCEPT !.pc = "tell", !.p = p])
    BY <1>9, Zenon DEF ReturnPage
  <2> HIDE DEF p
  <2>2. MayOnlyPay([AtRest EXCEPT !.pc = "tell", !.p = p], payment)
    BY DEF MayOnlyPay, OnOpenPayment, AtRest
  <2>3. payment[p].status # "paid" =>
          MayOnlyPay([AtRest EXCEPT !.pc = "record", !.p = p, !.seen = payment[p].status, !.says = o], payment)
    BY DEF MayOnlyPay, AtRest
  <2>4. QED BY <1>5, <2>1, <2>2, <2>3
<1>10. ASSUME NEW a \in Attempts, SkipReplay(c, a)
       PROVE  TurnInv'
  BY <1>1, <1>10 DEF SkipReplay, TurnInv, InTurn, OneAtATime, MayOnlyPay
<1>11. ASSUME NEW p \in Payments, Reconcile(c, p)
       PROVE  TurnInv'
  <2>1. /\ Suspend(c, [AtRest EXCEPT !.pc = "verify", !.p = p, !.via = payment[p].via,
                                     !.count = payment[p].count, !.seen = payment[p].status])
        /\ payment[p].status # "paid"
    BY <1>11 DEF Reconcile, Reconciled, InFlight
  <2>2. MayOnlyPay([AtRest EXCEPT !.pc = "verify", !.p = p, !.via = payment[p].via,
                                  !.count = payment[p].count, !.seen = payment[p].status], payment)
    BY <2>1 DEF MayOnlyPay, AtRest
  <2>3. QED BY <1>5, <2>1, <2>2
<1>12. QED BY <1>6, <1>7, <1>8, <1>9, <1>10, <1>11 DEF Begin

(* Steps of the call under way that save no payment.                       *)
LEMMA TurnGoesOn ==
  ASSUME Inv, TurnInv, InTurn, NEW c \in Calls,
         \/ ReadForRetry(c) \/ CreateAttempt(c) \/ OpenSession(c) \/ AnswerCustomer(c)
         \/ FailSession(c) \/ JudgeNotice(c) \/ CloseNotice(c) \/ Announce(c) \/ AskGateway(c)
         \/ FailNotice(c) \/ Die(c)
  PROVE  TurnInv' /\ NoneUnpaid
<1>1. payment' = payment
  BY Zenon DEF ReadForRetry, CreateAttempt, OpenSession, AnswerCustomer, FailSession, JudgeNotice,
               CloseNotice, Announce, AskGateway, FailNotice, Die
<1>2. call[c].pc # "idle"
  BY DEF ReadForRetry, CreateAttempt, OpenSession, AnswerCustomer, FailSession, JudgeNotice,
         CloseNotice, Announce, AskGateway, FailNotice, Die
<1>3. NoneUnpaid
  BY <1>1 DEF NoneUnpaid
<1>4. SUFFICES TurnInv'
  BY <1>3
<1>5. ASSUME NEW r, Suspend(c, r), MayOnlyPay(r, payment)
      PROVE  TurnInv'
  <2>1. MayOnlyPay(r, payment')
    BY <1>1, <1>5 DEF MayOnlyPay
  <2>2. QED BY <1>2, <1>5, <2>1, OthersRest, TurnPasses
<1>6. ASSUME Leave(c) PROVE TurnInv'
  BY <1>5, <1>6, RestPays DEF Leave
<1>7. call[c] \in CallStates /\ MayOnlyPay(call[c], payment)
  BY DEF Inv, TurnInv
<1> DEFINE p == call[c].p
<1>8. CASE ReadForRetry(c)
  <2> DEFINE n == payment[p].count
  <2>1. \/ Leave(c)
        \/ /\ payment[p].status # "paid"
           /\ Suspend(c, [call[c] EXCEPT !.pc = "reopen", !.count = n, !.seen = "none"])
    BY <1>8 DEF ReadForRetry, Retryable
  <2> HIDE DEF n
  <2>2. [call[c] EXCEPT !.pc = "reopen", !.count = n, !.seen = "none"] =
          [pc |-> "reopen", p |-> p, a |-> call[c].a, via |-> call[c].via, count |-> n,
           seen |-> "none", says |-> call[c].says]
    BY <1>7, CarryCount, Zenon
  <2>3. payment[p].status # "paid" =>
          MayOnlyPay([call[c] EXCEPT !.pc = "reopen", !.count = n, !.seen = "none"], payment)
    BY <2>2 DEF MayOnlyPay
  <2>4. QED BY <1>5, <1>6, <2>1, <2>3
<1>9. CASE CreateAttempt(c)
  <2>1. PICK a \in AttemptsOf(0) :
          Suspend(c, [AtRest EXCEPT !.pc = "gateway", !.p = p, !.a = a, !.seen = call[c].seen])
    BY <1>9 DEF CreateAttempt
  <2>2. payment[p].status # "paid"
    BY <1>7, <1>9 DEF CreateAttempt, MayOnlyPay, OnOpenPayment
  <2>3. MayOnlyPay([AtRest EXCEPT !.pc = "gateway", !.p = p, !.a = a, !.seen = call[c].seen], payment)
    BY <2>2 DEF MayOnlyPay, AtRest
  <2>4. QED BY <1>5, <2>1, <2>3
<1>10. CASE OpenSession(c)
  <2>1. Suspend(c, [call[c] EXCEPT !.pc = "session"]) /\ payment[p].status # "paid"
    BY <1>7, <1>10 DEF OpenSession, Goto, MayOnlyPay, OnOpenPayment
  <2>2. MayOnlyPay([call[c] EXCEPT !.pc = "session"], payment)
    BY <1>7, <2>1, CarryTo DEF MayOnlyPay
  <2>3. QED BY <1>5, <2>1, <2>2
<1>11. CASE AnswerCustomer(c)
  BY <1>6, <1>11 DEF AnswerCustomer
<1>12. CASE FailSession(c)
  <2> DEFINE n == IF call[c].pc = "gateway" THEN 0 ELSE attempt[call[c].a].number
  <2>1. Suspend(c, [AtRest EXCEPT !.pc = "fail", !.p = p, !.count = n])
    BY <1>12 DEF FailSession
  <2>2. payment[p].status # "paid"
    BY <1>7, <1>12 DEF FailSession, MayOnlyPay, OnOpenPayment
  <2> HIDE DEF n
  <2>3. MayOnlyPay([AtRest EXCEPT !.pc = "fail", !.p = p, !.count = n], payment)
    BY <2>2 DEF MayOnlyPay, AtRest
  <2>4. QED BY <1>5, <2>1, <2>3
<1>13. CASE JudgeNotice(c)
  <2> DEFINE s == payment[p].status
  <2>1. \/ Leave(c)
        \/ /\ s = "paid" => call[c].says = "paid"
           /\ Suspend(c, [call[c] EXCEPT !.pc = "hookSave", !.seen = s])
    BY <1>13, Zenon DEF JudgeNotice
  <2>2. CASE Leave(c)
    BY <1>6, <2>2
  <2>3. ASSUME s = "paid" => call[c].says = "paid",
               Suspend(c, [call[c] EXCEPT !.pc = "hookSave", !.seen = s])
        PROVE  TurnInv'
    <3>1. [call[c] EXCEPT !.pc = "hookSave", !.seen = s] =
            [pc |-> "hookSave", p |-> p, a |-> call[c].a, via |-> call[c].via,
             count |-> call[c].count, seen |-> s, says |-> call[c].says]
      BY <1>7, CarrySeen, Zenon
    <3>2. MayOnlyPay([call[c] EXCEPT !.pc = "hookSave", !.seen = s], payment)
      BY <2>3, <3>1 DEF MayOnlyPay, OnOpenPayment
    <3>3. QED BY <1>5, <2>3, <3>2
  <2>4. QED BY <2>1, <2>2, <2>3
<1>14. CASE CloseNotice(c)
  <2>1. Leave(c) \/ Suspend(c, [call[c] EXCEPT !.pc = "hookTell"])
    BY <1>14, Zenon DEF CloseNotice, Goto
  <2>2. MayOnlyPay([call[c] EXCEPT !.pc = "hookTell"], payment)
    BY <1>7, CarryTo DEF MayOnlyPay, OnOpenPayment
  <2>3. QED BY <1>5, <1>6, <2>1, <2>2
<1>15. CASE Announce(c)
  BY <1>6, <1>15 DEF Announce
<1>16. CASE AskGateway(c)
  <2>1. ASSUME NEW o, Suspend(c, [AtRest EXCEPT !.pc = "record", !.p = p, !.seen = call[c].seen,
                                                !.says = o])
        PROVE  TurnInv'
    <3>1. payment[p].status # "paid"
      BY <1>7, <1>16 DEF AskGateway, MayOnlyPay, OnOpenPayment
    <3>2. MayOnlyPay([AtRest EXCEPT !.pc = "record", !.p = p, !.seen = call[c].seen, !.says = o], payment)
      BY <3>1 DEF MayOnlyPay, AtRest
    <3>3. QED BY <1>5, <2>1, <3>2
  <2>2. QED BY <1>6, <1>16, <2>1, Zenon DEF AskGateway
<1>17. CASE FailNotice(c) \/ Die(c)
  BY <1>6, <1>17 DEF FailNotice, Die
<1>18. QED
  BY <1>8, <1>9, <1>10, <1>11, <1>12, <1>13, <1>14, <1>15, <1>16, <1>17

(* A save that leaves the payment unpaid finds it unpaid.                  *)
LEMMA OpenStaysOpen ==
  ASSUME Inv, NEW p \in Payments, payment[p].status # "paid",
         NEW d, payment' = [payment EXCEPT ![p] = d]
  PROVE  NoneUnpaid /\ payment'[p] = d
  BY DEF Inv, Documents, NoneUnpaid

(* SaveStatus: what is paid is saved as paid or left as it is.             *)
LEMMA StatusKeepsPaid ==
  ASSUME Inv, NEW p \in Payments, NEW seen, NEW status,
         payment[p].status = "paid" => status = "paid",
         SaveStatus(p, seen, status)
  PROVE  /\ NoneUnpaid
         /\ payment[p].status # "paid" /\ status # "paid" => payment'[p].status # "paid"
<1> DEFINE s == IF status = seen THEN payment[p].status ELSE status
           d == [payment[p] EXCEPT !.status = s]
<1>1. payment' = [payment EXCEPT ![p] = d]
  BY DEF SaveStatus
<1>2. payment[p] \in PaymentDocuments
  BY DEF Inv, Documents
<1>3. d.status = s
  BY <1>2 DEF PaymentDocuments
<1> HIDE DEF d
<1>4. /\ payment'[p] = d
      /\ \A q \in Payments : q # p => payment'[q] = payment[q]
  BY <1>1 DEF Inv, Documents
<1>5. QED BY <1>3, <1>4 DEF NoneUnpaid

(* Steps of the call under way that save a payment.                        *)
LEMMA TurnSaves ==
  ASSUME Inv, TurnInv, InTurn, NEW c \in Calls,
         \/ CreateDocument(c) \/ SwitchGateway(c) \/ SaveReopened(c) \/ SaveSession(c) \/ SaveFailed(c)
         \/ MarkExpired(c) \/ SaveNotice(c) \/ RecordOutcome(c)
  PROVE  TurnInv' /\ NoneUnpaid
<1> DEFINE p == call[c].p
<1>1. call[c] \in CallStates /\ MayOnlyPay(call[c], payment) /\ p \in Payments /\ call[c].says \in Notices
  BY DEF Inv, TurnInv, CallStates
<1>2. payment[p] \in PaymentDocuments
  BY <1>1 DEF Inv, Documents
<1>3. call[c].pc # "idle"
  BY DEF CreateDocument, SwitchGateway, SaveReopened, SaveSession, SaveFailed, MarkExpired,
         SaveNotice, RecordOutcome
<1>4. SUFFICES NoneUnpaid /\ \E r : Suspend(c, r) /\ MayOnlyPay(r, payment')
  BY <1>3, OthersRest, TurnPasses
<1>5. CASE CreateDocument(c)
  <2> DEFINE d == [NoPayment EXCEPT !.status = "pending", !.via = call[c].via]
  <2>1. PICK q \in Payments \ Made :
          /\ payment' = [payment EXCEPT ![q] = d]
          /\ Suspend(c, [call[c] EXCEPT !.pc = "attempt", !.p = q, !.seen = "pending"])
    BY <1>5 DEF CreateDocument
  <2>2. d.status = "pending"
    BY DEF NoPayment
  <2> HIDE DEF d
  <2>3. NoneUnpaid /\ payment'[q] = d
    BY <2>1, OpenStaysOpen DEF Made
  <2>4. [call[c] EXCEPT !.pc = "attempt", !.p = q, !.seen = "pending"] =
          [pc |-> "attempt", p |-> q, a |-> call[c].a, via |-> call[c].via, count |-> call[c].count,
           seen |-> "pending", says |-> call[c].says]
    BY <1>1, CarryPayment, Zenon
  <2>5. MayOnlyPay([call[c] EXCEPT !.pc = "attempt", !.p = q, !.seen = "pending"], payment')
    BY <2>2, <2>3, <2>4 DEF MayOnlyPay
  <2>6. QED BY <2>1, <2>3, <2>5
<1>6. CASE SwitchGateway(c)
  <2> DEFINE d == [payment[p] EXCEPT !.via = call[c].via]
  <2>1. /\ payment' = [payment EXCEPT ![p] = d] /\ Suspend(c, [call[c] EXCEPT !.pc = "attempt"])
        /\ payment[p].status # "paid"
    BY <1>1, <1>6 DEF SwitchGateway, Goto, MayOnlyPay, OnOpenPayment
  <2>2. d.status = payment[p].status
    BY <1>2 DEF PaymentDocuments
  <2> HIDE DEF d
  <2>3. NoneUnpaid /\ payment'[p] = d
    BY <1>1, <2>1, OpenStaysOpen
  <2>4. MayOnlyPay([call[c] EXCEPT !.pc = "attempt"], payment')
    BY <1>1, <2>1, <2>2, <2>3, CarryTo DEF MayOnlyPay
  <2>5. QED BY <2>1, <2>3, <2>4
<1>7. CASE SaveReopened(c)
  <2> DEFINE d == [payment[p] EXCEPT !.status = "pending", !.via = call[c].via]
  <2>1. /\ payment' = [payment EXCEPT ![p] = d]
        /\ Suspend(c, [call[c] EXCEPT !.pc = "attempt", !.seen = "pending"])
        /\ payment[p].status # "paid"
    BY <1>1, <1>7 DEF SaveReopened, MayOnlyPay, OnOpenPayment
  <2>2. d.status = "pending"
    <3>1. "pending" \in Statuses /\ call[c].via \in Gateways
      BY <1>1 DEF Statuses, CallStates
    <3>2. d = [status |-> "pending", via |-> call[c].via, count |-> payment[p].count]
      BY <1>2, <3>1, StatusViaWritten, Zenon
    <3> HIDE DEF d
    <3>3. QED BY <3>2
  <2> HIDE DEF d
  <2>3. NoneUnpaid /\ payment'[p] = d
    BY <1>1, <2>1, OpenStaysOpen
  <2>4. [call[c] EXCEPT !.pc = "attempt", !.seen = "pending"] =
          [pc |-> "attempt", p |-> p, a |-> call[c].a, via |-> call[c].via, count |-> call[c].count,
           seen |-> "pending", says |-> call[c].says]
    BY <1>1, CarrySeen, Zenon
  <2>5. MayOnlyPay([call[c] EXCEPT !.pc = "attempt", !.seen = "pending"], payment')
    BY <2>2, <2>3, <2>4 DEF MayOnlyPay
  <2>6. QED BY <2>1, <2>3, <2>5
<1>8. CASE SaveSession(c)
  <2> DEFINE s == IF call[c].seen = "processing" THEN payment[p].status ELSE "processing"
             d == [payment[p] EXCEPT !.count = attempt[call[c].a].number, !.status = s]
  <2>1. /\ payment' = [payment EXCEPT ![p] = d]
        /\ Suspend(c, [AtRest EXCEPT !.pc = "answer", !.p = p, !.a = call[c].a])
        /\ payment[p].status # "paid"
    BY <1>1, <1>8 DEF SaveSession, MayOnlyPay, OnOpenPayment
  <2>2. d.status # "paid"
    <3>1. s \in Statuses /\ s # "paid" /\ attempt[call[c].a].number \in Nat
      BY <1>1, <1>2, <2>1 DEF Statuses, PaymentDocuments, Inv, Documents, AttemptDocuments, CallStates
    <3> HIDE DEF s
    <3>2. d = [status |-> s, via |-> payment[p].via, count |-> attempt[call[c].a].number]
      BY <1>2, <3>1, StatusCountWritten, Zenon
    <3> HIDE DEF d
    <3>3. QED BY <3>1, <3>2
  <2> HIDE DEF d
  <2>3. NoneUnpaid /\ payment'[p] = d
    BY <1>1, <2>1, OpenStaysOpen
  <2> DEFINE r == [AtRest EXCEPT !.pc = "answer", !.p = p, !.a = call[c].a]
  <2>4. r.pc = "answer" /\ r.p = p
    BY DEF AtRest
  <2>5. MayOnlyPay(r, payment')
    <3> HIDE DEF r
    <3>1. QED BY <2>2, <2>3, <2>4 DEF MayOnlyPay
  <2>6. QED BY <2>1, <2>3, <2>5
<1>9. CASE SaveFailed(c)
  <2> DEFINE n == IF call[c].count = 0 THEN payment[p].count ELSE call[c].count
             d == [payment[p] EXCEPT !.status = "failed", !.count = n]
  <2>1. payment' = [payment EXCEPT ![p] = d] /\ Leave(c) /\ payment[p].status # "paid"
    BY <1>1, <1>9 DEF SaveFailed, MayOnlyPay, OnOpenPayment
  <2> HIDE DEF d
  <2>2. NoneUnpaid
    BY <1>1, <2>1, OpenStaysOpen
  <2>3. QED BY <2>1, <2>2, RestPays DEF Leave
<1>10. CASE MarkExpired(c)
  <2>1. /\ SaveStatus(p, call[c].seen, "expired") /\ Suspend(c, [call[c] EXCEPT !.pc = "retry"])
        /\ payment[p].status # "paid"
    BY <1>1, <1>10 DEF MarkExpired, Goto, MayOnlyPay, OnOpenPayment
  <2>2. NoneUnpaid /\ payment'[p].status # "paid"
    BY <1>1, <2>1, StatusKeepsPaid
  <2>3. MayOnlyPay([call[c] EXCEPT !.pc = "retry"], payment')
    BY <1>1, <2>2, CarryTo DEF MayOnlyPay
  <2>4. QED BY <2>1, <2>2, <2>3
<1>11. CASE SaveNotice(c)
  <2>1. /\ SaveStatus(p, call[c].seen, StatusFor[call[c].says])
        /\ Suspend(c, [call[c] EXCEPT !.pc = "hookClose", !.seen = "none"])
        /\ payment[p].status = "paid" => call[c].says = "paid"
    BY <1>1, <1>11 DEF SaveNotice, MayOnlyPay
  <2>2. payment[p].status = "paid" => StatusFor[call[c].says] = "paid"
    BY <2>1 DEF StatusFor
  <2>3. NoneUnpaid
    BY <1>1, <2>1, <2>2, StatusKeepsPaid
  <2>4. [call[c] EXCEPT !.pc = "hookClose", !.seen = "none"] =
          [pc |-> "hookClose", p |-> p, a |-> call[c].a, via |-> call[c].via, count |-> call[c].count,
           seen |-> "none", says |-> call[c].says]
    BY <1>1, CarrySeen, Zenon
  <2>5. MayOnlyPay([call[c] EXCEPT !.pc = "hookClose", !.seen = "none"], payment')
    BY <2>4 DEF MayOnlyPay, OnOpenPayment
  <2>6. QED BY <2>1, <2>3, <2>5
<1>12. CASE RecordOutcome(c)
  <2>1. /\ SaveStatus(p, call[c].seen, StatusFor[call[c].says])
        /\ payment[p].status # "paid"
        /\ Leave(c) \/ Suspend(c, [AtRest EXCEPT !.pc = "tell", !.p = p])
    BY <1>1, <1>12 DEF RecordOutcome, MayOnlyPay, OnOpenPayment
  <2>2. NoneUnpaid
    BY <1>1, <2>1, StatusKeepsPaid
  <2> DEFINE r == [AtRest EXCEPT !.pc = "tell", !.p = p]
  <2>3. r.pc = "tell"
    BY DEF AtRest
  <2>4. MayOnlyPay(r, payment')
    <3> HIDE DEF r
    <3>1. QED BY <2>3 DEF MayOnlyPay, OnOpenPayment
  <2>5. QED BY <2>1, <2>2, <2>4, RestPays DEF Leave
<1>13. QED BY <1>5, <1>6, <1>7, <1>8, <1>9, <1>10, <1>11, <1>12

LEMMA UnderStays ==
  ASSUME [Next]_vars PROVE under' = under
<1>1. ASSUME NEW c \in Calls, Begin(c) PROVE under' = under
  BY <1>1, Zenon DEF Begin, FindPayment, RetryPayment, Deliver, ReturnPage, SkipReplay, Reconcile
<1>2. ASSUME NEW c \in Calls, GoOn(c) PROVE under' = under
  BY <1>2, Zenon DEF GoOn, CreateDocument, SwitchGateway, MarkExpired, ReadForRetry, SaveReopened,
    CreateAttempt, OpenSession, SaveSession, AnswerCustomer, FailSession, SaveFailed, JudgeNotice,
    SaveNotice, CloseNotice, Announce, AskGateway, RecordOutcome
<1>3. QED BY <1>1, <1>2, Zenon DEF Next, vars, FailNotice, Die, Decide

LEMMA NextPasses ==
  Inv /\ TurnInv /\ [Next]_vars => TurnInv' /\ (InTurn => NoneUnpaid)
<1> SUFFICES ASSUME Inv, TurnInv, [Next]_vars PROVE TurnInv' /\ (InTurn => NoneUnpaid)
  OBVIOUS
<1>1. InTurn' = InTurn
  BY UnderStays DEF InTurn
<1>2. CASE ~InTurn
  BY <1>1, <1>2 DEF TurnInv
<1>3. CASE InTurn /\ UNCHANGED << payment, call >>
  BY <1>3 DEF TurnInv, OneAtATime, MayOnlyPay, NoneUnpaid
<1>4. ASSUME InTurn, NEW c \in Calls, Begin(c) \/ GoOn(c) \/ FailNotice(c) \/ Die(c)
      PROVE  TurnInv' /\ NoneUnpaid
  BY <1>4, TurnBegins, TurnGoesOn, TurnSaves, Zenon DEF GoOn
<1>5. ASSUME NEW a \in Attempts, NEW o \in Notices, Decide(a, o)
      PROVE  UNCHANGED << payment, call >>
  BY <1>5 DEF Decide
<1>6. QED BY <1>2, <1>3, <1>4, <1>5, Zenon DEF Next, vars

(* Calls in turn, wherever they die: a late failure, a repeated notice, a  *)
(* retry or a reconciliation never makes a paid payment anything else.     *)
THEOREM CapturedStaysPaid == Spec => CapturedStays
<1>1. Init => TurnInv
  BY RestPays DEF Init, TurnInv, OneAtATime
<1>2. Inv /\ TurnInv /\ [Next]_vars => TurnInv'
  BY NextPasses
<1>3. Inv /\ TurnInv /\ [Next]_vars =>
        [\A p \in Payments : InTurn /\ payment[p].status = "paid" => payment'[p].status = "paid"]_vars
  BY NextPasses DEF NoneUnpaid
<1>4. QED BY <1>1, <1>2, <1>3, InvAlways, PTL DEF Spec, CapturedStays

-----------------------------------------------------------------------------
(* Calls in turn again: there is one payment, the count of its attempts    *)
(* bounds the numbers customers were sent with, and the call under way     *)
(* carries the count or is one ahead of it.                                *)
Charged(docs, tries) ==
  /\ \A p, q \in Payments : docs[p].status # "none" /\ docs[q].status # "none" => p = q
  /\ \A a \in Attempts :
       tries[a].of # 0 \/ tries[a].sent =>
         tries[a].of \in Payments /\ docs[tries[a].of].status # "none"
  /\ \A a \in Attempts : tries[a].sent => tries[a].number <= docs[tries[a].of].count
  /\ \A a, b \in Attempts :
       tries[a].sent /\ tries[b].sent /\ a # b => tries[a].number # tries[b].number

Charging(r, docs, tries) ==
  /\ r.pc = "create" => r.count = 0 /\ \A p \in Payments : docs[p].status = "none"
  /\ r.pc \notin {"idle", "create"} => docs[r.p].status # "none"
  /\ r.pc \in {"switch", "reopen", "attempt"} => r.count = docs[r.p].count
  /\ r.pc \in {"gateway", "session"} =>
       ~tries[r.a].sent /\ tries[r.a].number = docs[r.p].count + 1
  /\ r.pc = "answer" =>
       /\ ~tries[r.a].sent /\ tries[r.a].number = docs[r.p].count
       /\ \A b \in Attempts : tries[b].sent => tries[b].number < docs[r.p].count
  /\ r.pc = "fail" => r.count = 0 \/ r.count >= docs[r.p].count

ChargeInv ==
  InTurn => Charged(payment, attempt) /\ \A c \in Calls : Charging(call[c], payment, attempt)

LEMMA ChargePasses ==
  ASSUME Inv, NEW c \in Calls, \A d \in Calls : d # c => call[d].pc = "idle",
         NEW r, Suspend(c, r), Charged(payment', attempt'), Charging(r, payment', attempt')
  PROVE  ChargeInv'
<1>1. \A d \in Calls : call'[d] = IF d = c THEN r ELSE call[d]
  BY DEF Suspend, Inv
<1>2. ASSUME NEW d \in Calls PROVE Charging(call'[d], payment', attempt')
  <2>1. CASE d = c
    <3>1. call'[d] = r
      BY <1>1, <2>1
    <3>2. QED BY <3>1
  <2>2. CASE d # c
    <3>1. call'[d].pc = "idle"
      BY <1>1, <2>2
    <3>2. QED BY <3>1 DEF Charging
  <2>3. QED BY <2>1, <2>2
<1>3. QED BY <1>2 DEF ChargeInv

LEMMA RestCharges == \A docs, tries : Charging(AtRest, docs, tries)
  BY RestBacked DEF Charging

(* Facts about the call that steps.                                        *)
LEMMA AtTurn ==
  ASSUME Inv, ChargeInv, InTurn, NEW c \in Calls
  PROVE  /\ Charged(payment, attempt) /\ Charging(call[c], payment, attempt)
         /\ call[c] \in CallStates /\ call[c].p \in Payments /\ call[c].a \in Attempts
         /\ \A p \in Payments : payment[p] \in PaymentDocuments /\ payment[p].count \in Nat
         /\ \A a \in Attempts : attempt[a] \in AttemptDocuments /\ attempt[a].number \in Nat
<1>1. call[c] \in CallStates
  BY DEF Inv
<1>2. call[c].p \in Payments /\ call[c].a \in Attempts
  BY <1>1 DEF CallStates
<1>3. \A p \in Payments : payment[p] \in PaymentDocuments /\ payment[p].count \in Nat
  BY DEF Inv, Documents, PaymentDocuments
<1>4. \A a \in Attempts : attempt[a] \in AttemptDocuments /\ attempt[a].number \in Nat
  BY DEF Inv, Documents, AttemptDocuments
<1>5. QED BY <1>1, <1>2, <1>3, <1>4 DEF ChargeInv

(* Steps that begin a call.                                                *)
LEMMA ChargeBegins ==
  ASSUME Inv, TurnInv, ChargeInv, InTurn, NEW c \in Calls, Begin(c)
  PROVE  ChargeInv'
<1>1. payment' = payment /\ attempt' = attempt /\ under' = under /\ MayBegin(c)
  BY Zenon DEF Begin, FindPayment, RetryPayment, Deliver, ReturnPage, SkipReplay, Reconcile
<1>2. Charged(payment, attempt)
  BY DEF ChargeInv
<1>3. ASSUME NEW r, Suspend(c, r), Charging(r, payment, attempt)
      PROVE  ChargeInv'
  BY <1>1, <1>2, <1>3, OthersRest, ChargePasses
<1>4. ASSUME NEW g \in Gateways, FindPayment(c, g)
      PROVE  ChargeInv'
  <2>1. ASSUME Made = {}, Suspend(c, [AtRest EXCEPT !.pc = "create", !.via = g])
        PROVE  ChargeInv'
    <3>1. Charging([AtRest EXCEPT !.pc = "create", !.via = g], payment, attempt)
      BY <2>1 DEF Charging, AtRest, Made
    <3>2. QED BY <1>3, <2>1, <3>1
  <2>2. ASSUME NEW p \in Made, NEW label \in {"switch", "attempt", "expire", "retry"},
               Suspend(c, [AtRest EXCEPT !.pc = label, !.p = p, !.via = g,
                                         !.count = payment[p].count, !.seen = payment[p].status])
        PROVE  ChargeInv'
    <3>1. Charging([AtRest EXCEPT !.pc = label, !.p = p, !.via = g,
                                  !.count = payment[p].count, !.seen = payment[p].status],
                   payment, attempt)
      BY DEF Charging, AtRest, Made
    <3>2. QED BY <1>3, <2>2, <3>1
  <2>3. QED BY <1>4, <2>1, <2>2, Zenon DEF FindPayment
<1>5. ASSUME NEW g \in Gateways, NEW p \in Payments, RetryPayment(c, p, g)
      PROVE  ChargeInv'
  <2>1. /\ Suspend(c, [AtRest EXCEPT !.pc = "reopen", !.p = p, !.via = g,
                                     !.count = payment[p].count])
        /\ payment[p].status # "none"
    BY <1>5 DEF RetryPayment, Retryable
  <2>2. Charging([AtRest EXCEPT !.pc = "reopen", !.p = p, !.via = g, !.count = payment[p].count],
                 payment, attempt)
    BY <2>1 DEF Charging, AtRest
  <2>3. QED BY <1>3, <2>1, <2>2
<1>6. ASSUME NEW a \in Attempts, attempt[a].of # 0
      PROVE  payment[attempt[a].of].status # "none"
  BY <1>2, <1>6 DEF Charged
<1>7. ASSUME NEW a \in Attempts, NEW o \in Notices, Deliver(c, a, o)
      PROVE  ChargeInv'
  <2>1. /\ Suspend(c, [AtRest EXCEPT !.pc = "hook", !.a = a, !.p = attempt[a].of, !.says = o])
        /\ o \in said[a]
    BY <1>7 DEF Deliver
  <2>2. payment[attempt[a].of].status # "none"
    BY <1>6, <2>1 DEF Inv, Documents, UnmadeIsUnknown
  <2>3. Charging([AtRest EXCEPT !.pc = "hook", !.a = a, !.p = attempt[a].of, !.says = o],
                 payment, attempt)
    BY <2>2 DEF Charging, AtRest
  <2>4. QED BY <1>3, <2>1, <2>3
<1>8. ASSUME NEW a \in Attempts, NEW o \in Notices, ReturnPage(c, a, o)
      PROVE  ChargeInv'
  <2> DEFINE p == attempt[a].of
             s == payment[p].status
  <2>1. \/ Suspend(c, [AtRest EXCEPT !.pc = "record", !.p = p, !.seen = s, !.says = o])
        \/ Suspend(c, [AtRest EXCEPT !.pc = "tell", !.p = p])
    BY <1>8, Zenon DEF ReturnPage
  <2>2. payment[p].status # "none"
    BY <1>6, <1>8 DEF ReturnPage
  <2> HIDE DEF p, s
  <2>3. Charging([AtRest EXCEPT !.pc = "tell", !.p = p], payment, attempt)
    BY <2>2 DEF Charging, AtRest
  <2>4. Charging([AtRest EXCEPT !.pc = "record", !.p = p, !.seen = s, !.says = o], payment, attempt)
    BY <2>2 DEF Charging, AtRest
  <2>5. QED BY <1>3, <2>1, <2>3, <2>4
<1>9. ASSUME NEW a \in Attempts, SkipReplay(c, a)
      PROVE  ChargeInv'
  BY <1>1, <1>9 DEF SkipReplay, ChargeInv, InTurn
<1>10. ASSUME NEW p \in Payments, Reconcile(c, p)
       PROVE  ChargeInv'
  <2>1. /\ Suspend(c, [AtRest EXCEPT !.pc = "verify", !.p = p, !.via = payment[p].via,
                                     !.count = payment[p].count, !.seen = payment[p].status])
        /\ payment[p].status # "none"
    BY <1>10 DEF Reconcile, Reconciled, InFlight
  <2>2. Charging([AtRest EXCEPT !.pc = "verify", !.p = p, !.via = payment[p].via,
                                !.count = payment[p].count, !.seen = payment[p].status],
                 payment, attempt)
    BY <2>1 DEF Charging, AtRest
  <2>3. QED BY <1>3, <2>1, <2>2
<1>11. QED BY <1>4, <1>5, <1>7, <1>8, <1>9, <1>10 DEF Begin

(* Steps of the call under way that write neither payment nor attempt.     *)
LEMMA ChargeGoesOn ==
  ASSUME Inv, TurnInv, ChargeInv, InTurn, NEW c \in Calls,
         \/ ReadForRetry(c) \/ FailSession(c) \/ JudgeNotice(c) \/ CloseNotice(c)
         \/ Announce(c) \/ AskGateway(c) \/ FailNotice(c) \/ Die(c)
  PROVE  ChargeInv'
<1> DEFINE p == call[c].p
<1>1. payment' = payment /\ attempt' = attempt
  BY Zenon DEF ReadForRetry, FailSession, JudgeNotice, CloseNotice, Announce, AskGateway,
               FailNotice, Die
<1>2. call[c].pc # "idle"
  BY DEF ReadForRetry, FailSession, JudgeNotice, CloseNotice, Announce, AskGateway, FailNotice, Die
<1>3. /\ Charged(payment, attempt) /\ Charging(call[c], payment, attempt)
      /\ call[c] \in CallStates /\ payment[p].count \in Nat
  BY AtTurn
<1>4. ASSUME NEW r, Suspend(c, r), Charging(r, payment, attempt)
      PROVE  ChargeInv'
  BY <1>1, <1>2, <1>3, <1>4, OthersRest, ChargePasses
<1>5. ASSUME Leave(c) PROVE ChargeInv'
  BY <1>4, <1>5, RestCharges DEF Leave
<1>6. call[c].pc # "create" => payment[p].status # "none"
  BY <1>2, <1>3 DEF Charging
<1>7. CASE ReadForRetry(c)
  <2> DEFINE n == payment[p].count
  <2>1. Leave(c) \/ Suspend(c, [call[c] EXCEPT !.pc = "reopen", !.count = n, !.seen = "none"])
    BY <1>7 DEF ReadForRetry
  <2>2. payment[p].status # "none" /\ n = payment[p].count
    BY <1>6, <1>7 DEF ReadForRetry
  <2> HIDE DEF n
  <2>3. [call[c] EXCEPT !.pc = "reopen", !.count = n, !.seen = "none"] =
          [pc |-> "reopen", p |-> p, a |-> call[c].a, via |-> call[c].via, count |-> n,
           seen |-> "none", says |-> call[c].says]
    BY <1>3, CarryCount, Zenon
  <2>4. Charging([call[c] EXCEPT !.pc = "reopen", !.count = n, !.seen = "none"], payment, attempt)
    BY <2>2, <2>3 DEF Charging
  <2>5. QED BY <1>4, <1>5, <2>1, <2>4
<1>8. CASE FailSession(c)
  <2> DEFINE n == IF call[c].pc = "gateway" THEN 0 ELSE attempt[call[c].a].number
  <2>1. Suspend(c, [AtRest EXCEPT !.pc = "fail", !.p = p, !.count = n])
    BY <1>8 DEF FailSession
  <2>2. payment[p].status # "none" /\ (n = 0 \/ n >= payment[p].count)
    BY <1>3, <1>6, <1>8 DEF FailSession, Charging
  <2> HIDE DEF n
  <2>3. Charging([AtRest EXCEPT !.pc = "fail", !.p = p, !.count = n], payment, attempt)
    BY <2>2 DEF Charging, AtRest
  <2>4. QED BY <1>4, <2>1, <2>3
<1>9. CASE JudgeNotice(c)
  <2> DEFINE s == payment[p].status
  <2>1. Leave(c) \/ Suspend(c, [call[c] EXCEPT !.pc = "hookSave", !.seen = s])
    BY <1>9, Zenon DEF JudgeNotice
  <2>2. payment[p].status # "none"
    BY <1>6, <1>9 DEF JudgeNotice
  <2> HIDE DEF s
  <2>3. [call[c] EXCEPT !.pc = "hookSave", !.seen = s] =
          [pc |-> "hookSave", p |-> p, a |-> call[c].a, via |-> call[c].via,
           count |-> call[c].count, seen |-> s, says |-> call[c].says]
    BY <1>3, CarrySeen, Zenon
  <2>4. Charging([call[c] EXCEPT !.pc = "hookSave", !.seen = s], payment, attempt)
    BY <2>2, <2>3 DEF Charging
  <2>5. QED BY <1>4, <1>5, <2>1, <2>4
<1>10. CASE CloseNotice(c)
  <2>1. Leave(c) \/ Suspend(c, [call[c] EXCEPT !.pc = "hookTell"])
    BY <1>10, Zenon DEF CloseNotice, Goto
  <2>2. payment[p].status # "none"
    BY <1>6, <1>10 DEF CloseNotice
  <2>3. Charging([call[c] EXCEPT !.pc = "hookTell"], payment, attempt)
    BY <1>3, <2>2, CarryTo DEF Charging
  <2>4. QED BY <1>4, <1>5, <2>1, <2>3
<1>11. CASE AskGateway(c)
  <2>1. ASSUME NEW o, Suspend(c, [AtRest EXCEPT !.pc = "record", !.p = p, !.seen = call[c].seen,
                                                !.says = o])
        PROVE  ChargeInv'
    <3>1. payment[p].status # "none"
      BY <1>6, <1>11 DEF AskGateway
    <3>2. Charging([AtRest EXCEPT !.pc = "record", !.p = p, !.seen = call[c].seen, !.says = o],
                   payment, attempt)
      BY <3>1 DEF Charging, AtRest
    <3>3. QED BY <1>4, <2>1, <3>2
  <2>2. QED BY <1>5, <1>11, <2>1, Zenon DEF AskGateway
<1>12. CASE Announce(c) \/ FailNotice(c) \/ Die(c)
  BY <1>5, <1>12 DEF Announce, FailNotice, Die
<1>13. QED BY <1>7, <1>8, <1>9, <1>10, <1>11, <1>12

(* A write that leaves counts alone and takes no payment away.             *)
LEMMA ChargedStays ==
  ASSUME Charged(payment, attempt), attempt' = attempt, NEW p \in Payments,
         payment[p].status # "none", payment'[p].status # "none",
         payment'[p].count = payment[p].count,
         \A q \in Payments : q # p => payment'[q] = payment[q]
  PROVE  Charged(payment', attempt')
<1>1. \A q \in Payments : /\ payment'[q].count = payment[q].count
                          /\ payment'[q].status # "none" <=> payment[q].status # "none"
  OBVIOUS
<1>2. \A a \in Attempts : attempt[a].sent => attempt[a].of \in Payments
  BY DEF Charged
<1>3. QED
  <2>1. \A q, r \in Payments : payment'[q].status # "none" /\ payment'[r].status # "none" => q = r
    BY <1>1 DEF Charged
  <2>2. \A a \in Attempts :
          attempt[a].of # 0 \/ attempt[a].sent =>
            attempt[a].of \in Payments /\ payment'[attempt[a].of].status # "none"
    BY <1>1 DEF Charged
  <2>3. \A a \in Attempts : attempt[a].sent => attempt[a].number <= payment'[attempt[a].of].count
    BY <1>1, <1>2 DEF Charged
  <2>4. QED BY <2>1, <2>2, <2>3 DEF Charged

(* SaveStatus as a write of one document.                                  *)
LEMMA StatusIsWritten ==
  ASSUME Inv, NEW p \in Payments, NEW seen, NEW status, status # "none",
         payment[p].status # "none", SaveStatus(p, seen, status)
  PROVE  /\ payment'[p].status # "none" /\ payment'[p].count = payment[p].count
         /\ \A q \in Payments : q # p => payment'[q] = payment[q]
<1> DEFINE s == IF status = seen THEN payment[p].status ELSE status
           d == [payment[p] EXCEPT !.status = s]
<1>1. payment' = [payment EXCEPT ![p] = d]
  BY DEF SaveStatus
<1>2. payment[p] \in PaymentDocuments
  BY DEF Inv, Documents
<1>3. d.status = s /\ d.count = payment[p].count
  BY <1>2 DEF PaymentDocuments
<1> HIDE DEF d
<1>4. QED BY <1>1, <1>3 DEF Inv, Documents

(* Steps of the call under way that write a payment or an attempt.         *)
LEMMA ChargeSaves ==
  ASSUME Inv, TurnInv, ChargeInv, InTurn, NEW c \in Calls,
         \/ CreateDocument(c) \/ SwitchGateway(c) \/ SaveReopened(c) \/ MarkExpired(c)
         \/ SaveNotice(c) \/ RecordOutcome(c) \/ SaveSession(c) \/ SaveFailed(c)
         \/ CreateAttempt(c) \/ OpenSession(c) \/ AnswerCustomer(c)
  PROVE  ChargeInv'
<1> DEFINE p == call[c].p
           k == call[c].a
<1>1. call[c].pc # "idle"
  BY DEF CreateDocument, SwitchGateway, SaveReopened, MarkExpired, SaveNotice, RecordOutcome,
         SaveSession, SaveFailed, CreateAttempt, OpenSession, AnswerCustomer
<1>2. /\ Charged(payment, attempt) /\ Charging(call[c], payment, attempt)
      /\ call[c] \in CallStates /\ p \in Payments /\ k \in Attempts
      /\ payment[p] \in PaymentDocuments /\ payment[p].count \in Nat
      /\ \A a \in Attempts : attempt[a] \in AttemptDocuments /\ attempt[a].number \in Nat
  BY AtTurn
<1>3. call[c].pc # "create" => payment[p].status # "none"
  BY <1>1, <1>2 DEF Charging
<1>4. ASSUME NEW r, Suspend(c, r), Charged(payment', attempt'), Charging(r, payment', attempt')
      PROVE  ChargeInv'
  BY <1>1, <1>4, OthersRest, ChargePasses
<1>5. ASSUME Leave(c), Charged(payment', attempt') PROVE ChargeInv'
  BY <1>4, <1>5, RestCharges DEF Leave
<1>6. /\ \A q, d : payment' = [payment EXCEPT ![q] = d] /\ q \in Payments =>
                     payment'[q] = d /\ \A x \in Payments : x # q => payment'[x] = payment[x]
      /\ \A a, d : attempt' = [attempt EXCEPT ![a] = d] /\ a \in Attempts =>
                     attempt'[a] = d /\ \A x \in Attempts : x # a => attempt'[x] = attempt[x]
  BY DEF Inv, Documents
<1>7. \A q \in Payments : payment[p].status # "none" /\ payment[q].status # "none" => q = p
  BY <1>2 DEF Charged
<1>8. CASE CreateDocument(c)
  <2> DEFINE d == [NoPayment EXCEPT !.status = "pending", !.via = call[c].via]
  <2>1. PICK q \in Payments \ Made :
          /\ payment' = [payment EXCEPT ![q] = d]
          /\ Suspend(c, [call[c] EXCEPT !.pc = "attempt", !.p = q, !.seen = "pending"])
    BY <1>8 DEF CreateDocument
  <2>2. d.status = "pending" /\ d.count = 0
    BY DEF NoPayment
  <2> HIDE DEF d
  <2>3. attempt' = attempt /\ call[c].count = 0 /\ \A x \in Payments : payment[x].status = "none"
    BY <1>2, <1>8 DEF CreateDocument, Charging
  <2>4. payment'[q] = d /\ \A x \in Payments : x # q => payment'[x] = payment[x]
    BY <1>6, <2>1
  <2>5. \A a \in Attempts : attempt[a].of = 0 /\ ~attempt[a].sent
    BY <1>2, <2>3 DEF Charged
  <2>6. Charged(payment', attempt')
    BY <2>3, <2>4, <2>5 DEF Charged
  <2>7. [call[c] EXCEPT !.pc = "attempt", !.p = q, !.seen = "pending"] =
          [pc |-> "attempt", p |-> q, a |-> k, via |-> call[c].via, count |-> call[c].count,
           seen |-> "pending", says |-> call[c].says]
    BY <1>2, CarryPayment, Zenon
  <2>8. Charging([call[c] EXCEPT !.pc = "attempt", !.p = q, !.seen = "pending"], payment', attempt')
    BY <2>2, <2>3, <2>4, <2>7 DEF Charging
  <2>9. QED BY <1>4, <2>1, <2>6, <2>8
<1>9. CASE SwitchGateway(c)
  <2> DEFINE d == [payment[p] EXCEPT !.via = call[c].via]
  <2>1. /\ payment' = [payment EXCEPT ![p] = d] /\ Suspend(c, [call[c] EXCEPT !.pc = "attempt"])
        /\ attempt' = attempt /\ call[c].pc = "switch"
    BY <1>9 DEF SwitchGateway, Goto
  <2>2. d.status = payment[p].status /\ d.count = payment[p].count
    BY <1>2 DEF PaymentDocuments
  <2> HIDE DEF d
  <2>3. payment'[p] = d /\ \A x \in Payments : x # p => payment'[x] = payment[x]
    BY <1>2, <1>6, <2>1
  <2>4. Charged(payment', attempt')
    BY <1>2, <1>3, <2>1, <2>2, <2>3, ChargedStays
  <2>5. Charging([call[c] EXCEPT !.pc = "attempt"], payment', attempt')
    BY <1>2, <1>3, <2>1, <2>2, <2>3, CarryTo DEF Charging
  <2>6. QED BY <1>4, <2>1, <2>4, <2>5
<1>10. CASE SaveReopened(c)
  <2> DEFINE d == [payment[p] EXCEPT !.status = "pending", !.via = call[c].via]
  <2>1. /\ payment' = [payment EXCEPT ![p] = d] /\ attempt' = attempt /\ call[c].pc = "reopen"
        /\ Suspend(c, [call[c] EXCEPT !.pc = "attempt", !.seen = "pending"])
    BY <1>10 DEF SaveReopened
  <2>2. d.status = "pending" /\ d.count = payment[p].count
    <3>1. "pending" \in Statuses /\ call[c].via \in Gateways
      BY <1>2 DEF Statuses, CallStates
    <3>2. d = [status |-> "pending", via |-> call[c].via, count |-> payment[p].count]
      BY <1>2, <3>1, StatusViaWritten, Zenon
    <3> HIDE DEF d
    <3>3. QED BY <3>2
  <2> HIDE DEF d
  <2>3. payment'[p] = d /\ \A x \in Payments : x # p => payment'[x] = payment[x]
    BY <1>2, <1>6, <2>1
  <2>4. Charged(payment', attempt')
    BY <1>2, <1>3, <2>1, <2>2, <2>3, ChargedStays
  <2>5. [call[c] EXCEPT !.pc = "attempt", !.seen = "pending"] =
          [pc |-> "attempt", p |-> p, a |-> k, via |-> call[c].via,
           count |-> call[c].count, seen |-> "pending", says |-> call[c].says]
    BY <1>2, CarrySeen, Zenon
  <2>6. Charging([call[c] EXCEPT !.pc = "attempt", !.seen = "pending"], payment', attempt')
    BY <1>2, <2>1, <2>2, <2>3, <2>5 DEF Charging
  <2>7. QED BY <1>4, <2>1, <2>4, <2>6
<1>11. CASE MarkExpired(c)
  <2>1. /\ SaveStatus(p, call[c].seen, "expired") /\ Suspend(c, [call[c] EXCEPT !.pc = "retry"])
        /\ attempt' = attempt /\ payment[p].status # "none"
    BY <1>3, <1>11 DEF MarkExpired, Goto
  <2>2. /\ payment'[p].status # "none" /\ payment'[p].count = payment[p].count
        /\ \A q \in Payments : q # p => payment'[q] = payment[q]
    BY <1>2, <2>1, StatusIsWritten
  <2>3. Charged(payment', attempt')
    BY <1>2, <2>1, <2>2, ChargedStays
  <2>4. Charging([call[c] EXCEPT !.pc = "retry"], payment', attempt')
    BY <1>2, <2>2, CarryTo DEF Charging
  <2>5. QED BY <1>4, <2>1, <2>3, <2>4
<1>12. CASE SaveNotice(c) \/ RecordOutcome(c)
  <2>1. /\ SaveStatus(p, call[c].seen, StatusFor[call[c].says]) /\ attempt' = attempt
        /\ payment[p].status # "none"
        /\ \/ Suspend(c, [call[c] EXCEPT !.pc = "hookClose", !.seen = "none"])
           \/ Suspend(c, [AtRest EXCEPT !.pc = "tell", !.p = p]) \/ Leave(c)
    BY <1>3, <1>12 DEF SaveNotice, RecordOutcome
  <2>2. StatusFor[call[c].says] # "none"
    <3>1. call[c].says \in Notices
      BY <1>2 DEF CallStates
    <3>2. QED BY <3>1 DEF StatusFor, Notices
  <2>3. /\ payment'[p].status # "none" /\ payment'[p].count = payment[p].count
        /\ \A q \in Payments : q # p => payment'[q] = payment[q]
    BY <1>2, <2>1, <2>2, StatusIsWritten
  <2>4. Charged(payment', attempt')
    BY <1>2, <2>1, <2>3, ChargedStays
  <2>5. [call[c] EXCEPT !.pc = "hookClose", !.seen = "none"] =
          [pc |-> "hookClose", p |-> p, a |-> k, via |-> call[c].via, count |-> call[c].count,
           seen |-> "none", says |-> call[c].says]
    BY <1>2, CarrySeen, Zenon
  <2>6. Charging([call[c] EXCEPT !.pc = "hookClose", !.seen = "none"], payment', attempt')
    BY <2>3, <2>5 DEF Charging
  <2> DEFINE r == [AtRest EXCEPT !.pc = "tell", !.p = p]
  <2>7. r.pc = "tell" /\ r.p = p
    BY DEF AtRest
  <2> HIDE DEF r
  <2>8. Charging(r, payment', attempt')
    BY <2>3, <2>7 DEF Charging
  <2>9. QED BY <1>4, <1>5, <2>1, <2>4, <2>6, <2>8 DEF r
<1>13. CASE SaveSession(c)
  <2> DEFINE s == IF call[c].seen = "processing" THEN payment[p].status ELSE "processing"
             n == attempt[k].number
             d == [payment[p] EXCEPT !.count = n, !.status = s]
             r == [AtRest EXCEPT !.pc = "answer", !.p = p, !.a = k]
  <2>1. /\ payment' = [payment EXCEPT ![p] = d] /\ Suspend(c, r) /\ attempt' = attempt
        /\ call[c].pc = "session"
    BY <1>13 DEF SaveSession
  <2>2. s \in Statuses /\ s # "none" /\ n \in Nat
    BY <1>2, <1>3, <2>1 DEF Statuses, PaymentDocuments
  <2>3. n = payment[p].count + 1 /\ ~attempt[k].sent
    BY <1>2, <2>1 DEF Charging
  <2>4. r.pc = "answer" /\ r.p = p /\ r.a = k
    BY DEF AtRest
  <2> HIDE DEF s, n, r
  <2>5. d.status = s /\ d.count = n
    <3>1. d = [status |-> s, via |-> payment[p].via, count |-> n]
      BY <1>2, <2>2, StatusCountWritten, Zenon
    <3> HIDE DEF d
    <3>2. QED BY <3>1
  <2> HIDE DEF d
  <2>6. payment'[p] = d /\ \A x \in Payments : x # p => payment'[x] = payment[x]
    BY <1>2, <1>6, <2>1
  <2>7. \A b \in Attempts : attempt[b].sent => attempt[b].of = p /\ attempt[b].number < n
    <3> SUFFICES ASSUME NEW b \in Attempts, attempt[b].sent
                 PROVE  attempt[b].of = p /\ attempt[b].number < n
      OBVIOUS
    <3>1. attempt[b].of = p
      BY <1>2, <1>3, <1>7, <2>1 DEF Charged
    <3>2. attempt[b].number <= payment[p].count
      BY <1>2, <3>1 DEF Charged
    <3>3. QED BY <1>2, <2>3, <3>1, <3>2
  <2>8. Charged(payment', attempt')
    <3>1. \A q \in Payments : payment'[q].status # "none" => q = p
      BY <1>3, <1>7, <2>1, <2>6
    <3>2. \A a \in Attempts : attempt[a].of # 0 \/ attempt[a].sent => attempt[a].of = p
      BY <1>2, <1>3, <1>7, <2>1 DEF Charged
    <3>3. \A a \in Attempts : attempt[a].sent => attempt[a].number <= payment'[attempt[a].of].count
      <4> SUFFICES ASSUME NEW a \in Attempts, attempt[a].sent
                   PROVE  attempt[a].number <= payment'[attempt[a].of].count
        OBVIOUS
      <4>1. attempt[a].of = p /\ attempt[a].number < n /\ attempt[a].number \in Nat
        BY <1>2, <2>7
      <4>2. QED BY <2>2, <2>5, <2>6, <4>1
    <3>4. QED BY <1>2, <2>1, <2>2, <2>5, <2>6, <3>1, <3>2, <3>3 DEF Charged
  <2>9. Charging(r, payment', attempt')
    BY <2>1, <2>2, <2>3, <2>4, <2>5, <2>6, <2>7 DEF Charging, n
  <2>10. QED BY <1>4, <2>1, <2>8, <2>9
<1>14. CASE SaveFailed(c)
  <2> DEFINE n == IF call[c].count = 0 THEN payment[p].count ELSE call[c].count
             d == [payment[p] EXCEPT !.status = "failed", !.count = n]
  <2>1. /\ payment' = [payment EXCEPT ![p] = d] /\ Leave(c) /\ attempt' = attempt
        /\ call[c].pc = "fail"
    BY <1>14 DEF SaveFailed
  <2>2. n \in Nat /\ n >= payment[p].count /\ "failed" \in Statuses
    BY <1>2, <2>1 DEF Charging, CallStates, Statuses
  <2> HIDE DEF n
  <2>3. d.status = "failed" /\ d.count = n
    <3>1. d = [status |-> "failed", via |-> payment[p].via, count |-> n]
      BY <1>2, <2>2, StatusCountWritten, Zenon
    <3> HIDE DEF d
    <3>2. QED BY <3>1
  <2> HIDE DEF d
  <2>4. payment'[p] = d /\ \A x \in Payments : x # p => payment'[x] = payment[x]
    BY <1>2, <1>6, <2>1
  <2>5. \A q \in Payments : payment'[q].status # "none" => q = p
    BY <1>3, <1>7, <2>1, <2>4
  <2>6. \A a \in Attempts : attempt[a].of # 0 \/ attempt[a].sent => attempt[a].of = p
    BY <1>2, <1>3, <1>7, <2>1 DEF Charged
  <2>7. \A a \in Attempts : attempt[a].sent => attempt[a].number <= payment'[attempt[a].of].count
    <3> SUFFICES ASSUME NEW a \in Attempts, attempt[a].sent
                 PROVE  attempt[a].number <= payment'[attempt[a].of].count
      OBVIOUS
    <3>1. attempt[a].of = p
      BY <2>6
    <3>2. attempt[a].number <= payment[p].count /\ attempt[a].number \in Nat
      BY <1>2, <3>1 DEF Charged
    <3>3. QED BY <1>2, <2>2, <2>3, <2>4, <3>1, <3>2
  <2>8. Charged(payment', attempt')
    BY <1>2, <2>1, <2>3, <2>4, <2>5, <2>6, <2>7 DEF Charged
  <2>9. QED BY <1>5, <2>1, <2>8
<1>15. CASE CreateAttempt(c)
  <2>1. PICK a \in AttemptsOf(0) :
          /\ attempt' = [attempt EXCEPT ![a] = [of |-> p, number |-> call[c].count + 1,
                                                via |-> call[c].via, made |-> FALSE, sent |-> FALSE]]
          /\ Suspend(c, [AtRest EXCEPT !.pc = "gateway", !.p = p, !.a = a, !.seen = call[c].seen])
    BY <1>15 DEF CreateAttempt
  <2>2. a \in Attempts /\ payment' = payment /\ payment[p].status # "none"
        /\ call[c].count = payment[p].count
    BY <1>2, <1>3, <1>15 DEF CreateAttempt, AttemptsOf, Charging
  <2>3. /\ attempt'[a].of = p /\ attempt'[a].number = payment[p].count + 1 /\ ~attempt'[a].sent
        /\ \A x \in Attempts : x # a => attempt'[x] = attempt[x]
    <3> DEFINE d == [of |-> p, number |-> call[c].count + 1, via |-> call[c].via, made |-> FALSE,
                     sent |-> FALSE]
    <3>1. attempt' = [attempt EXCEPT ![a] = d]
      BY <2>1
    <3>2. d.of = p /\ d.number = payment[p].count + 1 /\ ~d.sent
      BY <2>2
    <3> HIDE DEF d
    <3>3. QED BY <1>6, <2>2, <3>1, <3>2
  <2>4. Charged(payment', attempt')
    <3>1. \A x \in Attempts : attempt'[x].sent => x # a /\ attempt'[x] = attempt[x]
      BY <2>3
    <3>2. QED BY <1>2, <2>2, <2>3, <3>1 DEF Charged
  <2>5. Charging([AtRest EXCEPT !.pc = "gateway", !.p = p, !.a = a, !.seen = call[c].seen],
                 payment', attempt')
    <3> DEFINE r == [AtRest EXCEPT !.pc = "gateway", !.p = p, !.a = a, !.seen = call[c].seen]
    <3>1. r.pc = "gateway" /\ r.p = p /\ r.a = a
      BY DEF AtRest
    <3> HIDE DEF r
    <3>2. Charging(r, payment', attempt')
      BY <2>2, <2>3, <3>1 DEF Charging
    <3>3. QED BY <3>2 DEF r
  <2>6. QED BY <1>4, <2>1, <2>4, <2>5
<1>16. CASE OpenSession(c)
  <2> DEFINE d == [attempt[k] EXCEPT !.made = TRUE]
  <2>1. /\ attempt' = [attempt EXCEPT ![k] = d] /\ payment' = payment
        /\ Suspend(c, [call[c] EXCEPT !.pc = "session"]) /\ call[c].pc = "gateway"
    BY <1>16 DEF OpenSession, Goto
  <2>2. d.of = attempt[k].of /\ d.number = attempt[k].number /\ d.sent = attempt[k].sent
    BY <1>2 DEF AttemptDocuments
  <2> HIDE DEF d
  <2>3. \A x \in Attempts : /\ attempt'[x].of = attempt[x].of /\ attempt'[x].sent = attempt[x].sent
                            /\ attempt'[x].number = attempt[x].number
    BY <1>2, <1>6, <2>1, <2>2
  <2>4. Charged(payment', attempt')
    BY <1>2, <2>1, <2>3 DEF Charged
  <2>5. Charging([call[c] EXCEPT !.pc = "session"], payment', attempt')
    BY <1>2, <1>3, <2>1, <2>3, CarryTo DEF Charging
  <2>6. QED BY <1>4, <2>1, <2>4, <2>5
<1>17. CASE AnswerCustomer(c)
  <2> DEFINE d == [attempt[k] EXCEPT !.sent = TRUE]
  <2>1. /\ attempt' = [attempt EXCEPT ![k] = d] /\ payment' = payment /\ Leave(c)
        /\ call[c].pc = "answer"
    BY <1>17 DEF AnswerCustomer
  <2>2. d.of = attempt[k].of /\ d.number = attempt[k].number /\ d.sent
    BY <1>2 DEF AttemptDocuments
  <2> HIDE DEF d
  <2>3. attempt'[k] = d /\ \A x \in Attempts : x # k => attempt'[x] = attempt[x]
    BY <1>2, <1>6, <2>1
  <2>4. /\ attempt[k].of = p /\ attempt[k].number = payment[p].count
        /\ \A b \in Attempts : attempt[b].sent => attempt[b].number < payment[p].count
    BY <1>2, <2>1 DEF Charging, Inv, Backed
  <2>5. Charged(payment', attempt')
    <3>1. \A a \in Attempts :
            attempt'[a].of # 0 \/ attempt'[a].sent =>
              attempt'[a].of \in Payments /\ payment[attempt'[a].of].status # "none"
      BY <1>2, <1>3, <2>1, <2>2, <2>3, <2>4 DEF Charged
    <3>2. \A a \in Attempts : attempt'[a].sent => attempt'[a].number <= payment[attempt'[a].of].count
      BY <1>2, <2>2, <2>3, <2>4 DEF Charged
    <3>3. \A a, b \in Attempts :
            attempt'[a].sent /\ attempt'[b].sent /\ a # b => attempt'[a].number # attempt'[b].number
      <4>1. \A b \in Attempts : b # k /\ attempt'[b].sent => attempt'[b].number < payment[p].count
        BY <2>3, <2>4
      <4>2. attempt'[k].number = payment[p].count
        BY <2>2, <2>3, <2>4
      <4>3. \A b \in Attempts : b # k /\ attempt'[b].sent => attempt'[b].number # attempt'[k].number
        <5> SUFFICES ASSUME NEW b \in Attempts, b # k, attempt'[b].sent
                     PROVE  attempt'[b].number # attempt'[k].number
          OBVIOUS
        <5>1. attempt'[b].number \in Nat
          BY <1>2, <2>3
        <5>2. QED BY <1>2, <4>1, <4>2, <5>1
      <4>4. QED BY <1>2, <2>3, <4>3 DEF Charged
    <3>4. QED BY <1>2, <2>1, <3>1, <3>2, <3>3 DEF Charged
  <2>6. QED BY <1>5, <2>1, <2>5
<1>18. QED
  BY <1>8, <1>9, <1>10, <1>11, <1>12, <1>13, <1>14, <1>15, <1>16, <1>17

LEMMA NextCharges ==
  Inv /\ TurnInv /\ ChargeInv /\ [Next]_vars => ChargeInv'
<1> SUFFICES ASSUME Inv, TurnInv, ChargeInv, [Next]_vars PROVE ChargeInv'
  OBVIOUS
<1>1. InTurn' = InTurn
  BY UnderStays DEF InTurn
<1>2. CASE ~InTurn
  BY <1>1, <1>2 DEF ChargeInv
<1>3. CASE InTurn /\ UNCHANGED << payment, attempt, call >>
  BY <1>3 DEF ChargeInv
<1>4. ASSUME InTurn, NEW c \in Calls, Begin(c) \/ GoOn(c) \/ FailNotice(c) \/ Die(c)
      PROVE  ChargeInv'
  BY <1>4, ChargeBegins, ChargeGoesOn, ChargeSaves, Zenon DEF GoOn
<1>5. ASSUME NEW a \in Attempts, NEW o \in Notices, Decide(a, o)
      PROVE  UNCHANGED << payment, attempt, call >>
  BY <1>5 DEF Decide
<1>6. QED BY <1>2, <1>3, <1>4, <1>5, Zenon DEF Next, vars

(* Calls in turn, wherever they die or meet an error: the checkout has one *)
(* payment, and no two attempts that customers were sent to share an order *)
(* id, because a count is saved before the redirect is answered and read   *)
(* again before the next attempt is numbered.                              *)
THEOREM OneChargeAlways == Spec => []OneChargeAtATime
<1>1. Init => TurnInv /\ ChargeInv
  <2> SUFFICES ASSUME Init PROVE TurnInv /\ ChargeInv
    OBVIOUS
  <2>1. TurnInv
    BY RestPays DEF Init, TurnInv, OneAtATime
  <2>2. /\ \A p \in Payments : payment[p].status = "none"
        /\ \A a \in Attempts : attempt[a].of = 0 /\ ~attempt[a].sent
        /\ \A c \in Calls : call[c] = AtRest
    BY DEF Init, NoPayment, NoAttempt
  <2>3. Charged(payment, attempt)
    BY <2>2 DEF Charged
  <2>4. QED BY <2>1, <2>2, <2>3, RestCharges DEF ChargeInv
<1>2. Inv /\ ChargeInv => OneChargeAtATime
  <2> SUFFICES ASSUME Inv, ChargeInv, InTurn
               PROVE  /\ Cardinality(Made) <= 1
                      /\ \A a, b \in Attempts : attempt[a].sent /\ attempt[b].sent /\ a # b =>
                           attempt[a].number # attempt[b].number
    BY DEF OneChargeAtATime
  <2>1. Charged(payment, attempt)
    BY DEF ChargeInv
  <2>2. Made = {} \/ \E p : Made = {p}
    BY <2>1 DEF Charged, Made
  <2>3. Cardinality(Made) <= 1
    <3>1. CASE Made = {}
      BY <3>1, FS_EmptySet
    <3>2. CASE \E p : Made = {p}
      <4>1. Cardinality(Made) = 1
        BY <3>2, FS_Singleton, Zenon
      <4>2. QED BY <4>1
    <3>3. QED BY <2>2, <3>1, <3>2
  <2>4. QED BY <2>1, <2>3 DEF Charged
<1>3. Inv /\ TurnInv /\ [Next]_vars => TurnInv'
  BY NextPasses
<1>4. QED BY <1>1, <1>2, <1>3, NextCharges, InvAlways, PTL DEF Spec

=============================================================================
