---------------------------- MODULE RefundProofs -----------------------------
(***************************************************************************)
(* What holds of refunds for any number of calls, notices and refunds and  *)
(* any amount, under every circumstance: the records, and the money.       *)
(***************************************************************************)
EXTENDS Refund, Sums

(* The type invariant, and that no call saves a payment as refund_pending  *)
(* on its way out.                                                         *)
Shape ==
  /\ under   \in Circumstances
  /\ refunds \in [Refunds -> [amount : 0 .. Amount, status : RefundStatuses]]
  /\ given   \subseteq Refunds
  /\ pc      \in [Actors -> Labels]
  /\ seen    \in [Actors -> PaymentStatuses]
  /\ next    \in [Actors -> PaymentStatuses \ {"refund_pending"}]
  /\ ask     \in [Actors -> 0 .. Amount]
  /\ mine    \in [Actors -> SUBSET Refunds]
  /\ ok      \in [Actors -> BOOLEAN]
  /\ payment \in PaymentStatuses

(* A call that will yet take the payment out of refund_pending.            *)
Responsible(c) ==
  \/ pc[c] \in {"gateway", "reread"}
  \/ pc[c] \in {"settle", "sum", "save"} /\ seen[c] = "refund_pending"

(* Somebody is always responsible for a payment that is pending.           *)
PendingHasKeeper ==
  Settles /\ ~under.crash /\ payment = "refund_pending" =>
    \E c \in Calls : Responsible(c)

(* A call acts on a positive answer only after the gateway has paid.       *)
AnswerIsTrue ==
  \A c \in Calls :
    /\ pc[c] \in {"reread", "settle"} /\ ok[c] => mine[c] \subseteq given
    /\ pc[c] \in {"idle", "check", "create", "mark", "gateway"} => ok[c] = FALSE

CompletedWasGiven == Having("completed") \subseteq given

Inv == Shape /\ PendingHasKeeper /\ AnswerIsTrue /\ CompletedWasGiven

-----------------------------------------------------------------------------
LEMMA InitInv == Init => Inv
  BY RefundConstants
  DEF Init, Inv, Shape, PendingHasKeeper, AnswerIsTrue, CompletedWasGiven, Having,
      Actors, Labels, PaymentStatuses, RefundStatuses

(* What a set of refunds adds up to is never negative, and grows with it.  *)
LEMMA SumOfRefunds ==
  ASSUME Shape, NEW S \in SUBSET Refunds
  PROVE  /\ IsFiniteSet(S)
         /\ Sum(S) \in Nat
         /\ \A T \in SUBSET S : Sum(T) <= Sum(S)
<1> DEFINE f == [x \in Refunds |-> refunds[x].amount]
<1>1. IsFiniteSet(S)
  BY RefundConstants, FS_Subset
<1>2. \A x \in S : f[x] \in Nat
  BY RefundConstants DEF Shape
<1> HIDE DEF f
<1>3. SumFunctionOnSet(f, S) \in Nat
  BY <1>1, <1>2, SumIsNat
<1>4. \A T \in SUBSET S : SumFunctionOnSet(f, T) <= SumFunctionOnSet(f, S)
  BY <1>1, <1>2, SumGrows
<1>5. QED BY <1>1, <1>3, <1>4 DEF Sum, f

(* What is left of the payment is never more than the payment.             *)
LEMMA RemainingWithin == ASSUME Shape PROVE 1 .. Remaining \subseteq 1 .. Amount
<1>1. Sum(Having("completed")) \in Nat
  BY SumOfRefunds DEF Having
<1>2. QED BY <1>1, RefundConstants DEF Remaining

LEMMA ShapeStep == Shape /\ [Next]_vars => Shape'
<1> SUFFICES ASSUME Shape, [Next]_vars PROVE Shape'
  OBVIOUS
<1>0. 0 \in 0 .. Amount
  BY RefundConstants
<1> USE <1>0 DEF Shape, Leave, Goto, Actors, Labels, PaymentStatuses, RefundStatuses, Having
<1>1. ASSUME NEW c \in Calls, AskRead(c) PROVE Shape'
  BY <1>1 DEF AskRead
<1>2. ASSUME NEW c \in Calls, AskCheck(c) PROVE Shape'
  <2>1. CASE Leave(c)
    BY <1>2, <2>1 DEF AskCheck
  <2>2. CASE ask' \in {[ask EXCEPT ![c] = n] : n \in 1 .. Remaining}
             /\ Goto(c, "create") /\ UNCHANGED << seen, next, mine, ok >>
    <3>1. PICK n \in 1 .. Remaining : ask' = [ask EXCEPT ![c] = n]
      BY <2>2
    <3>2. n \in 0 .. Amount
      BY <3>1, RemainingWithin, RefundConstants
    <3>3. QED BY <1>2, <2>2, <3>1, <3>2 DEF AskCheck
  <2>3. QED BY <1>2, <2>1, <2>2 DEF AskCheck
<1>3. ASSUME NEW c \in Calls, AskCreate(c) PROVE Shape'
  BY <1>3 DEF AskCreate
<1>4. ASSUME NEW c \in Calls, AskMark(c) PROVE Shape'
  <2>1. CASE Settles
    BY <1>4, <2>1 DEF AskMark
  <2>2. CASE ~Settles
    <3>1. Leave(c) /\ payment' = "refund_pending" /\ UNCHANGED << under, refunds, given >>
      BY <1>4, <2>2 DEF AskMark
    <3>2. QED BY <3>1
  <2>3. QED BY <2>1, <2>2
<1>5. ASSUME NEW c \in Calls, GatewayAnswer(c) PROVE Shape'
  BY <1>5 DEF GatewayAnswer
<1>6. ASSUME NEW c \in Calls, Reread(c) PROVE Shape'
  BY <1>6 DEF Reread
<1>7. ASSUME NEW c \in Calls, SaveRefund(c) PROVE Shape'
  <2>1. refunds' \in [Refunds -> [amount : 0 .. Amount, status : RefundStatuses]]
    <3>1. CASE ok[c]
      BY <1>7, <3>1 DEF SaveRefund
    <3>2. CASE ~ok[c]
      BY <1>7, <3>2 DEF SaveRefund
    <3>3. QED BY <3>1, <3>2
  <2>2. CASE ok[c] \/ seen[c] = "refund_pending"
    BY <1>7, <2>1, <2>2 DEF SaveRefund
  <2>3. CASE ~(ok[c] \/ seen[c] = "refund_pending")
    <3>1. Leave(c) /\ UNCHANGED << under, payment, given >>
      BY <1>7, <2>3 DEF SaveRefund
    <3>2. QED BY <2>1, <3>1
  <2>4. QED BY <2>2, <2>3
<1>8. ASSUME NEW c \in Calls, SumUp(c) PROVE Shape'
  BY <1>8 DEF SumUp, StatusAfter
<1>9. ASSUME NEW a \in Actors, SavePayment(a) PROVE Shape'
  BY <1>9 DEF SavePayment
<1>10. ASSUME NEW c \in Calls, CancelRead(c) PROVE Shape'
  BY <1>10 DEF CancelRead
<1>11. ASSUME NEW c \in Calls, CancelFind(c) PROVE Shape'
  <2>1. CASE Having("pending") = {}
    <3>1. Leave(c) /\ UNCHANGED << under, payment, refunds, given >>
      BY <1>11, <2>1 DEF CancelFind
    <3>2. QED BY <3>1
  <2>2. CASE Having("pending") # {}
    BY <1>11, <2>2 DEF CancelFind
  <2>3. QED BY <2>1, <2>2
<1>12. ASSUME NEW c \in Calls, Reject(c) PROVE Shape'
  <2>1. PICK x \in mine[c] :
          /\ refunds' = [refunds EXCEPT ![x].status = "rejected"]
          /\ IF mine[c] # {x}
             THEN /\ mine' = [mine EXCEPT ![c] = mine[c] \ {x}]
                  /\ UNCHANGED << pc, seen, next, ask, ok >>
             ELSE IF seen[c] = "refund_pending"
                  THEN /\ next' = [next EXCEPT ![c] = "paid"]
                       /\ mine' = [mine EXCEPT ![c] = {}]
                       /\ Goto(c, "save")
                       /\ UNCHANGED << seen, ask, ok >>
                  ELSE Leave(c)
    BY <1>12 DEF Reject
  <2>2. refunds' \in [Refunds -> [amount : 0 .. Amount, status : RefundStatuses]]
    BY <2>1
  <2>3. CASE mine[c] # {x}
    BY <1>12, <2>1, <2>2, <2>3 DEF Reject
  <2>4. CASE mine[c] = {x} /\ seen[c] = "refund_pending"
    BY <1>12, <2>1, <2>2, <2>4 DEF Reject
  <2>5. CASE mine[c] = {x} /\ seen[c] # "refund_pending"
    <3>1. Leave(c) /\ UNCHANGED << under, payment, given >>
      BY <1>12, <2>1, <2>5 DEF Reject
    <3>2. QED BY <2>2, <3>1
  <2>6. QED BY <2>3, <2>4, <2>5
<1>13. ASSUME NEW n \in Notices, NoticeRead(n) PROVE Shape'
  BY <1>13 DEF NoticeRead, Reported
<1>14. ASSUME NEW a \in Actors, Die(a) PROVE Shape'
  BY <1>14 DEF Die
<1>15. CASE UNCHANGED vars
  BY <1>15 DEF vars, local
<1> HIDE DEF Shape
<1>16. QED
  BY <1>1, <1>2, <1>3, <1>4, <1>5, <1>6, <1>7, <1>8, <1>9, <1>10, <1>11, <1>12,
     <1>13, <1>14, <1>15 DEF Next, Begin, GoOn

-----------------------------------------------------------------------------
(* Every action but AskMark leaves the payment alone or takes it out of    *)
(* refund_pending; the keeper goes on being one until it does.             *)
LEMMA KeeperStep == Shape /\ PendingHasKeeper /\ [Next]_vars => PendingHasKeeper'
<1> SUFFICES ASSUME Shape, PendingHasKeeper, [Next]_vars,
                    Settles, ~under'.crash, payment' = "refund_pending"
             PROVE  \E c \in Calls : Responsible(c)'
  BY DEF PendingHasKeeper
<1>0. ~under.crash
  BY DEF Next, vars, Begin, GoOn, AskRead, AskCheck, AskCreate, AskMark, GatewayAnswer,
         Reread, SaveRefund, SumUp, SavePayment, CancelRead, CancelFind, Reject,
         NoticeRead, Die
<1>1. CASE \E c \in Calls : AskMark(c)
  <2> PICK c \in Calls : AskMark(c)
    BY <1>1
  <2> pc'[c] = "gateway"
    BY DEF AskMark, Goto, Shape, Actors
  <2> QED BY DEF Responsible
<1>2. CASE ~(\E c \in Calls : AskMark(c))
  <2>1. payment = "refund_pending"
    <3>1. ASSUME NEW a \in Actors, SavePayment(a) PROVE payment = "refund_pending"
      BY <3>1 DEF SavePayment, Shape
    <3>2. QED
      BY <1>2, <3>1 DEF Next, vars, Begin, GoOn, AskRead, AskCheck, AskCreate,
         GatewayAnswer, Reread, SaveRefund, SumUp, CancelRead, CancelFind, Reject,
         NoticeRead, Die, Actors
  <2>2. PICK c \in Calls : Responsible(c)
    BY <1>0, <2>1 DEF PendingHasKeeper
  <2>3. SUFFICES Responsible(c)'
    OBVIOUS
  <2> USE <2>2 DEF Responsible, Shape, Actors, Goto, Leave
  <2>4. ASSUME NEW d \in Calls, Begin(d) PROVE Responsible(c)'
    BY <2>4 DEF Begin, AskRead, CancelRead, MayBegin
  <2>5. ASSUME NEW d \in Calls, AskCheck(d) \/ AskCreate(d) \/ CancelFind(d) \/ Reject(d)
        PROVE  Responsible(c)'
    <3>1. d # c /\ pc'[c] = pc[c] /\ seen'[c] = seen[c]
      BY <2>5 DEF AskCheck, AskCreate, CancelFind, Reject
    <3>2. QED BY <3>1
  <2>6. ASSUME NEW d \in Calls, GatewayAnswer(d) PROVE Responsible(c)'
    BY <2>6 DEF GatewayAnswer
  <2>7. ASSUME NEW d \in Calls, Reread(d) PROVE Responsible(c)'
    BY <2>1, <2>7 DEF Reread
  <2>8. ASSUME NEW d \in Calls, SaveRefund(d) PROVE Responsible(c)'
    <3>1. CASE d = c
      BY <2>8, <3>1 DEF SaveRefund
    <3>2. CASE d # c
      BY <2>8, <3>2 DEF SaveRefund
    <3>3. QED BY <3>1, <3>2
  <2>9. ASSUME NEW d \in Calls, SumUp(d) PROVE Responsible(c)'
    BY <2>9 DEF SumUp
  <2>10. ASSUME NEW d \in Actors, SavePayment(d) PROVE Responsible(c)'
    BY <2>10 DEF SavePayment
  <2>11. ASSUME NEW n \in Notices, NoticeRead(n) PROVE Responsible(c)'
    BY <2>11 DEF NoticeRead
  <2>12. ASSUME NEW d \in Actors, Die(d) PROVE Responsible(c)'
    BY <1>0, <2>12 DEF Die
  <2>13. CASE UNCHANGED vars
    BY <2>13 DEF vars, local
  <2>14. QED
    BY <1>2, <2>4, <2>5, <2>6, <2>7, <2>8, <2>9, <2>10, <2>11, <2>12, <2>13
       DEF Next, GoOn
<1>3. QED BY <1>1, <1>2

(* Nothing is taken back once it was given, and an answer says paid only   *)
(* in the step that pays.                                                  *)
LEMMA AnswerStep ==
  Shape /\ AnswerIsTrue /\ [Next]_vars => AnswerIsTrue' /\ given \subseteq given'
<1> SUFFICES ASSUME Shape, AnswerIsTrue, [Next]_vars
             PROVE  AnswerIsTrue' /\ given \subseteq given'
  OBVIOUS
<1> USE DEF Shape, AnswerIsTrue, Actors, Goto, Leave
<1>1. ASSUME NEW d \in Calls, Begin(d) PROVE AnswerIsTrue' /\ given \subseteq given'
  BY <1>1 DEF Begin, AskRead, CancelRead, MayBegin
<1>2. ASSUME NEW d \in Calls, AskCheck(d) PROVE AnswerIsTrue' /\ given \subseteq given'
  BY <1>2 DEF AskCheck
<1>3. ASSUME NEW d \in Calls, AskCreate(d) PROVE AnswerIsTrue' /\ given \subseteq given'
  BY <1>3 DEF AskCreate
<1>4. ASSUME NEW d \in Calls, AskMark(d) PROVE AnswerIsTrue' /\ given \subseteq given'
  BY <1>4 DEF AskMark
<1>5. ASSUME NEW d \in Calls, GatewayAnswer(d)
      PROVE  AnswerIsTrue' /\ given \subseteq given'
  <2>1. given \subseteq given'
    BY <1>5 DEF GatewayAnswer
  <2>2. ok'[d] => mine'[d] \subseteq given'
    BY <1>5 DEF GatewayAnswer
  <2>3. QED BY <1>5, <2>1, <2>2 DEF GatewayAnswer
<1>6. ASSUME NEW d \in Calls, Reread(d) PROVE AnswerIsTrue' /\ given \subseteq given'
  BY <1>6 DEF Reread
<1>7. ASSUME NEW d \in Calls, SaveRefund(d) PROVE AnswerIsTrue' /\ given \subseteq given'
  BY <1>7 DEF SaveRefund
<1>8. ASSUME NEW d \in Calls, SumUp(d) PROVE AnswerIsTrue' /\ given \subseteq given'
  BY <1>8 DEF SumUp
<1>9. ASSUME NEW d \in Calls, CancelFind(d) \/ Reject(d)
      PROVE  AnswerIsTrue' /\ given \subseteq given'
  BY <1>9 DEF CancelFind, Reject
<1>10. ASSUME NEW d \in Actors, SavePayment(d) \/ Die(d)
       PROVE  AnswerIsTrue' /\ given \subseteq given'
  BY <1>10 DEF SavePayment, Die
<1>11. ASSUME NEW n \in Notices, NoticeRead(n)
       PROVE  AnswerIsTrue' /\ given \subseteq given'
  BY <1>11 DEF NoticeRead
<1>12. CASE UNCHANGED vars
  BY <1>12 DEF vars, local
<1>13. QED
  BY <1>1, <1>2, <1>3, <1>4, <1>5, <1>6, <1>7, <1>8, <1>9, <1>10, <1>11, <1>12
     DEF Next, GoOn

-----------------------------------------------------------------------------
(* A refund becomes completed only in SaveRefund, on a positive answer.    *)
LEMMA CompletedStep ==
  Shape /\ AnswerIsTrue /\ CompletedWasGiven /\ [Next]_vars => CompletedWasGiven'
<1> SUFFICES ASSUME Shape, AnswerIsTrue, CompletedWasGiven, [Next]_vars
             PROVE  CompletedWasGiven'
  OBVIOUS
<1>0. given \subseteq given'
  BY AnswerStep
<1> USE DEF Shape, CompletedWasGiven, Having, Actors
<1>1. CASE UNCHANGED refunds
  BY <1>0, <1>1
<1>2. ASSUME NEW c \in Calls, AskCreate(c) PROVE CompletedWasGiven'
  BY <1>0, <1>2 DEF AskCreate
<1>3. ASSUME NEW c \in Calls, Reject(c) PROVE CompletedWasGiven'
  BY <1>0, <1>3 DEF Reject
<1>4. ASSUME NEW c \in Calls, SaveRefund(c) PROVE CompletedWasGiven'
  <2>1. CASE ok[c]
    <3>1. mine[c] \subseteq given
      BY <1>4, <2>1 DEF SaveRefund, AnswerIsTrue
    <3>2. \A x \in Refunds : refunds'[x].status = "completed" =>
            x \in mine[c] \/ refunds[x].status = "completed"
      BY <1>4, <2>1 DEF SaveRefund
    <3>3. QED BY <1>0, <3>1, <3>2
  <2>2. CASE ~ok[c]
    <3>1. \A x \in Refunds : refunds'[x].status = "completed" =>
            refunds[x].status = "completed"
      BY <1>4, <2>2 DEF SaveRefund
    <3>2. QED BY <1>0, <3>1
  <2>3. QED BY <2>1, <2>2
<1>5. QED
  BY <1>1, <1>2, <1>3, <1>4 DEF Next, vars, Begin, GoOn, AskRead, AskCheck, AskMark,
     GatewayAnswer, Reread, SumUp, SavePayment, CancelRead, CancelFind, NoticeRead, Die

LEMMA Inductive == Spec => []Inv
<1>1. Inv /\ [Next]_vars => Inv'
  BY ShapeStep, KeeperStep, AnswerStep, CompletedStep DEF Inv
<1>2. QED BY <1>1, InitInv, PTL DEF Spec

(* Every variable stays in its range: no refund is for more than was paid. *)
THEOREM TypeCorrect == Spec => []TypeOK
<1>1. Inv => TypeOK
  BY DEF Inv, Shape, TypeOK
<1>2. QED BY <1>1, Inductive, PTL

(* As long as no process dies, no payment waits for refunds that have all  *)
(* been decided, however many calls and notices overlap (completeRefund,   *)
(* cancelPendingForPayment).                                               *)
THEOREM NeverStrandedAlways == Spec => []NeverStranded
<1>1. Inv => NeverStranded
  BY DEF Inv, PendingHasKeeper, NeverStranded, AtRest, Responsible
<1>2. QED BY <1>1, Inductive, PTL

(* A completed refund was paid out, under all circumstances.               *)
THEOREM CompletedWasGivenAlways == Spec => []CompletedWasGiven
<1>1. Inv => CompletedWasGiven
  BY DEF Inv
<1>2. QED BY <1>1, Inductive, PTL

-----------------------------------------------------------------------------
(* A refund that was made stays made, for the amount it was made for.      *)
Made(x) == refunds[x].status # "none"

(* No step takes a refund back or changes its amount.                      *)
LEMMA MadeStaysMade ==
  Shape /\ [Next]_vars =>
    \A x \in Refunds : Made(x) => Made(x)' /\ refunds'[x].amount = refunds[x].amount
<1> SUFFICES ASSUME Shape, [Next]_vars, NEW x \in Refunds, Made(x)
             PROVE  Made(x)' /\ refunds'[x].amount = refunds[x].amount
  OBVIOUS
<1> USE DEF Shape, Made, Actors
<1>1. CASE UNCHANGED refunds
  BY <1>1
<1>2. ASSUME NEW c \in Calls, AskCreate(c)
      PROVE  Made(x)' /\ refunds'[x].amount = refunds[x].amount
  BY <1>2 DEF AskCreate, Having
<1>3. ASSUME NEW c \in Calls, Reject(c)
      PROVE  Made(x)' /\ refunds'[x].amount = refunds[x].amount
  BY <1>3 DEF Reject
<1>4. ASSUME NEW c \in Calls, SaveRefund(c)
      PROVE  Made(x)' /\ refunds'[x].amount = refunds[x].amount
  <2>1. \/ refunds'[x] = refunds[x]
        \/ refunds'[x] = [refunds[x] EXCEPT !.status = "completed"]
        \/ refunds'[x] = [refunds[x] EXCEPT !.status = "failed"]
    BY <1>4 DEF SaveRefund
  <2>2. QED BY <2>1
<1>5. QED
  BY <1>1, <1>2, <1>3, <1>4 DEF Next, vars, Begin, GoOn, AskRead, AskCheck, AskMark,
     GatewayAnswer, Reread, SumUp, SavePayment, CancelRead, CancelFind, NoticeRead, Die

(* What calls work on and what was paid out are refunds that were made.    *)
HandledWasMade ==
  /\ \A x \in given : Made(x)
  /\ \A a \in Actors : \A x \in mine[a] : Made(x)

(* Every step keeps that.                                                  *)
LEMMA HandledStep ==
  Shape /\ HandledWasMade /\ [Next]_vars => HandledWasMade'
<1> SUFFICES ASSUME Shape, HandledWasMade, [Next]_vars PROVE HandledWasMade'
  OBVIOUS
<1>0. \A x \in Refunds : Made(x) => Made(x)'
  BY MadeStaysMade
<1>1. ASSUME \A x \in given' : Made(x),
             \A a \in Actors : mine'[a] \subseteq mine[a]
      PROVE  HandledWasMade'
  <2>1. Shape'
    BY ShapeStep
  <2>2. \A a \in Actors : \A x \in mine'[a] : x \in Refunds /\ Made(x)
    BY <1>1, <2>1 DEF HandledWasMade, Shape
  <2>3. \A x \in given' : x \in Refunds /\ Made(x)
    BY <1>1, <2>1 DEF Shape
  <2>4. QED BY <1>0, <2>2, <2>3 DEF HandledWasMade
<1> USE DEF Shape, HandledWasMade, Actors, Goto, Leave
<1>2. ASSUME NEW c \in Calls, AskCreate(c) PROVE HandledWasMade'
  BY <1>0, <1>2 DEF AskCreate, Having, Made, RefundStatuses
<1>3. ASSUME NEW c \in Calls, GatewayAnswer(c) PROVE HandledWasMade'
  BY <1>1, <1>3 DEF GatewayAnswer
<1>4. ASSUME NEW c \in Calls, CancelFind(c) PROVE HandledWasMade'
  BY <1>0, <1>4 DEF CancelFind, Having, Made
<1>5. ASSUME NEW c \in Calls, AskRead(c) \/ CancelRead(c) \/ AskCheck(c) \/ Reread(c)
      PROVE  HandledWasMade'
  BY <1>1, <1>5 DEF AskRead, CancelRead, AskCheck, Reread
<1>6. ASSUME NEW c \in Calls, AskMark(c) \/ SumUp(c) PROVE HandledWasMade'
  BY <1>1, <1>6 DEF AskMark, SumUp
<1>7. ASSUME NEW c \in Calls, SaveRefund(c) PROVE HandledWasMade'
  <2>1. \A a \in Actors : mine'[a] \subseteq mine[a]
    BY <1>7 DEF SaveRefund
  <2>2. given' = given
    BY <1>7 DEF SaveRefund
  <2>3. QED BY <1>1, <2>1, <2>2
<1>8. ASSUME NEW c \in Calls, Reject(c) PROVE HandledWasMade'
  <2>1. \A a \in Actors : mine'[a] \subseteq mine[a]
    BY <1>8 DEF Reject
  <2>2. given' = given
    BY <1>8 DEF Reject
  <2>3. QED BY <1>1, <2>1, <2>2
<1>9. ASSUME NEW a \in Actors, SavePayment(a) \/ Die(a) PROVE HandledWasMade'
  BY <1>1, <1>9 DEF SavePayment, Die
<1>10. ASSUME NEW n \in Notices, NoticeRead(n) PROVE HandledWasMade'
  BY <1>1, <1>10 DEF NoticeRead
<1>11. CASE UNCHANGED vars
  BY <1>1, <1>11 DEF vars, local
<1>12. QED
  BY <1>2, <1>3, <1>4, <1>5, <1>6, <1>7, <1>8, <1>9, <1>10, <1>11 DEF Next, Begin, GoOn

(* Sums over one set of refunds, before and after a step that keeps the    *)
(* amounts of those refunds.                                               *)
LEMMA SumKept ==
  ASSUME Shape, NEW S \in SUBSET Refunds,
         \A x \in S : refunds'[x].amount = refunds[x].amount
  PROVE  Sum(S)' = Sum(S)
<1> DEFINE f == [x \in Refunds |-> refunds[x].amount]
           g == [x \in Refunds |-> refunds'[x].amount]
<1>1. IsFiniteSet(S)
  BY SumOfRefunds
<1>2. \A x \in S : f[x] = g[x]
  OBVIOUS
<1> HIDE DEF f, g
<1>3. SumFunctionOnSet(f, S) = SumFunctionOnSet(g, S)
  BY <1>1, <1>2, SumAgrees
<1>4. QED BY <1>3 DEF Sum, f, g

(* What the gateway has given never becomes less.                          *)
LEMMA GivenGrows ==
  Shape /\ AnswerIsTrue /\ HandledWasMade /\ [Next]_vars => Sum(given) <= Sum(given)'
<1> SUFFICES ASSUME Shape, AnswerIsTrue, HandledWasMade, [Next]_vars
             PROVE  Sum(given) <= Sum(given)'
  OBVIOUS
<1>1. Shape' /\ given \subseteq given'
  BY ShapeStep, AnswerStep
<1>2. \A x \in given : refunds'[x].amount = refunds[x].amount
  BY MadeStaysMade DEF HandledWasMade, Shape
<1>3. given \in SUBSET Refunds /\ (given \in SUBSET Refunds)'
  BY <1>1 DEF Shape
<1> DEFINE g == [x \in Refunds |-> refunds'[x].amount]
<1>4. SumFunctionOnSet(g, given) = Sum(given)
  BY <1>2, <1>3, SumKept DEF Sum
<1>5. SumFunctionOnSet(g, given) <= SumFunctionOnSet(g, given')
  <2>1. IsFiniteSet(given')
    BY <1>3, RefundConstants, FS_Subset
  <2>2. \A x \in given' : g[x] \in Nat
    BY <1>1, <1>3, RefundConstants DEF Shape
  <2> HIDE DEF g
  <2>3. QED BY <1>1, <2>1, <2>2, SumGrows
<1>6. QED BY <1>4, <1>5 DEF Sum

(* A call or a notice is about to save "refunded" only when all was given. *)
FullInv ==
  /\ payment = "refunded" => Sum(given) >= Amount
  /\ \A a \in Actors : next[a] = "refunded" => Sum(given) >= Amount

(* Every step keeps it: what is given is never taken back.                 *)
LEMMA FullStep == Inv /\ HandledWasMade /\ FullInv /\ [Next]_vars => FullInv'
<1> SUFFICES ASSUME Inv, HandledWasMade, FullInv, [Next]_vars PROVE FullInv'
  OBVIOUS
<1>0. Shape /\ AnswerIsTrue /\ CompletedWasGiven
  BY DEF Inv
<1>1. Sum(given) \in Nat /\ Sum(given)' \in Nat /\ Sum(given) <= Sum(given)'
  <2>1. Sum(given) \in Nat
    BY <1>0, SumOfRefunds DEF Shape
  <2>2. Shape' /\ (given \in SUBSET Refunds)'
    BY <1>0, ShapeStep DEF Shape
  <2>3. Sum(given)' \in Nat
    <3> DEFINE g == [x \in Refunds |-> refunds'[x].amount]
    <3>1. IsFiniteSet(given')
      BY <2>2, RefundConstants, FS_Subset
    <3>2. \A x \in given' : g[x] \in Nat
      BY <2>2, RefundConstants DEF Shape
    <3> HIDE DEF g
    <3>3. SumFunctionOnSet(g, given') \in Nat
      BY <3>1, <3>2, SumIsNat
    <3>4. QED BY <3>3 DEF Sum, g
  <2>4. QED BY <1>0, <2>1, <2>2, <2>3, GivenGrows
<1>2. Sum(given) >= Amount => Sum(given)' >= Amount
  BY <1>1, RefundConstants
<1>3. SUFFICES ASSUME ~(Sum(given) >= Amount)
               PROVE  /\ payment' # "refunded"
                      /\ \A a \in Actors : next'[a] # "refunded"
  BY <1>2 DEF FullInv
<1>4. payment # "refunded" /\ \A a \in Actors : next[a] # "refunded"
  BY <1>3 DEF FullInv
<1>5. ASSUME NEW c \in Calls, SumUp(c)
      PROVE  payment' # "refunded" /\ \A a \in Actors : next'[a] # "refunded"
  <2>1. ~(Sum(Having("completed")) >= Amount)
    <3>1. Sum(Having("completed")) <= Sum(given) /\ Sum(Having("completed")) \in Nat
      <4>1. Having("completed") \in SUBSET given /\ given \in SUBSET Refunds
        BY <1>0 DEF CompletedWasGiven, Shape
      <4>2. QED BY <1>0, <4>1, SumOfRefunds
    <3>2. QED BY <1>1, <1>3, <3>1, RefundConstants
  <2>2. StatusAfter(c) # "refunded"
    BY <2>1 DEF StatusAfter
  <2>3. QED BY <1>0, <1>4, <1>5, <2>2 DEF SumUp, Shape, Actors
<1>6. ASSUME NEW n \in Notices, NoticeRead(n)
      PROVE  payment' # "refunded" /\ \A a \in Actors : next'[a] # "refunded"
  <2>1. "refunded" \notin Reported
    BY <1>3 DEF Reported
  <2>2. QED BY <1>0, <1>4, <1>6, <2>1 DEF NoticeRead, Shape, Actors
<1>7. ASSUME NEW a \in Actors, SavePayment(a) \/ Die(a)
      PROVE  payment' # "refunded" /\ \A b \in Actors : next'[b] # "refunded"
  BY <1>0, <1>4, <1>7 DEF SavePayment, Die, Leave, Shape
<1>8. ASSUME NEW c \in Calls, AskCheck(c) \/ AskMark(c) \/ SaveRefund(c) \/ CancelFind(c)
      PROVE  payment' # "refunded" /\ \A a \in Actors : next'[a] # "refunded"
  <2>1. /\ payment' \in {payment, "refund_pending"}
        /\ \A a \in Actors : next'[a] \in {next[a], "paid"}
    BY <1>0, <1>8 DEF AskCheck, AskMark, SaveRefund, CancelFind, Leave, Shape, Actors
  <2>2. QED BY <1>4, <2>1
<1>9. ASSUME NEW c \in Calls, Reject(c)
      PROVE  payment' # "refunded" /\ \A a \in Actors : next'[a] # "refunded"
  <2>1. /\ payment' = payment
        /\ \A a \in Actors : next'[a] \in {next[a], "paid"}
    BY <1>0, <1>9 DEF Reject, Leave, Shape, Actors
  <2>2. QED BY <1>4, <2>1
<1>10. ASSUME NEW c \in Calls, \/ AskRead(c) \/ AskCreate(c) \/ GatewayAnswer(c) \/ Reread(c)
                              \/ CancelRead(c)
       PROVE  payment' # "refunded" /\ \A a \in Actors : next'[a] # "refunded"
  BY <1>4, <1>10 DEF AskRead, AskCreate, GatewayAnswer, Reread, CancelRead
<1>11. CASE UNCHANGED vars
  BY <1>4, <1>11 DEF vars, local
<1>12. QED
  BY <1>5, <1>6, <1>7, <1>8, <1>9, <1>10, <1>11 DEF Next, Begin, GoOn, Actors

(* However calls, notices and crashes interleave, a payment is on record   *)
(* as refunded only when the gateway has given the whole amount back       *)
(* (completeRefund: refunded >= payment.amount).                           *)
THEOREM RefundedAlwaysInFull == Spec => []RefundedInFull
<1>1. Init => HandledWasMade /\ FullInv
  BY DEF Init, HandledWasMade, FullInv, Actors
<1>2. Inv /\ HandledWasMade /\ FullInv /\ [Next]_vars => HandledWasMade' /\ FullInv'
  BY HandledStep, FullStep DEF Inv
<1>3. FullInv => RefundedInFull
  BY DEF FullInv, RefundedInFull
<1>4. QED BY <1>1, <1>2, <1>3, Inductive, PTL DEF Spec

-----------------------------------------------------------------------------
(* Calls one after the other, none dying, every answer arriving: the       *)
(* refunds the call under way works on are pending, and what was paid out  *)
(* and is not on record as completed is in its hands, with the answer.     *)
Calm == ~under.overlap /\ ~under.crash /\ ~under.lost

(* At most one call is under way.                                          *)
OneAtATime == \A c, d \in Calls : pc[c] # "idle" /\ pc[d] # "idle" => c = d

(* Call c has the gateway's answer that refund x was paid out.             *)
InHand(x, c) == pc[c] \in {"reread", "settle"} /\ ok[c] /\ x \in mine[c]

(* So it is then, for the refunds of the call under way.                   *)
CalmInv ==
  Calm =>
    /\ OneAtATime
    /\ \A c \in Calls : pc[c] \in {"mark", "gateway", "reread", "settle", "reject"} =>
         mine[c] \subseteq Having("pending")
    /\ \A x \in given \ Having("completed") : \E c \in Calls : InHand(x, c)

(* While a call is at a step that has no answer in hand, nobody has.       *)
LEMMA AllOnRecord ==
  ASSUME OneAtATime, NEW c \in Calls, pc[c] # "idle", pc[c] \notin {"reread", "settle"},
         \A x \in given \ Having("completed") : \E d \in Calls : InHand(x, d)
  PROVE  given \subseteq Having("completed")
BY DEF OneAtATime, InHand

(* Every step keeps it.                                                    *)
LEMMA CalmStep == Shape /\ AnswerIsTrue /\ CalmInv /\ [Next]_vars => CalmInv'
<1> SUFFICES ASSUME Shape, AnswerIsTrue, CalmInv, [Next]_vars, Calm' PROVE CalmInv'
  BY DEF CalmInv
<1>0. UNCHANGED under
  BY DEF Next, vars, Begin, GoOn, AskRead, AskCheck, AskCreate, AskMark, GatewayAnswer,
         Reread, SaveRefund, SumUp, SavePayment, CancelRead, CancelFind, Reject,
         NoticeRead, Die
<1>1. /\ OneAtATime
      /\ \A c \in Calls : pc[c] \in {"mark", "gateway", "reread", "settle", "reject"} =>
           mine[c] \subseteq Having("pending")
      /\ \A x \in given \ Having("completed") : \E c \in Calls : InHand(x, c)
  BY <1>0 DEF CalmInv, Calm
<1>2. ~under.overlap /\ ~under.crash /\ ~under.lost
  BY <1>0 DEF Calm
<1> USE RefundConstants DEF Shape, Actors, Goto, Leave
<1>3. OneAtATime'
  <2>1. ASSUME NEW c \in Calls, Begin(c) PROVE OneAtATime'
    BY <1>2, <2>1 DEF Begin, AskRead, CancelRead, MayBegin, OneAtATime
  <2>2. ASSUME NEW c \in Calls, GoOn(c) PROVE OneAtATime'
    <3>1. pc[c] # "idle" /\ \A d \in Calls \ {c} : pc'[d] = pc[d]
      BY <2>2 DEF GoOn, AskCheck, AskCreate, AskMark, GatewayAnswer, Reread, SaveRefund,
                  SumUp, SavePayment, CancelFind, Reject
    <3>2. QED BY <1>1, <3>1 DEF OneAtATime
  <2>3. ASSUME NEW n \in Notices, NoticeRead(n) \/ SavePayment(n) PROVE OneAtATime'
    BY <1>1, <2>3 DEF NoticeRead, SavePayment, OneAtATime
  <2>4. CASE UNCHANGED vars
    BY <1>1, <2>4 DEF vars, local, OneAtATime
  <2>5. QED BY <1>2, <2>1, <2>2, <2>3, <2>4 DEF Next, Die
<1> DEFINE Held == \A c \in Calls : pc[c] \in {"mark", "gateway", "reread", "settle", "reject"} =>
                     mine[c] \subseteq Having("pending")
           Kept == \A x \in given \ Having("completed") : \E c \in Calls : InHand(x, c)
<1>4. SUFFICES Held' /\ Kept'
  BY <1>3 DEF CalmInv
<1> USE DEF Having, InHand
<1>5. ASSUME NEW c \in Calls, Begin(c) PROVE Held' /\ Kept'
  BY <1>1, <1>5 DEF Begin, AskRead, CancelRead, MayBegin
<1>6. ASSUME NEW c \in Calls, AskCheck(c) \/ SumUp(c) \/ SavePayment(c) PROVE Held' /\ Kept'
  <2>1. /\ UNCHANGED << refunds, given >> /\ pc[c] \in {"check", "sum", "save"}
        /\ pc'[c] \in {"idle", "create", "save"}
        /\ \A d \in Calls \ {c} : pc'[d] = pc[d] /\ mine'[d] = mine[d] /\ ok'[d] = ok[d]
    BY <1>6 DEF AskCheck, SumUp, SavePayment
  <2>2. QED BY <1>1, <2>1
<1>7. ASSUME NEW c \in Calls, AskCreate(c) PROVE Held' /\ Kept'
  <2>1. PICK x \in Having("none") :
          /\ refunds' = [refunds EXCEPT ![x] = [amount |-> ask[c], status |-> "pending"]]
          /\ mine' = [mine EXCEPT ![c] = {x}]
    BY <1>7 DEF AskCreate
  <2>2. pc[c] = "create" /\ pc' = [pc EXCEPT ![c] = "mark"] /\ UNCHANGED << given, ok >>
    BY <1>7 DEF AskCreate
  <2>3. given \subseteq Having("completed")
    BY <1>1, <2>2, AllOnRecord
  <2>4. Kept'
    BY <2>1, <2>2, <2>3
  <2>5. \A d \in Calls : d # c => pc'[d] = "idle"
    BY <1>3, <2>2 DEF OneAtATime
  <2>6. Held'
    BY <2>1, <2>2, <2>5
  <2>7. QED BY <2>4, <2>6
<1>8. ASSUME NEW c \in Calls, AskMark(c) PROVE Held' /\ Kept'
  <2>1. /\ UNCHANGED << refunds, given >> /\ pc[c] = "mark"
        /\ \/ pc'[c] = "gateway" /\ mine'[c] = mine[c] /\ ok'[c] = ok[c]
           \/ pc'[c] = "idle"
        /\ \A d \in Calls \ {c} : pc'[d] = pc[d] /\ mine'[d] = mine[d] /\ ok'[d] = ok[d]
    <3>1. CASE Settles
      BY <1>8, <3>1 DEF AskMark
    <3>2. CASE ~Settles
      BY <1>8, <3>2 DEF AskMark
    <3>3. QED BY <3>1, <3>2
  <2>2. QED BY <1>1, <2>1
<1>9. ASSUME NEW c \in Calls, GatewayAnswer(c) PROVE Held' /\ Kept'
  <2>1. /\ pc[c] = "gateway" /\ pc' = [pc EXCEPT ![c] = "reread"] /\ UNCHANGED << refunds, mine >>
        /\ \/ ok' = [ok EXCEPT ![c] = TRUE] /\ given' = given \cup mine[c]
           \/ UNCHANGED << given, ok >>
    BY <1>2, <1>9 DEF GatewayAnswer
  <2>2. given \subseteq Having("completed")
    BY <1>1, <2>1, AllOnRecord
  <2>3. Held'
    BY <1>1, <2>1
  <2>4. Kept'
    BY <2>1, <2>2
  <2>5. QED BY <2>3, <2>4
<1>10. ASSUME NEW c \in Calls, Reread(c) PROVE Held' /\ Kept'
  BY <1>1, <1>10 DEF Reread
<1>11. ASSUME NEW c \in Calls, SaveRefund(c) PROVE Held' /\ Kept'
  <2>1. /\ pc[c] = "settle" /\ UNCHANGED given
        /\ pc'[c] \in {"sum", "idle"}
        /\ \A d \in Calls \ {c} : pc'[d] = pc[d] /\ mine'[d] = mine[d] /\ ok'[d] = ok[d]
    <3>1. CASE ok[c] \/ seen[c] = "refund_pending"
      BY <1>11, <3>1 DEF SaveRefund
    <3>2. CASE ~(ok[c] \/ seen[c] = "refund_pending")
      BY <1>11, <3>2 DEF SaveRefund
    <3>3. QED BY <3>1, <3>2
  <2>2. \A d \in Calls : d # c => pc'[d] = "idle" /\ pc[d] = "idle"
    BY <1>1, <2>1 DEF OneAtATime
  <2>3. Held'
    BY <2>1, <2>2
  <2>4. \A x \in given \ Having("completed") : ok[c] /\ x \in mine[c]
    BY <1>1, <2>2
  <2>5. mine[c] \cap Having("completed") = {}
    BY <1>1, <2>1
  <2>6. CASE ok[c]
    <3>1. \A x \in Refunds : refunds'[x].status =
             IF x \in mine[c] THEN "completed" ELSE refunds[x].status
      BY <1>11, <2>6 DEF SaveRefund
    <3>2. given \subseteq Having("completed")'
      BY <2>4, <3>1
    <3>3. QED BY <2>1, <2>3, <3>2
  <2>7. CASE ~ok[c]
    <3>1. \A x \in Refunds : x \notin mine[c] => refunds'[x].status = refunds[x].status
      BY <1>11, <2>7 DEF SaveRefund
    <3>2. given \subseteq Having("completed")'
      BY <2>4, <2>5, <2>7, <3>1
    <3>3. QED BY <2>1, <2>3, <3>2
  <2>8. QED BY <2>6, <2>7
<1>12. ASSUME NEW c \in Calls, CancelFind(c) PROVE Held' /\ Kept'
  <2>1. /\ UNCHANGED << refunds, given >> /\ pc[c] = "find"
        /\ \/ pc'[c] = "reject" /\ mine'[c] = Having("pending")
           \/ pc'[c] = "idle"
        /\ \A d \in Calls \ {c} : pc'[d] = pc[d] /\ mine'[d] = mine[d] /\ ok'[d] = ok[d]
    BY <1>12 DEF CancelFind
  <2>2. QED BY <1>1, <2>1
<1>13. ASSUME NEW c \in Calls, Reject(c) PROVE Held' /\ Kept'
  <2>1. PICK x \in mine[c] :
          /\ refunds' = [refunds EXCEPT ![x].status = "rejected"]
          /\ IF mine[c] # {x}
             THEN /\ mine' = [mine EXCEPT ![c] = mine[c] \ {x}]
                  /\ UNCHANGED << pc, seen, next, ask, ok >>
             ELSE IF seen[c] = "refund_pending"
                  THEN /\ next' = [next EXCEPT ![c] = "paid"]
                       /\ mine' = [mine EXCEPT ![c] = {}]
                       /\ Goto(c, "save")
                       /\ UNCHANGED << seen, ask, ok >>
                  ELSE Leave(c)
    BY <1>13 DEF Reject
  <2>2. pc[c] = "reject" /\ UNCHANGED given
    BY <1>13 DEF Reject
  <2>3. \/ pc'[c] = "reject" /\ mine'[c] = mine[c] \ {x}
        \/ pc'[c] \in {"save", "idle"}
    <3>1. CASE mine[c] # {x}
      BY <2>1, <2>2, <3>1
    <3>2. CASE mine[c] = {x} /\ seen[c] = "refund_pending"
      BY <2>1, <3>2
    <3>3. CASE mine[c] = {x} /\ seen[c] # "refund_pending"
      BY <2>1, <3>3
    <3>4. QED BY <3>1, <3>2, <3>3
  <2>4. \A d \in Calls : d # c => pc'[d] = "idle"
    <3>1. \A d \in Calls : d # c => pc[d] = "idle"
      BY <1>1, <2>2 DEF OneAtATime
    <3>2. \A d \in Calls : d # c => pc'[d] = pc[d]
      BY <1>13 DEF Reject
    <3>3. QED BY <3>1, <3>2
  <2>5. given \subseteq Having("completed")
    BY <1>1, <2>2, AllOnRecord
  <2>6. x \in Having("pending") /\ mine[c] \subseteq Having("pending")
    BY <1>1, <2>2
  <2>7. Held'
    BY <2>1, <2>3, <2>4, <2>6
  <2>8. Kept'
    BY <2>1, <2>2, <2>5, <2>6
  <2>9. QED BY <2>7, <2>8
<1>14. ASSUME NEW n \in Notices, NoticeRead(n) \/ SavePayment(n) PROVE Held' /\ Kept'
  <2>1. /\ UNCHANGED << refunds, given >>
        /\ \A d \in Calls : pc'[d] = pc[d] /\ mine'[d] = mine[d] /\ ok'[d] = ok[d]
    BY <1>14 DEF NoticeRead, SavePayment
  <2>2. QED BY <1>1, <2>1
<1>15. CASE UNCHANGED vars
  BY <1>1, <1>15 DEF vars, local
<1> HIDE DEF Held, Kept
<1>16. QED
  BY <1>2, <1>5, <1>6, <1>7, <1>8, <1>9, <1>10, <1>11, <1>12, <1>13, <1>14, <1>15
     DEF Next, GoOn, Die

(* A refund on record as completed was paid out; and, calls coming one     *)
(* after the other, none dying and no answer lost, every refund paid out   *)
(* is on record once the calls are over (completeRefund).                  *)
THEOREM RecordsAlwaysAgree == Spec => []RecordsAgree
<1>1. Init => CalmInv
  BY DEF Init, CalmInv, OneAtATime, Actors
<1>2. Inv /\ CalmInv => RecordsAgree
  <2> SUFFICES ASSUME Inv, CalmInv, AtRest, Calm PROVE given \subseteq Having("completed")
    BY DEF Inv, CompletedWasGiven, RecordsAgree, Calm
  <2> QED BY DEF CalmInv, AtRest, InHand
<1>3. Inv /\ CalmInv /\ [Next]_vars => CalmInv'
  BY CalmStep DEF Inv
<1>4. QED BY <1>1, <1>2, <1>3, Inductive, PTL DEF Spec

-----------------------------------------------------------------------------
(* Calls in turn: what is completed, together with what the call under way *)
(* has made and not yet settled, is within the amount, since what it asks  *)
(* for is within what remains and nothing else is completed meanwhile.     *)
Asked == {"mark", "gateway", "reread", "settle"}

(* So the completed refunds stay within the amount.                        *)
BoundInv ==
  Calm =>
    /\ Sum(Having("completed")) <= Amount
    /\ \A c \in Calls : pc[c] = "create" => ask[c] <= Remaining
    /\ \A c \in Calls : pc[c] \in Asked =>
         Sum(Having("completed") \cup mine[c]) <= Amount

(* Every step keeps it, a call being alone from reading to settling.       *)
LEMMA BoundStep ==
  Inv /\ HandledWasMade /\ CalmInv /\ BoundInv /\ [Next]_vars => BoundInv'
<1> SUFFICES ASSUME Inv, HandledWasMade, CalmInv, BoundInv, [Next]_vars, Calm'
             PROVE  BoundInv'
  BY DEF BoundInv
<1> DEFINE C == Having("completed")
<1>0. Shape /\ AnswerIsTrue /\ Shape' /\ CalmInv' /\ C \in SUBSET Refunds
  BY ShapeStep, CalmStep DEF Inv, Having
<1>1. UNCHANGED under
  BY DEF Next, vars, Begin, GoOn, AskRead, AskCheck, AskCreate, AskMark, GatewayAnswer,
         Reread, SaveRefund, SumUp, SavePayment, CancelRead, CancelFind, Reject,
         NoticeRead, Die
<1>2. ~under.crash
  BY <1>1 DEF Calm
<1>3. /\ Sum(C) <= Amount
      /\ \A c \in Calls : pc[c] = "create" => ask[c] <= Remaining
      /\ \A c \in Calls : pc[c] \in Asked => Sum(C \cup mine[c]) <= Amount
  BY <1>1 DEF BoundInv, Calm
<1>4. /\ OneAtATime'
      /\ \A c \in Calls : pc[c] \in {"mark", "gateway", "reread", "settle", "reject"} =>
           mine[c] \subseteq Having("pending")
  BY <1>0, <1>1 DEF CalmInv, Calm
<1>6. CASE UNCHANGED refunds
  <2>1. C' = C /\ Remaining' = Remaining /\ \A S : Sum(S)' = Sum(S)
    BY <1>6 DEF Having, Remaining, Sum
  <2>2. ASSUME NEW c \in Calls, pc'[c] = "create" PROVE ask'[c] <= Remaining
    <3>1. CASE AskCheck(c)
      <4>1. PICK n \in 1 .. Remaining : ask' = [ask EXCEPT ![c] = n]
        BY <1>0, <2>2, <3>1 DEF AskCheck, Leave, Goto, Shape, Actors
      <4>2. QED BY <1>0, <4>1 DEF Shape, Actors
    <3>2. CASE ~AskCheck(c)
      <4>1. pc[c] = "create" /\ ask'[c] = ask[c]
        BY <1>0, <1>2, <1>6, <2>2, <3>2
           DEF Next, vars, local, Begin, GoOn, AskRead, AskCheck, AskCreate, AskMark,
               GatewayAnswer, Reread, SaveRefund, SumUp, SavePayment, CancelRead,
               CancelFind, Reject, NoticeRead, Die, Leave, Goto, Shape, Actors
      <4>2. QED BY <1>3, <4>1
    <3>3. QED BY <3>1, <3>2
  <2>3. ASSUME NEW c \in Calls, pc'[c] \in Asked
        PROVE  pc[c] \in Asked /\ mine'[c] = mine[c]
    <3> USE <1>0, <2>3 DEF Leave, Goto, Asked, Shape, Actors
    <3>2. ASSUME NEW d \in Calls, Begin(d) \/ AskCheck(d) \/ CancelFind(d) \/ Reject(d)
          PROVE  pc[c] \in Asked /\ mine'[c] = mine[c]
      BY <3>2 DEF Begin, AskRead, CancelRead, AskCheck, CancelFind, Reject
    <3>3. ASSUME NEW d \in Calls, AskMark(d) \/ GatewayAnswer(d) \/ Reread(d) \/ SumUp(d)
          PROVE  pc[c] \in Asked /\ mine'[c] = mine[c]
      BY <3>3 DEF AskMark, GatewayAnswer, Reread, SumUp
    <3>4. ASSUME NEW d \in Calls, SaveRefund(d)
          PROVE  pc[c] \in Asked /\ mine'[c] = mine[c]
      BY <3>4 DEF SaveRefund
    <3>5. ASSUME NEW a \in Actors, SavePayment(a)
          PROVE  pc[c] \in Asked /\ mine'[c] = mine[c]
      BY <3>5 DEF SavePayment
    <3>6. ASSUME NEW n \in Notices, NoticeRead(n)
          PROVE  pc[c] \in Asked /\ mine'[c] = mine[c]
      BY <3>6 DEF NoticeRead
    <3>7. CASE UNCHANGED vars
      BY <3>7 DEF vars, local
    <3>8. ASSUME NEW d \in Calls, AskCreate(d)
          PROVE  pc[c] \in Asked /\ mine'[c] = mine[c]
      BY <1>6, <3>8 DEF AskCreate, Having
    <3>9. QED
      BY <1>2, <3>2, <3>3, <3>4, <3>5, <3>6, <3>7, <3>8 DEF Next, GoOn, Die
  <2>4. QED BY <1>3, <2>1, <2>2, <2>3 DEF BoundInv
<1>7. ASSUME NEW c \in Calls, AskCreate(c) PROVE BoundInv'
  <2>1. PICK x \in Having("none") :
          /\ refunds' = [refunds EXCEPT ![x] = [amount |-> ask[c], status |-> "pending"]]
          /\ mine' = [mine EXCEPT ![c] = {x}]
    BY <1>7 DEF AskCreate
  <2>2. pc[c] = "create" /\ pc' = [pc EXCEPT ![c] = "mark"]
    BY <1>7 DEF AskCreate, Goto
  <2>3. pc'[c] = "mark" /\ mine'[c] = {x} /\ \A d \in Calls : d # c => pc'[d] = "idle"
    BY <1>0, <1>4, <2>1, <2>2 DEF OneAtATime, Shape, Actors
  <2>4. x \in Refunds /\ x \notin C /\ C' = C
    BY <1>0, <2>1 DEF Having, Shape
  <2>5. refunds'[x].amount = ask[c] /\ \A y \in C : refunds'[y].amount = refunds[y].amount
    BY <1>0, <2>1, <2>4 DEF Shape
  <2>6. Sum(C)' = Sum(C)
    <3> HIDE DEF C
    <3>1. QED BY <1>0, <2>4, <2>5, SumKept
  <2>7. Sum(C \cup {x})' = ask[c] + Sum(C)
    <3> DEFINE g == [y \in Refunds |-> refunds'[y].amount]
    <3>1. IsFiniteSet(C)
      BY <1>0, SumOfRefunds
    <3>2. \A y \in C \cup {x} : g[y] \in Int
      BY <1>0, <2>4, RefundConstants DEF Shape
    <3> HIDE DEF g, C
    <3>3. SumFunctionOnSet(g, C \cup {x}) = g[x] + SumFunctionOnSet(g, C)
      BY <2>4, <3>1, <3>2, SumAdds
    <3>4. g[x] = ask[c]
      BY <2>4, <2>5 DEF g
    <3>5. QED BY <2>4, <2>6, <3>3, <3>4 DEF Sum, g
  <2>8. ask[c] + Sum(C) <= Amount
    <3>1. ask[c] \in Nat /\ Sum(C) \in Nat
      BY <1>0, SumOfRefunds, RefundConstants DEF Shape, Actors
    <3>2. ask[c] <= Amount - Sum(C)
      BY <1>3, <2>2 DEF Remaining
    <3>3. QED BY <3>1, <3>2, RefundConstants
  <2>9. QED
    BY <1>3, <2>3, <2>4, <2>6, <2>7, <2>8 DEF BoundInv, Asked
<1>8. ASSUME NEW c \in Calls, SaveRefund(c) \/ Reject(c) PROVE BoundInv'
  <2>1. /\ pc[c] \in {"settle", "reject"}
        /\ pc'[c] \notin Asked \cup {"create"}
        /\ \A d \in Calls : d # c => pc'[d] = pc[d]
    BY <1>0, <1>8 DEF SaveRefund, Reject, Leave, Goto, Asked, Shape, Actors
  <2>2. \A d \in Calls : pc'[d] \notin Asked \cup {"create"}
    <3>1. OneAtATime
      BY <1>1 DEF CalmInv, Calm
    <3>2. QED BY <2>1, <3>1 DEF OneAtATime, Asked
  <2>3. \A x \in Refunds : Made(x) => refunds'[x].amount = refunds[x].amount
    BY <1>0, MadeStaysMade
  <2>0. /\ C = {x \in Refunds : refunds[x].status = "completed"}
        /\ C' = {x \in Refunds : refunds'[x].status = "completed"}
    BY DEF Having
  <2>4. \/ C' = C
        \/ C' = C \cup mine[c] /\ pc[c] = "settle"
    <3>1. mine[c] \subseteq Having("pending")
      BY <1>4, <2>1
    <3>2. CASE Reject(c)
      <4>1. PICK x \in mine[c] : refunds' = [refunds EXCEPT ![x].status = "rejected"]
        BY <3>2 DEF Reject
      <4>2. \A y \in Refunds : refunds'[y].status =
              IF y = x THEN "rejected" ELSE refunds[y].status
        BY <1>0, <4>1 DEF Shape
      <4>3. x \in Refunds /\ refunds[x].status = "pending"
        BY <3>1, <4>1 DEF Having
      <4>4. QED BY <2>0, <4>2, <4>3
    <3>3. CASE SaveRefund(c) /\ ok[c]
      <4>1. \A x \in Refunds : refunds'[x].status =
              IF x \in mine[c] THEN "completed" ELSE refunds[x].status
        BY <1>0, <3>3 DEF SaveRefund, Shape
      <4>2. pc[c] = "settle"
        BY <3>3 DEF SaveRefund
      <4>3. mine[c] \subseteq Refunds
        BY <3>1 DEF Having
      <4>4. QED BY <4>1, <4>2, <4>3 DEF Having
    <3>4. CASE SaveRefund(c) /\ ~ok[c]
      <4>1. \A x \in Refunds : refunds'[x].status =
              IF x \in mine[c] THEN "failed" ELSE refunds[x].status
        BY <1>0, <3>4 DEF SaveRefund, Shape
      <4>2. \A x \in mine[c] : refunds[x].status = "pending"
        BY <3>1 DEF Having
      <4>3. \A x \in Refunds :
              refunds'[x].status = "completed" <=> refunds[x].status = "completed"
        BY <4>1, <4>2
      <4>4. QED BY <2>0, <4>3
    <3>5. QED BY <1>8, <3>2, <3>3, <3>4
  <2>5. /\ C' \in SUBSET Refunds
        /\ \A x \in C' : Made(x)
        /\ Sum(C') <= Amount
    <3>1. CASE C' = C
      BY <1>0, <1>3, <3>1 DEF Having, Made
    <3>2. CASE C' = C \cup mine[c] /\ pc[c] = "settle"
      <4>1. mine[c] \subseteq Having("pending")
        BY <1>4, <3>2
      <4>2. QED BY <1>0, <1>3, <3>2, <4>1 DEF Having, Made, Asked
    <3>3. QED BY <2>4, <3>1, <3>2
  <2>6. Sum(C)' <= Amount
    <3> DEFINE D == C'
               f == [x \in Refunds |-> refunds[x].amount]
               g == [x \in Refunds |-> refunds'[x].amount]
    <3>1. IsFiniteSet(D)
      BY <2>5, RefundConstants, FS_Subset
    <3>2. \A x \in D : f[x] = g[x]
      BY <2>3, <2>5
    <3>3. SumFunctionOnSet(f, D) <= Amount
      BY <2>5 DEF Sum
    <3>4. Sum(C)' = SumFunctionOnSet(g, D)
      BY DEF Sum
    <3> HIDE DEF D, f, g
    <3>5. QED BY <3>1, <3>2, <3>3, <3>4, SumAgrees
  <2>7. QED BY <2>2, <2>6 DEF BoundInv
<1>9. QED
  BY <1>2, <1>6, <1>7, <1>8 DEF Next, vars, Begin, GoOn, AskRead, AskCheck, AskMark,
     GatewayAnswer, Reread, SumUp, SavePayment, CancelRead, CancelFind, NoticeRead, Die

(* With calls one after the other, none dying and no answer lost, no more  *)
(* is ever given back than was paid, whatever notices come in between      *)
(* (request: the amount asked for is between 0 and what remains).          *)
THEOREM GivenAlwaysWithinAmount == Spec => []GivenWithinAmountInTurn
<1>1. Init => HandledWasMade /\ CalmInv /\ BoundInv
  <2> SUFFICES ASSUME Init PROVE HandledWasMade /\ CalmInv /\ BoundInv
    OBVIOUS
  <2>1. Having("completed") = {} /\ \A c \in Calls : pc[c] = "idle"
    BY DEF Init, Having, Actors
  <2>2. Sum({}) = 0
    BY SumOfNone DEF Sum
  <2>3. BoundInv
    BY <2>1, <2>2, RefundConstants DEF BoundInv, Asked
  <2>4. QED BY <2>1, <2>3 DEF Init, HandledWasMade, CalmInv, OneAtATime, Actors
<1>2. /\ Inv /\ HandledWasMade /\ [Next]_vars => HandledWasMade'
      /\ Inv /\ CalmInv /\ [Next]_vars => CalmInv'
      /\ Inv /\ HandledWasMade /\ CalmInv /\ BoundInv /\ [Next]_vars => BoundInv'
  BY HandledStep, CalmStep, BoundStep DEF Inv
<1>3. Inv /\ CalmInv /\ BoundInv => GivenWithinAmountInTurn
  <2> SUFFICES ASSUME Inv, CalmInv, BoundInv, Calm PROVE Sum(given) <= Amount
    BY DEF GivenWithinAmountInTurn, GivenWithinAmount, Calm
  <2> DEFINE C == Having("completed")
  <2>1. Shape /\ C \in SUBSET Refunds /\ given \in SUBSET Refunds
    BY DEF Inv, Shape, Having
  <2>2. PICK S \in SUBSET Refunds : given \in SUBSET S /\ Sum(S) <= Amount
    <3>1. CASE given \subseteq C
      BY <2>1, <3>1 DEF BoundInv
    <3>2. CASE ~(given \subseteq C)
      <4>1. PICK x \in given \ C : TRUE
        BY <3>2
      <4>2. PICK c \in Calls : InHand(x, c)
        BY <4>1 DEF CalmInv
      <4>3. given \subseteq C \cup mine[c]
        BY <4>2 DEF CalmInv, OneAtATime, InHand
      <4>4. Sum(C \cup mine[c]) <= Amount
        BY <4>2 DEF BoundInv, InHand, Asked
      <4>5. QED BY <2>1, <4>3, <4>4 DEF Shape, Actors
    <3>3. QED BY <3>1, <3>2
  <2>3. Sum(given) <= Sum(S) /\ Sum(S) \in Nat /\ Sum(given) \in Nat
    BY <2>1, <2>2, SumOfRefunds
  <2>4. QED BY <2>2, <2>3, RefundConstants
<1>4. QED BY <1>1, <1>2, <1>3, Inductive, PTL DEF Spec

=============================================================================
