------------------------------- MODULE Refund --------------------------------
(***************************************************************************)
(* RefundService on one captured payment: refund requests, their           *)
(* settlement through the gateway, and the cancellation of pending refunds *)
(* when a returned order is completed after all.  Every database call and  *)
(* the gateway call is a step; pc, seen, next, mine, ask and ok are the   *)
(* local state of a call.  Gateway notices about the payment are written   *)
(* by handleWebhook, which reads the payment and saves a status later.     *)
(*                                                                         *)
(* A behaviour takes place under one of the given circumstances: whether   *)
(* refund calls may overlap, whether they may die, and whether the answer  *)
(* of a gateway that has paid may be lost.  The code excludes none.        *)
(***************************************************************************)
EXTENDS Integers, FiniteSets, Functions

CONSTANTS
  Calls,         (* refund calls that may be under way at once             *)
  Notices,       (* webhooks that may be handled at once                   *)
  Refunds,       (* bound on the refund documents ever made                *)
  Amount,        (* the captured amount                                    *)
  Settles,       (* TRUE: the gateway has a refund call (PayHere)          *)
  Circumstances  (* the circumstances behaviours take place under          *)

ASSUME RefundConstants ==
  /\ Amount \in Nat \ {0}
  /\ Settles \in BOOLEAN
  /\ Calls \cap Notices = {}
  /\ IsFiniteSet(Refunds)
  /\ Circumstances \subseteq [overlap : BOOLEAN, crash : BOOLEAN, lost : BOOLEAN]

VARIABLES
  under,         (* the circumstances of this behaviour                    *)
  payment,       (* status of the payment document                         *)
  refunds,       (* refund id -> its document                              *)
  given,         (* refunds the gateway has paid out                       *)
  pc,            (* actor -> where it is suspended                         *)
  seen,          (* actor -> the payment status it read                    *)
  next,          (* actor -> the payment status it is about to save        *)
  ask,           (* actor -> the amount it asks for                        *)
  mine,          (* actor -> the refunds it works on                       *)
  ok             (* actor -> did the gateway answer that it paid           *)

local == << pc, seen, next, ask, mine, ok >>
vars == << under, payment, refunds, given, local >>

Actors == Calls \cup Notices

PaymentStatuses == {"paid", "failed", "refund_pending", "partially_refunded", "refunded"}
RefundStatuses == {"none", "pending", "completed", "failed", "rejected"}
Labels == {"idle", "check", "create", "mark", "gateway", "reread", "settle",
           "sum", "save", "find", "reject", "restore"}

Sum(set) == SumFunctionOnSet([x \in Refunds |-> refunds[x].amount], set)
Having(status) == {x \in Refunds : refunds[x].status = status}

Goto(a, label) == pc' = [pc EXCEPT ![a] = label]

(* The call ends: its local state is gone.                                 *)
Leave(a) ==
  /\ Goto(a, "idle")
  /\ seen'  = [seen EXCEPT ![a] = "paid"]
  /\ next'  = [next EXCEPT ![a] = "paid"]
  /\ ask'   = [ask EXCEPT ![a] = 0]
  /\ mine'  = [mine EXCEPT ![a] = {}]
  /\ ok'    = [ok EXCEPT ![a] = FALSE]

Init ==
  /\ under   \in Circumstances
  /\ payment = "paid"
  /\ refunds = [x \in Refunds |-> [amount |-> 0, status |-> "none"]]
  /\ given   = {}
  /\ pc      = [a \in Actors |-> "idle"]
  /\ seen    = [a \in Actors |-> "paid"]
  /\ next    = [a \in Actors |-> "paid"]
  /\ ask     = [a \in Actors |-> 0]
  /\ mine    = [a \in Actors |-> {}]
  /\ ok      = [a \in Actors |-> FALSE]

MayBegin(c) ==
  /\ pc[c] = "idle"
  /\ under.overlap \/ \A d \in Calls : pc[d] = "idle"

-----------------------------------------------------------------------------
(* request: read the payment, check the amount, create, mark, pay out.     *)
AskRead(c) ==
  /\ MayBegin(c)
  /\ payment \in {"paid", "partially_refunded"}
  /\ Goto(c, "check")
  /\ UNCHANGED << under, payment, refunds, given, seen, next, ask, mine, ok >>

(* Only completed refunds count against what is left.                      *)
RemainingWhole == Amount       \* faulty: earlier refunds are forgotten
Remaining == Amount - Sum(Having("completed"))

AskCheck(c) ==
  /\ pc[c] = "check"
  /\ \/ /\ Remaining <= 0
        /\ Leave(c)
     \/ /\ ask' \in {[ask EXCEPT ![c] = n] : n \in 1 .. Remaining}
        /\ Goto(c, "create")
        /\ UNCHANGED << seen, next, mine, ok >>
  /\ UNCHANGED << under, payment, refunds, given >>

AskCreate(c) ==
  /\ pc[c] = "create"
  /\ \E x \in Having("none") :
       /\ refunds' = [refunds EXCEPT ![x] = [amount |-> ask[c], status |-> "pending"]]
       /\ mine' = [mine EXCEPT ![c] = {x}]
  /\ ask' = [ask EXCEPT ![c] = 0]
  /\ Goto(c, "mark")
  /\ UNCHANGED << under, payment, given, seen, next, ok >>

(* Without a refund call at the gateway the refund stays pending.          *)
AskMark(c) ==
  /\ pc[c] = "mark"
  /\ payment' = "refund_pending"
  /\ IF Settles
     THEN Goto(c, "gateway") /\ UNCHANGED << seen, next, ask, mine, ok >>
     ELSE Leave(c)
  /\ UNCHANGED << under, refunds, given >>

(* The gateway pays; or it refuses, or has no id to pay to; or it pays and *)
(* the answer is lost.                                                     *)
GatewayAnswer(c) ==
  /\ pc[c] = "gateway"
  /\ \/ /\ ok' = [ok EXCEPT ![c] = TRUE]
        /\ given' = given \cup mine[c]
     \/ /\ given' \in {given} \cup (IF under.lost THEN {given \cup mine[c]} ELSE {})
        /\ UNCHANGED ok
  /\ Goto(c, "reread")
  /\ UNCHANGED << under, payment, refunds, seen, next, ask, mine >>

-----------------------------------------------------------------------------
(* completeRefund: read, save the refund, sum up, save the payment.        *)
Reread(c) ==
  /\ pc[c] = "reread"
  /\ seen' = [seen EXCEPT ![c] = payment]
  /\ Goto(c, "settle")
  /\ UNCHANGED << under, payment, refunds, given, next, ask, mine, ok >>

SettleAlways(c) ==             \* faulty: completed whatever the gateway said
  /\ pc[c] = "settle"
  /\ refunds' = [x \in Refunds |->
       IF x \in mine[c] THEN [refunds[x] EXCEPT !.status = "completed"] ELSE refunds[x]]
  /\ Goto(c, "sum")
  /\ UNCHANGED << under, payment, given, seen, next, ask, mine, ok >>

SettleOnSuccess(c) ==          \* faulty: a refusal leaves the refund pending
  /\ pc[c] = "settle"
  /\ IF ok[c]
     THEN /\ refunds' = [x \in Refunds |->
               IF x \in mine[c] THEN [refunds[x] EXCEPT !.status = "completed"]
                                ELSE refunds[x]]
          /\ Goto(c, "sum")
          /\ UNCHANGED << seen, next, ask, mine, ok >>
     ELSE UNCHANGED refunds /\ Leave(c)
  /\ UNCHANGED << under, payment, given >>

SaveRefund(c) ==
  /\ pc[c] = "settle"
  /\ LET outcome == IF ok[c] THEN "completed" ELSE "failed" IN
       refunds' = [x \in Refunds |->
         IF x \in mine[c] THEN [refunds[x] EXCEPT !.status = outcome] ELSE refunds[x]]
  /\ IF ok[c] \/ seen[c] = "refund_pending"
     THEN Goto(c, "sum") /\ UNCHANGED << seen, next, ask, mine, ok >>
     ELSE Leave(c)
  /\ UNCHANGED << under, payment, given >>

StatusAfterAny(c) ==           \* faulty: any refund is taken for a full one
  IF Sum(Having("completed")) > 0 THEN "refunded" ELSE "paid"
StatusAfter(c) ==
  LET completed == Sum(Having("completed")) IN
    IF ok[c]
    THEN IF completed >= Amount THEN "refunded" ELSE "partially_refunded"
    ELSE IF completed > 0 THEN "partially_refunded" ELSE "paid"

SumUp(c) ==
  /\ pc[c] = "sum"
  /\ next' = [next EXCEPT ![c] = StatusAfter(c)]
  /\ mine' = [mine EXCEPT ![c] = {}]
  /\ ok' = [ok EXCEPT ![c] = FALSE]
  /\ Goto(c, "save")
  /\ UNCHANGED << under, payment, refunds, given, seen, ask >>

(* Mongoose writes a field only when it differs from what was loaded.      *)
SavePayment(a) ==
  /\ pc[a] = "save"
  /\ payment' = IF next[a] = seen[a] THEN payment ELSE next[a]
  /\ Leave(a)
  /\ UNCHANGED << under, refunds, given >>

-----------------------------------------------------------------------------
(* cancelPendingForPayment: pending refunds are rejected one by one, and a *)
(* payment that was waiting for them becomes paid, whatever was refunded.  *)
CancelRead(c) ==
  /\ MayBegin(c)
  /\ seen' = [seen EXCEPT ![c] = payment]
  /\ Goto(c, "find")
  /\ UNCHANGED << under, payment, refunds, given, next, ask, mine, ok >>

CancelFind(c) ==
  /\ pc[c] = "find"
  /\ IF Having("pending") = {}
     THEN Leave(c)
     ELSE /\ mine' = [mine EXCEPT ![c] = Having("pending")]
          /\ Goto(c, "reject")
          /\ UNCHANGED << seen, next, ask, ok >>
  /\ UNCHANGED << under, payment, refunds, given >>

Reject(c) ==
  /\ pc[c] = "reject"
  /\ \E x \in mine[c] :
       /\ refunds' = [refunds EXCEPT ![x].status = "rejected"]
       /\ IF mine[c] # {x}
          THEN /\ mine' = [mine EXCEPT ![c] = mine[c] \ {x}]
               /\ UNCHANGED << pc, seen, next, ask, ok >>
          ELSE IF seen[c] = "refund_pending"
               THEN /\ next' = [next EXCEPT ![c] = "paid"]
                    /\ mine' = [mine EXCEPT ![c] = {}]
                    /\ Goto(c, "save")
                    /\ UNCHANGED << seen, ask, ok >>
               ELSE Leave(c)
  /\ UNCHANGED << under, payment, given >>

-----------------------------------------------------------------------------
(* handleWebhook on a payment that was captured: a repeated success, a     *)
(* late failure of an earlier attempt, the gateway's own word that all was *)
(* given back.  A failure is ignored after paid, but only after paid.      *)
Reported ==
  {status \in {"paid", "failed", "refunded"} :
     /\ payment = "paid" => status # "failed"
     /\ status = "refunded" => Sum(given) >= Amount}

NoticeRead(n) ==
  /\ pc[n] = "idle"
  /\ next' \in {[next EXCEPT ![n] = status] : status \in Reported}
  /\ seen' = [seen EXCEPT ![n] = payment]
  /\ Goto(n, "save")
  /\ UNCHANGED << under, payment, refunds, given, ask, mine, ok >>

-----------------------------------------------------------------------------
(* The process of a call dies.                                             *)
Die(a) ==
  /\ under.crash
  /\ pc[a] # "idle"
  /\ Leave(a)
  /\ UNCHANGED << under, payment, refunds, given >>

Begin(c) == AskRead(c) \/ CancelRead(c)

GoOn(c) ==
  \/ AskCheck(c) \/ AskCreate(c) \/ AskMark(c) \/ GatewayAnswer(c)
  \/ Reread(c) \/ SaveRefund(c) \/ SumUp(c) \/ SavePayment(c)
  \/ CancelFind(c) \/ Reject(c)

Next ==
  \/ \E c \in Calls : Begin(c) \/ GoOn(c)
  \/ \E n \in Notices : NoticeRead(n) \/ SavePayment(n)
  \/ \E a \in Actors : Die(a)

Spec == Init /\ [][Next]_vars

(* A call that has begun is carried on: every await is answered, the       *)
(* gateway's by its HTTP timeout.                                          *)
Fairness == \A c \in Calls : WF_vars(GoOn(c))

FairSpec == Spec /\ Fairness

-----------------------------------------------------------------------------
TypeOK ==
  /\ under   \in Circumstances
  /\ payment \in PaymentStatuses
  /\ refunds \in [Refunds -> [amount : 0 .. Amount, status : RefundStatuses]]
  /\ given   \subseteq Refunds
  /\ pc      \in [Actors -> Labels]
  /\ seen    \in [Actors -> PaymentStatuses]
  /\ next    \in [Actors -> PaymentStatuses]
  /\ ask     \in [Actors -> 0 .. Amount]
  /\ mine    \in [Actors -> SUBSET Refunds]
  /\ ok      \in [Actors -> BOOLEAN]

AtRest == \A c \in Calls : pc[c] = "idle"

(* A payment is refunded only when the gateway has given the whole amount  *)
(* back, however calls, notices and crashes interleave (refund.service.ts: *)
(* refunded >= payment.amount).                                            *)
RefundedInFull == payment = "refunded" => Sum(given) >= Amount

(* No more is given back than was paid (refund.service.ts: Refund amount   *)
(* must be between 0 and what remains).                                    *)
GivenWithinAmount == Sum(given) <= Amount

(* ... as long as refund calls are made one after the other, none dies and *)
(* the gateway's answers arrive, whatever notices come in between.         *)
GivenWithinAmountInTurn ==
  ~under.overlap /\ ~under.crash /\ ~under.lost => GivenWithinAmount

(* A completed refund was paid out; and at rest, under the same            *)
(* circumstances, every refund paid out is on record as completed.         *)
RecordsAgree ==
  /\ Having("completed") \subseteq given
  /\ AtRest /\ ~under.overlap /\ ~under.crash /\ ~under.lost =>
       given = Having("completed")

(* Without a crash no payment is left waiting for refunds that have all    *)
(* been decided, not even when calls overlap: the last one to mark it      *)
(* pending also takes it out again.                                        *)
NeverStranded ==
  Settles /\ ~under.crash /\ AtRest => payment # "refund_pending"

(* A refund that was asked for is decided in the end.                      *)
PendingIsDecided ==
  \A x \in Refunds :
    refunds[x].status = "pending" /\ Settles /\ ~under.crash
      ~> refunds[x].status # "pending"

=============================================================================
