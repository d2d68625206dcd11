------------------------------ MODULE Checkout ------------------------------
(***************************************************************************)
(* CheckoutService for one customer: checkout sessions, and the holds they *)
(* take on stock line by line.  A hold is a reservation of module          *)
(* Reservation, of which only its being active matters here.               *)
(*                                                                         *)
(* Every call reads a session, works on its copy, and saves the fields it  *)
(* has changed.  Mongoose puts the version that was read into the save's   *)
(* filter when a whole array is replaced (and counts the version up) or    *)
(* when a field inside an array is set; any other save goes through        *)
(* whatever the session has become.  Instead of the version number a call  *)
(* keeps "fresh": no list of its session was replaced since it was read.   *)
(*                                                                         *)
(* Sessions have an address and lines, so OPEN is left as soon as a call   *)
(* that looks for it passes; RESERVED is only ever set in memory.          *)
(***************************************************************************)
EXTENDS Integers, FiniteSets

CONSTANTS
  Lines,         (* number of lines of the customer's bag                  *)
  Calls,         (* calls that may be under way at once                    *)
  Circumstances  (* the circumstances behaviours take place under          *)

(* Bounds of the model.                                                    *)
CONSTANTS
  MaxSessions,   (* sessions ever created                                  *)
  MaxHolds,      (* holds at one time                                      *)
  MaxMishaps     (* calls that begin amid another one, deaths and errors   *)

(* overlap: calls may overlap; short: stock may be short, a bag may turn   *)
(* out invalid; crash: calls may die, or fail to release a hold.           *)
ASSUME CheckoutConstants ==
  /\ Lines \in Nat \ {0}
  /\ MaxSessions \in Nat \ {0} /\ MaxHolds \in Nat \ {0} /\ MaxMishaps \in Nat
  /\ Circumstances \subseteq [overlap : BOOLEAN, short : BOOLEAN, crash : BOOLEAN]

VARIABLES
  under,    (* the circumstances of this behaviour                         *)
  session,  (* session id -> its document                                  *)
  held,     (* reservations that are active                                *)
  ordered,  (* sessions with an order                                      *)
  mishaps,  (* calls so far that began amid another one, deaths and errors *)
  call      (* call -> where it is suspended and what it carries           *)

vars == << under, session, held, ordered, mishaps, call >>

Sessions == 1 .. MaxSessions
Holds == 1 .. MaxHolds

Live == {"open", "ready"}
Closed == {"completed", "cancelled", "expired"}

(* due: reservationExpiresAt is set and has passed.                        *)
NoSession == [status |-> "none", ids |-> {}, due |-> FALSE]

Labels == {"idle", "create", "ready", "release", "save", "rewrite", "reopen", "reserve",
           "commit", "order", "complete"}

(* What becomes of a session whose holds have been released, and what its  *)
(* call does next.                                                         *)
Aims == {"free", "cancel", "expire", "hold"}
Sequels == {"idle", "create", "rewrite"}
StatusFor == [free |-> "ready", cancel |-> "cancelled", expire |-> "expired", hold |-> "ready"]

(* status and ids are those read of session s, got are the holds taken.    *)
AtRest == [pc |-> "idle", s |-> 1, status |-> "none", ids |-> {}, fresh |-> TRUE,
           aim |-> "free", next |-> "idle", got |-> {}]

Init ==
  /\ under   \in Circumstances
  /\ session = [s \in Sessions |-> NoSession]
  /\ held    = {}
  /\ ordered = {}
  /\ mishaps = 0
  /\ call    = [c \in Calls |-> AtRest]

Quiet == \A c \in Calls : call[c].pc = "idle"

MayBegin(c) ==
  /\ call[c].pc = "idle"
  /\ Quiet \/ (under.overlap /\ mishaps < MaxMishaps)
  /\ mishaps' = IF Quiet THEN mishaps ELSE mishaps + 1

Suspend(c, carried) == call' = [call EXCEPT ![c] = carried]
Goto(c, label) == Suspend(c, [call[c] EXCEPT !.pc = label])
Leave(c) == Suspend(c, AtRest)
GoOnTo(c, label) == IF label = "idle" THEN Leave(c) ELSE Goto(c, label)

Made == {s \in Sessions : session[s].status # "none"}
LiveSessions == {s \in Sessions : session[s].status \in Live}

(* A reservation id that nothing refers to may be given out again.         *)
Unused(h) ==
  /\ h \notin held
  /\ \A s \in Sessions : h \notin session[s].ids
  /\ \A c \in Calls : h \notin call[c].ids \cup call[c].got

(* The bound: a call that will take holds finds ids for all its lines.     *)
RoomForHolds ==
  LET reserving == {c \in Calls : call[c].aim = "hold" /\ call[c].pc \in {"release", "reserve"}}
  IN Cardinality({h \in Holds : Unused(h)}) >= Lines * (Cardinality(reserving) + 1)

(* A call begins with the session as it is.                                *)
Read(c, s, label, aim, next) ==
  Suspend(c, [pc |-> label, s |-> s, status |-> session[s].status, ids |-> session[s].ids,
              fresh |-> TRUE, aim |-> aim, next |-> next, got |-> {}])

(* The unique index on a customer's live sessions.                         *)
IndexDropped(s, status) == TRUE         \* faulty: no such index
IndexAllows(s, status) == status \in Live => LiveSessions \subseteq {s}

(* The version filter of a save that touches a list.                       *)
UnversionedSave(c, touches) == TRUE     \* faulty: no version in the filter
MaySave(c, touches) == touches => call[c].fresh

(* What was not changed since it was read is not written.                  *)
Written(c, status) == IF status = call[c].status THEN session[call[c].s].status ELSE status
(* reservationExpiresAt goes with the list of holds.                       *)
NotDue(c) == IF call[c].ids = {} THEN session[call[c].s].due ELSE FALSE

(* A list of session s is replaced: the copies of the other calls are      *)
(* stale, that of c is c's new one.                                        *)
ReplaceLists(c, carried) ==
  call' = [d \in Calls |->
             IF d = c THEN carried
             ELSE IF call[d].pc # "idle" /\ call[d].s = call[c].s
                  THEN [call[d] EXCEPT !.fresh = FALSE] ELSE call[d]]

-----------------------------------------------------------------------------
(* start: the customer's live session is completed if it was ordered,      *)
(* expired, refreshed, or cancelled for another bag; then a new one made.  *)
Start(c, buyNow) ==
  /\ MayBegin(c)
  /\ \/ LiveSessions = {} /\ Suspend(c, [AtRest EXCEPT !.pc = "create"])
     \/ \E s \in LiveSessions :
          \/ s \in ordered /\ Read(c, s, "complete", "free", "create")
          \/ /\ s \notin ordered /\ session[s].due
             /\ Read(c, s, "release", "expire", "create")
          \/ /\ s \notin ordered /\ ~session[s].due
             /\ IF buyNow THEN Read(c, s, "release", "cancel", "create")
                ELSE Read(c, s, "rewrite", "free", "idle")
  /\ UNCHANGED << under, session, held, ordered >>

CreateSession(c) ==
  /\ call[c].pc = "create"
  /\ \/ /\ ~IndexAllows(0, "open")
        /\ Leave(c)
        /\ UNCHANGED session
     \/ /\ IndexAllows(0, "open")
        /\ \E s \in Sessions \ Made :
             /\ \A t \in Sessions \ Made : s <= t
             /\ session' = [session EXCEPT ![s] = [NoSession EXCEPT !.status = "open"]]
             /\ Suspend(c, [AtRest EXCEPT !.pc = "ready", !.s = s, !.status = "open"])
  /\ UNCHANGED << under, mishaps, held, ordered >>

(* A save that changes nothing but the status.                             *)
SaveStatus(c, status, next) ==
  /\ \/ /\ IndexAllows(call[c].s, Written(c, status))
        /\ session' = [session EXCEPT ![call[c].s].status = Written(c, status)]
        /\ GoOnTo(c, next)
     \/ /\ ~IndexAllows(call[c].s, Written(c, status))
        /\ Leave(c)
        /\ UNCHANGED session
  /\ UNCHANGED << under, mishaps, held, ordered >>

MakeReady(c) == call[c].pc = "ready" /\ SaveStatus(c, "ready", "idle")

(* get: an elapsed hold is released, an open session made ready; for a    *)
(* hold that is left over it goes on as FreeHolds.                         *)
View(c, s) ==
  LET d == session[s] IN
  /\ MayBegin(c)
  /\ \/ /\ d.status = "ready" /\ d.due /\ d.ids # {}
        /\ Read(c, s, "release", "free", "idle")
     \/ d.status = "open" /\ Read(c, s, "ready", "free", "idle")
  /\ UNCHANGED << under, session, held, ordered >>

(* validate and refresh: an elapsed hold is released first.  aim "hold"    *)
(* asks for the hold to be extended.                                       *)
Refresh(c, s, aim) ==
  LET d == session[s] IN
  /\ MayBegin(c) /\ d.status \in Live
  /\ IF d.status = "ready" /\ d.due /\ d.ids # {}
     THEN Read(c, s, "release", "free", "rewrite")
     ELSE Read(c, s, "rewrite", aim, "idle")
  /\ UNCHANGED << under, session, held, ordered >>

(* The lines are replaced, each keeping the id of its hold.                *)
Rewrite(c) ==
  LET s == call[c].s
      d == session[s]
      extends == call[c].aim = "hold" /\ call[c].ids # {}
  IN
  /\ call[c].pc = "rewrite"
  /\ \/ /\ MaySave(c, TRUE) /\ IndexAllows(s, Written(c, "ready"))
        /\ session' = [session EXCEPT ![s] = [status |-> Written(c, "ready"), ids |-> d.ids,
                                              due |-> ~extends /\ d.due]]
        /\ ReplaceLists(c, AtRest)
     \/ /\ ~MaySave(c, TRUE) \/ ~IndexAllows(s, Written(c, "ready"))
        /\ Leave(c)
        /\ UNCHANGED session
  /\ UNCHANGED << under, mishaps, held, ordered >>

(* reserve: holds the session has are released, then one is taken for each *)
(* line, then the session is saved.                                        *)
ReserveOnTop(c, s) ==       \* faulty: the holds the session has are kept
  /\ MayBegin(c) /\ RoomForHolds /\ session[s].status \in Live
  /\ Read(c, s, "reserve", "hold", "idle")
  /\ UNCHANGED << under, session, held, ordered >>

Reserve(c, s) ==
  /\ MayBegin(c) /\ RoomForHolds /\ session[s].status \in Live
  /\ Read(c, s, IF session[s].ids = {} THEN "reserve" ELSE "release", "hold", "idle")
  /\ UNCHANGED << under, session, held, ordered >>

(* releaseReservations; a release that fails is passed over.               *)
ReleaseHolds(c) ==
  /\ call[c].pc = "release"
  /\ \/ /\ held' = held \ call[c].ids
        /\ UNCHANGED mishaps
     \/ /\ under.crash /\ mishaps < MaxMishaps
        /\ \E h \in held \cap call[c].ids : held' = held \ (call[c].ids \ {h})
        /\ mishaps' = mishaps + 1
  /\ Goto(c, IF call[c].aim = "hold" THEN "reserve" ELSE "save")
  /\ UNCHANGED << under, session, ordered >>

TakeHold(c) ==
  /\ call[c].pc = "reserve"
  /\ \E h \in Holds :
       /\ Unused(h) /\ \A g \in Holds : Unused(g) => h <= g
       /\ held' = held \cup {h}
       /\ Suspend(c, [call[c] EXCEPT !.got = @ \cup {h},
                                     !.pc = IF Cardinality(call[c].got) + 1 = Lines
                                            THEN "save" ELSE @])
  /\ UNCHANGED << under, mishaps, session, ordered >>

(* The stock is short: what was held so far is recorded nowhere.           *)
RunShort(c) ==
  /\ under.short
  /\ call[c].pc = "reserve"
  /\ Leave(c)
  /\ UNCHANGED << under, mishaps, session, held, ordered >>

(* The bag is not valid any more: the released session is saved as it is.  *)
RejectBag(c) ==
  /\ under.short
  /\ call[c].pc = "reserve" /\ call[c].got = {}
  /\ IF call[c].ids # {} /\ MaySave(c, TRUE)
     THEN /\ session' = [session EXCEPT ![call[c].s].ids = {}]
          /\ ReplaceLists(c, AtRest)
     ELSE /\ Leave(c)
          /\ UNCHANGED session
  /\ UNCHANGED << under, mishaps, held, ordered >>

(* The save of a session whose holds were released or taken.               *)
SaveHolds(c) ==
  LET s == call[c].s
      touches == call[c].ids # call[c].got
      status == Written(c, StatusFor[call[c].aim])
      next == call[c].next
      onwards == IF next # "rewrite" THEN [AtRest EXCEPT !.pc = next]
                 ELSE [AtRest EXCEPT !.pc = next, !.s = s, !.status = "ready"]
  IN
  /\ call[c].pc = "save"
  /\ \/ /\ MaySave(c, touches) /\ IndexAllows(s, status)
        /\ session' = [session EXCEPT ![s] =
                         [status |-> status,
                          ids |-> IF touches THEN call[c].got ELSE @.ids,
                          due |-> IF call[c].aim = "expire" THEN @.due
                                  ELSE call[c].aim = "free" /\ NotDue(c)]]
        /\ IF touches THEN ReplaceLists(c, onwards) ELSE Suspend(c, onwards)
     \/ /\ ~(MaySave(c, touches) /\ IndexAllows(s, status))
        /\ Leave(c)
        /\ UNCHANGED session
  /\ UNCHANGED << under, mishaps, held, ordered >>

(* release looks at no status; cancel does nothing twice.                  *)
Release(c, s) ==
  /\ MayBegin(c) /\ s \in Made
  /\ Read(c, s, "release", "free", "idle")
  /\ UNCHANGED << under, session, held, ordered >>

Cancel(c, s) ==
  /\ MayBegin(c) /\ s \in Made /\ session[s].status # "cancelled"
  /\ Read(c, s, "release", "cancel", "idle")
  /\ UNCHANGED << under, session, held, ordered >>

(* expireDueSessions, one session of its list.                             *)
ElapsedReserved(s) ==       \* faulty: only sessions saved as reserved are looked for
  session[s].status = "reserved" /\ session[s].due /\ session[s].ids # {}
Elapsed(s) ==
  session[s].status = "ready" /\ session[s].due /\ session[s].ids # {}

ExpireSession(c, s) ==
  /\ MayBegin(c) /\ Elapsed(s)
  /\ Read(c, s, "release", "free", "idle")
  /\ UNCHANGED << under, session, held, ordered >>

-----------------------------------------------------------------------------
(* A payment begins (ensurePayableForPayment): a session that was closed   *)
(* without an order is opened again; for a hold that is left over it goes  *)
(* on as FreeHolds.                                                        *)
Pay(c, s) ==
  /\ MayBegin(c)
  /\ session[s].status \in {"cancelled", "expired"} /\ s \notin ordered
  /\ Read(c, s, "reopen", "free", "idle")
  /\ UNCHANGED << under, session, held, ordered >>

Reopen(c) ==
  LET s == call[c].s IN
  /\ call[c].pc = "reopen"
  /\ \/ /\ IndexAllows(s, "ready")
        /\ session' = [session EXCEPT ![s] = [status |-> "ready", ids |-> @.ids, due |-> FALSE]]
     \/ ~IndexAllows(s, "ready") /\ UNCHANGED session
  /\ Leave(c)
  /\ UNCHANGED << under, mishaps, held, ordered >>

(* releaseForPaymentFailure, when a payment begins or fails, or the        *)
(* customer comes back.                                                    *)
FreeHolds(c, s) ==
  /\ MayBegin(c) /\ session[s].status \in Live
  /\ Read(c, s, "release", "free", "idle")
  /\ UNCHANGED << under, session, held, ordered >>

(* The order consumer, from its read of the session: what the lines hold   *)
(* is committed (a line without a hold gets one and commits it), the order *)
(* created, the session completed; the last may fail and is let go.        *)
Fulfil(c, s) ==
  /\ MayBegin(c) /\ s \in Made \ ordered
  /\ Read(c, s, "commit", "free", "idle")
  /\ UNCHANGED << under, session, held, ordered >>

CommitHolds(c) ==
  /\ call[c].pc = "commit"
  /\ held' = held \ call[c].ids
  /\ Goto(c, "order")
  /\ UNCHANGED << under, mishaps, session, ordered >>

CreateOrder(c) ==
  /\ call[c].pc = "order"
  /\ IF call[c].s \in ordered THEN Leave(c) ELSE Goto(c, "complete")
  /\ ordered' = ordered \cup {call[c].s}
  /\ UNCHANGED << under, mishaps, session, held >>

Complete(c) ==
  LET s == call[c].s
      touches == call[c].next = "idle" /\ call[c].ids = {}
  IN
  /\ call[c].pc = "complete"
  /\ IF MaySave(c, touches)
     THEN /\ session' = [session EXCEPT ![s] = [status |-> Written(c, "completed"),
                                               ids |-> @.ids, due |-> FALSE]]
          /\ GoOnTo(c, call[c].next)
     ELSE /\ Leave(c)
          /\ UNCHANGED session
  /\ UNCHANGED << under, mishaps, held, ordered >>

-----------------------------------------------------------------------------
(* reservationExpiresAt passes.                                            *)
SessionElapses(s) ==
  /\ session[s].ids # {} /\ ~session[s].due
  /\ session' = [session EXCEPT ![s].due = TRUE]
  /\ UNCHANGED << under, mishaps, held, ordered, call >>

(* The reservation sweep ends a hold that has run out; when it does is     *)
(* left open, the session's own clock tells it nothing.                    *)
ExpireHold(h) ==
  /\ h \in held
  /\ held' = held \ {h}
  /\ UNCHANGED << under, mishaps, session, ordered, call >>

Die(c) ==
  /\ under.crash /\ mishaps < MaxMishaps
  /\ call[c].pc # "idle"
  /\ mishaps' = mishaps + 1
  /\ Leave(c)
  /\ UNCHANGED << under, session, held, ordered >>

Begin(c) ==
  \/ \E buyNow \in BOOLEAN : Start(c, buyNow)
  \/ \E s \in Sessions :
       \/ View(c, s) \/ Reserve(c, s) \/ Release(c, s) \/ Cancel(c, s) \/ ExpireSession(c, s)
       \/ \E aim \in {"free", "hold"} : Refresh(c, s, aim)
       \/ Pay(c, s) \/ FreeHolds(c, s) \/ Fulfil(c, s)

GoOn(c) ==
  \/ CreateSession(c) \/ MakeReady(c) \/ Rewrite(c) \/ ReleaseHolds(c) \/ TakeHold(c)
  \/ RunShort(c) \/ RejectBag(c) \/ SaveHolds(c) \/ Reopen(c)
  \/ CommitHolds(c) \/ CreateOrder(c) \/ Complete(c)

Next ==
  \/ \E c \in Calls : Begin(c) \/ GoOn(c) \/ Die(c)
  \/ \E h \in Holds : ExpireHold(h)
  \/ \E s \in Sessions : SessionElapses(s)

Spec == Init /\ [][Next]_vars

(* A call that has begun goes on; the sweep runs every minute.             *)
Fairness ==
  /\ \A c \in Calls : WF_vars(GoOn(c))
  /\ SF_vars(\E c \in Calls, s \in Sessions : ExpireSession(c, s))

FairSpec == Spec /\ Fairness

-----------------------------------------------------------------------------
SessionDocuments == [status : Live \cup Closed \cup {"none"}, ids : SUBSET Holds,
                     due : BOOLEAN]
CallStates == [pc : Labels, s : Sessions, status : Live \cup Closed \cup {"none"},
               ids : SUBSET Holds, fresh : BOOLEAN, aim : Aims,
               next : Sequels, got : SUBSET Holds]

TypeOK ==
  /\ under   \in Circumstances
  /\ session \in [Sessions -> SessionDocuments]
  /\ held    \subseteq Holds
  /\ ordered \subseteq Sessions
  /\ mishaps \in Nat
  /\ call    \in [Calls -> CallStates]

(* A customer has one session that can be paid, whichever calls race to    *)
(* make one, to open one again or to write a status they had read          *)
(* (docs/18-phase-9-checkout.md:50).                                       *)
OneLiveSession == Cardinality(LiveSessions) <= 1

(* The hazard of taking holds line by line: when no two calls overlap, no  *)
(* stock is short and nothing dies, every hold that keeps stock is one     *)
(* that a session lists.  (A reserve that fails half way breaks this until *)
(* its holds expire.)                                                      *)
HoldsAreListed ==
  /\ ~under.overlap /\ ~under.short /\ ~under.crash
  /\ \A c \in Calls : call[c].pc = "idle"
  => held \subseteq UNION {session[s].ids : s \in Sessions}

(* Whatever overlaps, a session never forgets a hold that still keeps      *)
(* stock: no save built on an older copy replaces the list.  (Only a       *)
(* release that fails, which releaseReservations passes over, leaves one.) *)
ListedHoldsAreKept ==
  [][~under.crash =>
       \A s \in Sessions : session[s].ids \cap held \subseteq session'[s].ids]_vars

(* A session whose hold has run out is not left as one that holds stock,   *)
(* though it is nobody's turn but the sweep's.                             *)
RunOut(s) == session[s].status \in Live /\ session[s].due /\ session[s].ids # {}

ElapsedIsCleared == (\E s \in Sessions : RunOut(s)) ~> (\A s \in Sessions : ~RunOut(s))

=============================================================================
