--------------------------- MODULE CheckoutProofs ----------------------------
(***************************************************************************)
(* What holds of a customer's checkout sessions for any number of lines,   *)
(* sessions, holds and calls, under every circumstance.                    *)
(***************************************************************************)
EXTENDS Checkout, FiniteSetTheorems, TLAPS

Documents ==
  /\ under   \in Circumstances
  /\ session \in [Sessions -> SessionDocuments]
  /\ held    \subseteq Holds
  /\ ordered \subseteq Sessions
  /\ mishaps \in Nat
  /\ \A s \in Sessions : session[s].status = "none" => session[s].ids = {}
  /\ \A s, t \in LiveSessions : s = t

(* What a suspended call's copy is good for: its session has been made;    *)
(* while no list was replaced since it was read the copy has the holds of  *)
(* the session; and the holds it has released keep no stock, nor will      *)
(* their ids while it remembers them.                                      *)
Sound(r) ==
  /\ r \in CallStates
  /\ r.pc \notin {"idle", "create"} => session[r.s].status # "none"
  /\ ~under.crash /\ r.pc \in {"reserve", "save"} => r.ids \cap held = {}
  /\ r.pc \in {"release", "reserve", "save"} /\ r.fresh => session[r.s].ids = r.ids

Inv ==
  /\ Documents
  /\ call \in [Calls -> CallStates]
  /\ \A c \in Calls : Sound(call[c])

(* Stock is newly held only under ids that nothing refers to.              *)
HeldApart == \A h \in held' \ held : \A c \in Calls : h \notin call[c].ids

(* A session that was made remains.                                        *)
Remain == \A s \in Sessions : session[s].status # "none" => session'[s].status # "none"

LEMMA RestSound ==
  /\ 1 \in Sessions /\ 0 \notin Sessions
  /\ AtRest \in CallStates /\ AtRest.pc = "idle"
  /\ Sound(AtRest) /\ Sound(AtRest)'
<1>1. 1 \in Sessions /\ 0 \notin Sessions
  BY CheckoutConstants DEF Sessions
<1>2. AtRest \in CallStates /\ AtRest.pc = "idle"
  BY <1>1 DEF AtRest, CallStates, Labels, Aims, Sequels, Live, Closed
<1>3. QED BY <1>1, <1>2 DEF Sound

-----------------------------------------------------------------------------
(* The two shapes of a step: no session's list of holds is replaced ...    *)
LEMMA CopyStands ==
  ASSUME Inv, HeldApart, Remain, under' = under, NEW d \in Calls, call'[d] = call[d],
         session'[call[d].s].ids = session[call[d].s].ids
  PROVE  Sound(call[d])'
<1>1. Sound(call[d]) /\ call[d] \in CallStates /\ call[d].s \in Sessions
  BY DEF Inv, CallStates
<1>2. call[d].ids \cap held = {} => call[d].ids \cap held' = {}
  BY DEF HeldApart
<1>3. session[call[d].s].status # "none" => session'[call[d].s].status # "none"
  BY <1>1 DEF Remain
<1>4. QED BY <1>1, <1>2, <1>3 DEF Sound

LEMMA ListsStand ==
  ASSUME Inv, Documents', HeldApart, Remain, under' = under,
         \A s \in Sessions : session'[s].ids = session[s].ids,
         NEW c \in Calls, NEW r, Sound(r)', Suspend(c, r)
  PROVE  Inv'
<1>1. call' = [call EXCEPT ![c] = r] /\ r \in CallStates
  BY DEF Suspend, Sound
<1>2. call' \in [Calls -> CallStates] /\ call'[c] = r
  BY <1>1 DEF Inv
<1>3. ASSUME NEW d \in Calls, d # c PROVE Sound(call[d])'
  <2>1. call'[d] = call[d] /\ call[d].s \in Sessions
    BY <1>1, <1>3 DEF Inv, CallStates
  <2>2. QED BY <2>1, CopyStands
<1>4. Sound(call[c])'
  BY <1>2
<1>5. QED BY <1>2, <1>3, <1>4 DEF Inv

(* ... or that of the session in hand is, and the other copies of it are   *)
(* stale.                                                                  *)
LEMMA ReplacedStand ==
  ASSUME Inv, Documents', Remain, held' = held, under' = under,
         NEW c \in Calls, NEW r, Sound(r)',
         \A s \in Sessions \ {call[c].s} : session'[s].ids = session[s].ids,
         ReplaceLists(c, r)
  PROVE  Inv'
<1>1. r \in CallStates
  BY DEF Sound
<1>2. \A d \in Calls : call[d] \in CallStates /\ [call[d] EXCEPT !.fresh = FALSE] \in CallStates
  BY DEF Inv, CallStates
<1>3. call' \in [Calls -> CallStates]
  BY <1>1, <1>2 DEF ReplaceLists
<1>4. ASSUME NEW d \in Calls, d # c PROVE Sound(call[d])'
  <2>1. Sound(call[d]) /\ call[d] \in CallStates /\ call[d].s \in Sessions
    BY <1>2 DEF Inv, CallStates
  <2>2. session[call[d].s].status # "none" => session'[call[d].s].status # "none"
    BY <2>1 DEF Remain
  <2>3. CASE call[d].pc # "idle" /\ call[d].s = call[c].s
    <3>1. call'[d] = [call[d] EXCEPT !.fresh = FALSE]
      BY <1>4, <2>3 DEF ReplaceLists
    <3>2. /\ call'[d].fresh = FALSE /\ call'[d].pc = call[d].pc /\ call'[d].ids = call[d].ids
          /\ call'[d].s = call[d].s
      BY <2>1, <3>1 DEF CallStates
    <3>3. QED BY <1>3, <2>1, <2>2, <3>2 DEF Sound
  <2>4. CASE call[d].pc = "idle"
    <3>1. call'[d] = call[d]
      BY <1>4, <2>4 DEF ReplaceLists
    <3>2. QED BY <2>1, <2>4, <3>1 DEF Sound
  <2>5. CASE call[d].s # call[c].s
    <3>1. call'[d] = call[d] /\ session'[call[d].s].ids = session[call[d].s].ids
      BY <1>4, <2>1, <2>5 DEF ReplaceLists
    <3>2. HeldApart
      BY DEF HeldApart
    <3>3. QED BY <3>1, <3>2, CopyStands
  <2>6. QED BY <2>3, <2>4, <2>5
<1>5. Sound(call[c])'
  <2>1. call'[c] = r
    BY DEF ReplaceLists
  <2>2. QED BY <2>1
<1>6. QED BY <1>3, <1>4, <1>5 DEF Inv

(* A step that leaves the sessions alone and ends or goes on with a call.  *)
LEMMA LeaveStands ==
  ASSUME Inv, Documents', HeldApart, Remain, under' = under, NEW c \in Calls, Leave(c),
         \A s \in Sessions : session'[s].ids = session[s].ids
  PROVE  Inv'
<1>1. Suspend(c, AtRest) /\ Sound(AtRest)'
  BY RestSound DEF Leave
<1>2. QED BY <1>1, ListsStand

-----------------------------------------------------------------------------
(* What a save makes of the documents: another live session is kept out by *)
(* the index.                                                              *)
LEMMA DocumentsStand ==
  ASSUME Inv, UNCHANGED << under, session >>, held' \subseteq Holds, ordered' \subseteq Sessions,
         mishaps' \in Nat
  PROVE  Documents' /\ Remain /\ \A s \in Sessions : session'[s].ids = session[s].ids
<1>1. LiveSessions' = LiveSessions
  BY DEF LiveSessions
<1>2. QED BY <1>1 DEF Inv, Documents, Remain

LEMMA SavedStand ==
  ASSUME Inv, NEW s \in Sessions, NEW d \in SessionDocuments, d.status # "none",
         IndexAllows(s, d.status), session' = [session EXCEPT ![s] = d],
         UNCHANGED << under, held, ordered, mishaps >>
  PROVE  Documents' /\ Remain
<1>1. session \in [Sessions -> SessionDocuments]
  BY DEF Inv, Documents
<1>2. \A t \in Sessions : session'[t] = IF t = s THEN d ELSE session[t]
  BY <1>1
<1>3. session' \in [Sessions -> SessionDocuments]
  BY <1>1
<1>4. Remain /\ \A t \in Sessions : session'[t].status = "none" => session'[t].ids = {}
  BY <1>2 DEF Remain, Inv, Documents
<1>5. \A t, u \in LiveSessions' : t = u
  <2>1. CASE d.status \in Live
    <3>1. LiveSessions' \subseteq {s}
      BY <1>2, <2>1 DEF IndexAllows, LiveSessions
    <3>2. QED BY <3>1
  <2>2. CASE d.status \notin Live
    <3>1. LiveSessions' \subseteq LiveSessions
      BY <1>2, <2>2 DEF LiveSessions
    <3>2. QED BY <3>1 DEF Inv, Documents
  <2>3. QED BY <2>1, <2>2
<1>6. QED BY <1>3, <1>4, <1>5 DEF Inv, Documents

(* A status that is saved, and the clock that goes with it, are values of  *)
(* the document's fields.                                                  *)
LEMMA WrittenTyped ==
  ASSUME Inv, NEW c \in Calls, call[c].pc \notin {"idle", "create"},
         NEW status \in Live \cup Closed
  PROVE  /\ call[c].s \in Sessions
         /\ Written(c, status) \in Live \cup Closed
         /\ NotDue(c) \in BOOLEAN
<1>1. call[c].s \in Sessions /\ Sound(call[c])
  BY DEF Inv, CallStates
<1>2. session[call[c].s] \in SessionDocuments /\ session[call[c].s].status # "none"
  BY <1>1 DEF Inv, Documents, Sound
<1>3. session[call[c].s].status \in Live \cup Closed /\ session[call[c].s].due \in BOOLEAN
  BY <1>2 DEF SessionDocuments
<1>4. QED BY <1>1, <1>3 DEF Written, NotDue

-----------------------------------------------------------------------------
(* A call begins.                                                          *)
LEMMA ReadStands ==
  ASSUME Inv, NEW c \in Calls, NEW s \in Made, NEW label \in Labels \ {"save"},
         NEW aim \in Aims, NEW next \in Sequels, Read(c, s, label, aim, next),
         label = "reserve" => session[s].ids = {},
         UNCHANGED << under, session, held, ordered >>, mishaps' \in Nat
  PROVE  Inv'
<1> PICK r : r = [pc |-> label, s |-> s, status |-> session[s].status, ids |-> session[s].ids,
                  fresh |-> TRUE, aim |-> aim, next |-> next, got |-> {}]
  OBVIOUS
<1>1. s \in Sessions /\ session[s] \in SessionDocuments /\ session[s].status # "none"
  BY DEF Made, Inv, Documents
<1>2. r \in CallStates
  BY <1>1 DEF CallStates, SessionDocuments
<1>3. Suspend(c, r)
  BY Zenon DEF Read
<1>4. Sound(r)'
  BY <1>1, <1>2 DEF Sound
<1>5. Documents' /\ Remain /\ \A t \in Sessions : session'[t].ids = session[t].ids
  <2>1. held' \subseteq Holds /\ ordered' \subseteq Sessions
    BY DEF Inv, Documents
  <2>2. QED BY <2>1, DocumentsStand
<1>6. HeldApart
  BY DEF HeldApart
<1>7. QED BY <1>3, <1>4, <1>5, <1>6, ListsStand

LEMMA CreateBegins ==
  ASSUME Inv, NEW c \in Calls, Suspend(c, [AtRest EXCEPT !.pc = "create"]),
         UNCHANGED << under, session, held, ordered >>, mishaps' \in Nat
  PROVE  Inv'
<1> PICK r : r = [AtRest EXCEPT !.pc = "create"]
  OBVIOUS
<1>1. r \in CallStates /\ r.pc = "create"
  BY RestSound DEF CallStates, Labels
<1>2. Sound(r)'
  BY <1>1 DEF Sound
<1>3. Documents' /\ Remain /\ \A t \in Sessions : session'[t].ids = session[t].ids
  <2>1. held' \subseteq Holds /\ ordered' \subseteq Sessions
    BY DEF Inv, Documents
  <2>2. QED BY <2>1, DocumentsStand
<1>4. HeldApart
  BY DEF HeldApart
<1>5. QED BY <1>2, <1>3, <1>4, ListsStand

LEMMA BeginStands ==
  ASSUME Inv, NEW c \in Calls, Begin(c)
  PROVE  Inv'
<1>1. mishaps' \in Nat
  <2>1. MayBegin(c)
    BY Zenon DEF Begin, Start, View, Reserve, Release, Cancel, ExpireSession, Refresh, Pay,
                 FreeHolds, Fulfil
  <2>2. QED BY <2>1 DEF MayBegin, Inv, Documents
<1>2. UNCHANGED << under, session, held, ordered >>
  BY Zenon DEF Begin, Start, View, Reserve, Release, Cancel, ExpireSession, Refresh, Pay,
               FreeHolds, Fulfil
<1>3. \/ Suspend(c, [AtRest EXCEPT !.pc = "create"])
      \/ \E s \in Made, label \in Labels \ {"save"}, aim \in Aims, next \in Sequels :
           /\ Read(c, s, label, aim, next)
           /\ label = "reserve" => session[s].ids = {}
  <2>1. LiveSessions \subseteq Made
    BY DEF LiveSessions, Made, Live
  <2>2. ASSUME NEW s \in Made, NEW label \in {"release", "complete", "rewrite", "ready", "reopen", "commit"},
               NEW aim \in {"free", "cancel", "expire", "hold"},
               NEW next \in {"idle", "create", "rewrite"}, Read(c, s, label, aim, next)
        PROVE  \E t \in Made, l \in Labels \ {"save"}, m \in Aims, n \in Sequels :
                 Read(c, t, l, m, n) /\ (l = "reserve" => session[t].ids = {})
    <3>1. label \in Labels \ {"save"} /\ aim \in Aims /\ next \in Sequels /\ label # "reserve"
      BY DEF Labels, Aims, Sequels
    <3>2. QED BY <2>2, <3>1
  <2>3. ASSUME NEW buyNow \in BOOLEAN, Start(c, buyNow)
        PROVE  \/ Suspend(c, [AtRest EXCEPT !.pc = "create"])
               \/ \E s \in Made, label \in {"release", "complete", "rewrite"},
                    aim \in {"free", "cancel", "expire"}, next \in {"idle", "create"} :
                    Read(c, s, label, aim, next)
    BY <2>1, <2>3, Zenon DEF Start
  <2>4. ASSUME NEW s \in Sessions,
               \/ View(c, s) \/ Release(c, s) \/ Cancel(c, s) \/ ExpireSession(c, s)
               \/ Pay(c, s) \/ FreeHolds(c, s) \/ Fulfil(c, s)
        PROVE  s \in Made /\ \E label \in {"release", "ready", "reopen", "commit"},
                               aim \in {"free", "cancel"} : Read(c, s, label, aim, "idle")
    <3>1. s \in Made
      BY <2>4 DEF View, Release, Cancel, ExpireSession, Elapsed, Pay, FreeHolds, Fulfil, Made, Live
    <3>2. \E label \in {"release", "ready", "reopen", "commit"}, aim \in {"free", "cancel"} :
            Read(c, s, label, aim, "idle")
      BY <2>4, Zenon DEF View, Release, Cancel, ExpireSession, Pay, FreeHolds, Fulfil
    <3>3. QED BY <3>1, <3>2
  <2>5. ASSUME NEW s \in Sessions, NEW aim \in {"free", "hold"}, Refresh(c, s, aim)
        PROVE  s \in Made /\ \E label \in {"release", "rewrite"}, m \in {"free", "hold"},
                               next \in {"idle", "rewrite"} : Read(c, s, label, m, next)
    BY <2>1, <2>5 DEF Refresh, LiveSessions
  <2>6. ASSUME NEW s \in Sessions, Reserve(c, s)
        PROVE  \E t \in Made, l \in Labels \ {"save"}, m \in Aims, n \in Sequels :
                 Read(c, t, l, m, n) /\ (l = "reserve" => session[t].ids = {})
    <3>1. s \in Made
      BY <2>1, <2>6 DEF Reserve, LiveSessions
    <3>2. "hold" \in Aims /\ "idle" \in Sequels /\ {"reserve", "release"} \subseteq Labels \ {"save"}
      BY DEF Labels, Aims, Sequels
    <3>3. \E l \in {"reserve", "release"} :
            Read(c, s, l, "hold", "idle") /\ (l = "reserve" => session[s].ids = {})
      BY <2>6 DEF Reserve
    <3>4. QED BY <3>1, <3>2, <3>3
  <2>7. CASE \E buyNow \in BOOLEAN : Start(c, buyNow)
    BY <2>2, <2>3, <2>7
  <2>8. CASE \E s \in Sessions : \E aim \in {"free", "hold"} : Refresh(c, s, aim)
    BY <2>2, <2>5, <2>8
  <2>9. CASE \E s \in Sessions : Reserve(c, s)
    BY <2>6, <2>9
  <2>10. CASE \E s \in Sessions : \/ View(c, s) \/ Release(c, s) \/ Cancel(c, s)
                                  \/ ExpireSession(c, s) \/ Pay(c, s) \/ FreeHolds(c, s)
                                  \/ Fulfil(c, s)
    BY <2>2, <2>4, <2>10
  <2>11. QED BY <2>7, <2>8, <2>9, <2>10, Zenon DEF Begin
<1>4. QED BY <1>1, <1>2, <1>3, ReadStands, CreateBegins

-----------------------------------------------------------------------------
(* A call goes on.                                                         *)
LEMMA CarryTo ==
  ASSUME NEW r \in CallStates, NEW pc
  PROVE  [r EXCEPT !.pc = pc] =
           [pc |-> pc, s |-> r.s, status |-> r.status, ids |-> r.ids, fresh |-> r.fresh,
            aim |-> r.aim, next |-> r.next, got |-> r.got]
  BY DEF CallStates

LEMMA CarryHold ==
  ASSUME NEW r \in CallStates, NEW pc, NEW got
  PROVE  [r EXCEPT !.got = got, !.pc = pc] =
           [pc |-> pc, s |-> r.s, status |-> r.status, ids |-> r.ids, fresh |-> r.fresh,
            aim |-> r.aim, next |-> r.next, got |-> got]
<1> DEFINE n == [r EXCEPT !.got = got]
<1>1. n = [pc |-> r.pc, s |-> r.s, status |-> r.status, ids |-> r.ids, fresh |-> r.fresh,
           aim |-> r.aim, next |-> r.next, got |-> got]
  BY DEF CallStates
<1> HIDE DEF n
<1>2. [n EXCEPT !.pc = pc] =
        [pc |-> pc, s |-> r.s, status |-> r.status, ids |-> r.ids, fresh |-> r.fresh,
         aim |-> r.aim, next |-> r.next, got |-> got]
  BY <1>1
<1>3. QED BY <1>2 DEF n

(* The call remembers what it did and only moves on.                       *)
LEMMA OnwardSound ==
  ASSUME Inv, NEW c \in Calls, call[c].pc \notin {"idle", "create"}, Remain,
         NEW label \in Labels \ {"release"}, under' = under,
         session'[call[c].s].ids = session[call[c].s].ids,
         label \in {"reserve", "save"} =>
           /\ call[c].pc \in {"release", "reserve"}
           /\ ~under.crash => call[c].ids \cap held' = {},
         NEW got \in SUBSET Holds,
         NEW r, r = [pc |-> label, s |-> call[c].s, status |-> call[c].status,
                     ids |-> call[c].ids, fresh |-> call[c].fresh, aim |-> call[c].aim,
                     next |-> call[c].next, got |-> got]
  PROVE  Sound(r)'
<1>1. call[c] \in CallStates /\ Sound(call[c]) /\ call[c].s \in Sessions
  BY DEF Inv, CallStates
<1>2. r \in CallStates
  BY <1>1 DEF CallStates
<1>3. session'[call[c].s].status # "none"
  BY <1>1 DEF Remain, Sound
<1>4. label \in {"reserve", "save"} /\ call[c].fresh => session[call[c].s].ids = call[c].ids
  BY <1>1 DEF Sound
<1>5. QED BY <1>2, <1>3, <1>4 DEF Sound

LEMMA ReleaseHoldsStands ==
  ASSUME Inv, NEW c \in Calls, ReleaseHolds(c)
  PROVE  Inv'
<1>1. call[c].pc = "release" /\ UNCHANGED << under, session, ordered >>
  BY DEF ReleaseHolds
<1>2. held' \subseteq held /\ (~under.crash => call[c].ids \cap held' = {})
  BY DEF ReleaseHolds
<1>3. mishaps' \in Nat
  BY DEF ReleaseHolds, Inv, Documents
<1>4. HeldApart /\ Documents' /\ Remain /\ \A s \in Sessions : session'[s].ids = session[s].ids
  <2>1. held' \subseteq Holds /\ ordered' \subseteq Sessions
    BY <1>1, <1>2 DEF Inv, Documents
  <2>2. QED BY <1>1, <1>2, <1>3, <2>1, DocumentsStand DEF HeldApart
<1> PICK label \in {"reserve", "save"} : Goto(c, label)
  BY DEF ReleaseHolds
<1> PICK r : r = [pc |-> label, s |-> call[c].s, status |-> call[c].status,
                  ids |-> call[c].ids, fresh |-> call[c].fresh, aim |-> call[c].aim,
                  next |-> call[c].next, got |-> call[c].got]
  OBVIOUS
<1>5. call[c] \in CallStates /\ call[c].got \in SUBSET Holds /\ call[c].s \in Sessions
  BY DEF Inv, CallStates
<1>6. Suspend(c, r)
  BY <1>5, CarryTo, Zenon DEF Goto
<1>7. Sound(r)'
  BY <1>1, <1>2, <1>4, <1>5, OnwardSound DEF Labels
<1>8. QED BY <1>1, <1>4, <1>6, <1>7, ListsStand

LEMMA TakeHoldStands ==
  ASSUME Inv, NEW c \in Calls, TakeHold(c)
  PROVE  Inv'
<1>1. call[c].pc = "reserve" /\ UNCHANGED << under, mishaps, session, ordered >>
  BY DEF TakeHold
<1>2. call[c] \in CallStates /\ call[c].got \subseteq Holds /\ call[c].s \in Sessions
  BY DEF Inv, CallStates
<1>3. PICK h \in Holds :
        /\ Unused(h) /\ held' = held \cup {h}
        /\ Suspend(c, [call[c] EXCEPT !.got = call[c].got \cup {h},
                                      !.pc = IF Cardinality(call[c].got) + 1 = Lines
                                             THEN "save" ELSE call[c].pc])
  BY Zenon DEF TakeHold
<1>4. HeldApart /\ ~under.crash => call[c].ids \cap held' = {}
  BY <1>1, <1>3 DEF HeldApart, Unused, Inv, Sound
<1>5. HeldApart
  BY <1>3 DEF HeldApart, Unused
<1>6. Documents' /\ Remain /\ \A s \in Sessions : session'[s].ids = session[s].ids
  <2>1. held' \subseteq Holds /\ ordered' \subseteq Sessions /\ mishaps' \in Nat
    BY <1>1, <1>3 DEF Inv, Documents
  <2>2. QED BY <1>1, <2>1, DocumentsStand
<1> PICK label \in {"reserve", "save"} :
      Suspend(c, [call[c] EXCEPT !.got = call[c].got \cup {h}, !.pc = label])
  BY <1>1, <1>3
<1> PICK r : r = [pc |-> label, s |-> call[c].s, status |-> call[c].status,
                  ids |-> call[c].ids, fresh |-> call[c].fresh, aim |-> call[c].aim,
                  next |-> call[c].next, got |-> call[c].got \cup {h}]
  OBVIOUS
<1>7. Suspend(c, r)
  BY <1>2, CarryHold, Zenon
<1>8. Sound(r)'
  <2>1. call[c].got \cup {h} \in SUBSET Holds
    BY <1>2
  <2>2. label \in Labels \ {"release"}
    BY DEF Labels
  <2>3. QED BY <1>1, <1>2, <1>4, <1>5, <1>6, <2>1, <2>2, OnwardSound
<1>9. QED BY <1>1, <1>5, <1>6, <1>7, <1>8, ListsStand

LEMMA OrderStands ==
  ASSUME Inv, NEW c \in Calls, CommitHolds(c) \/ CreateOrder(c)
  PROVE  Inv'
<1>1. /\ call[c].pc \in {"commit", "order"}
      /\ UNCHANGED << under, session, mishaps >>
      /\ held' \subseteq held /\ ordered' \subseteq ordered \cup {call[c].s}
      /\ Leave(c) \/ \E label \in {"order", "complete"} : Goto(c, label)
  BY Zenon DEF CommitHolds, CreateOrder
<1>2. call[c] \in CallStates /\ call[c].got \in SUBSET Holds /\ call[c].s \in Sessions
  BY DEF Inv, CallStates
<1>3. HeldApart /\ Documents' /\ Remain /\ \A s \in Sessions : session'[s].ids = session[s].ids
  <2>1. held' \subseteq Holds /\ ordered' \subseteq Sessions /\ mishaps' \in Nat
    BY <1>1, <1>2 DEF Inv, Documents
  <2>2. QED BY <1>1, <2>1, DocumentsStand DEF HeldApart
<1>4. CASE Leave(c)
  BY <1>1, <1>3, <1>4, LeaveStands
<1>5. CASE \E label \in {"order", "complete"} : Goto(c, label)
  <2> PICK label \in {"order", "complete"} : Goto(c, label)
    BY <1>5
  <2> PICK r : r = [pc |-> label, s |-> call[c].s, status |-> call[c].status,
                    ids |-> call[c].ids, fresh |-> call[c].fresh, aim |-> call[c].aim,
                    next |-> call[c].next, got |-> call[c].got]
    OBVIOUS
  <2>1. Suspend(c, r)
    BY <1>2, CarryTo, Zenon DEF Goto
  <2>2. label \in Labels \ {"release"}
    BY DEF Labels
  <2>3. Sound(r)'
    BY <1>1, <1>2, <1>3, <2>2, OnwardSound
  <2>4. QED BY <1>1, <1>3, <2>1, <2>3, ListsStand
<1>6. QED BY <1>1, <1>4, <1>5

-----------------------------------------------------------------------------
(* A call leaves the documents alone and ends.                             *)
LEMMA EndStands ==
  ASSUME Inv, NEW c \in Calls, Leave(c), UNCHANGED << under, session, held, ordered >>,
         mishaps' \in Nat
  PROVE  Inv'
<1>1. held' \subseteq Holds /\ ordered' \subseteq Sessions
  BY DEF Inv, Documents
<1>2. HeldApart /\ Documents' /\ Remain /\ \A s \in Sessions : session'[s].ids = session[s].ids
  BY <1>1, DocumentsStand DEF HeldApart
<1>3. QED BY <1>2, LeaveStands

LEMMA FallsShortStands ==
  ASSUME Inv, NEW c \in Calls, RunShort(c) \/ Die(c)
  PROVE  Inv'
<1>1. Leave(c) /\ UNCHANGED << under, session, held, ordered >>
  BY Zenon DEF RunShort, Die
<1>2. mishaps' \in Nat
  BY DEF RunShort, Die, Inv, Documents
<1>3. QED BY <1>1, <1>2, EndStands

(* A call saves its session's status and clock, no list, and ends, or goes *)
(* on to make a new session.                                               *)
LEMMA StatusStands ==
  ASSUME Inv, NEW c \in Calls, NEW s \in Sessions, NEW d \in SessionDocuments,
         d.status # "none", d.ids = session[s].ids, IndexAllows(s, d.status),
         session' = [session EXCEPT ![s] = d],
         UNCHANGED << under, held, ordered, mishaps >>,
         NEW r, r \in CallStates, Suspend(c, r),
         \/ r.pc \in {"idle", "create"}
         \/ r.pc \in {"ready", "rewrite"} /\ r.s = s
  PROVE  Inv'
<1>1. Documents' /\ Remain
  BY SavedStand
<1>2. \A t \in Sessions : session'[t].ids = session[t].ids
  BY DEF Inv, Documents
<1>3. session'[s].status # "none"
  BY DEF Inv, Documents
<1>4. Sound(r)'
  BY <1>3 DEF Sound
<1>5. HeldApart
  BY DEF HeldApart
<1>6. QED BY <1>1, <1>2, <1>4, <1>5, ListsStand

LEMMA GoOnSequel ==
  ASSUME NEW c \in Calls, Inv, NEW next \in Sequels, GoOnTo(c, next)
  PROVE  \E r \in CallStates : /\ Suspend(c, r)
                               /\ \/ r.pc \in {"idle", "create"}
                                  \/ r.pc = "rewrite" /\ r.s = call[c].s
<1>1. CASE next = "idle"
  BY <1>1, RestSound DEF GoOnTo, Leave
<1>2. CASE next # "idle"
  <2> DEFINE r == [call[c] EXCEPT !.pc = next]
  <2>1. call[c] \in CallStates
    BY DEF Inv
  <2>2. r \in CallStates /\ r.pc \in {"create", "rewrite"} /\ r.s = call[c].s
    BY <1>2, <2>1 DEF CallStates, Labels, Sequels
  <2>3. Suspend(c, r)
    BY <1>2 DEF GoOnTo, Goto
  <2> HIDE DEF r
  <2>4. QED BY <2>2, <2>3
<1>3. QED BY <1>1, <1>2

LEMMA CreateSessionStands ==
  ASSUME Inv, NEW c \in Calls, CreateSession(c)
  PROVE  Inv'
<1>1. UNCHANGED << under, mishaps, held, ordered >>
  BY DEF CreateSession
<1>2. CASE Leave(c) /\ UNCHANGED session
  BY <1>1, <1>2, EndStands DEF Inv, Documents
<1>3. CASE /\ IndexAllows(0, "open")
           /\ \E s \in Sessions \ Made :
                /\ session' = [session EXCEPT ![s] = [NoSession EXCEPT !.status = "open"]]
                /\ Suspend(c, [AtRest EXCEPT !.pc = "ready", !.s = s, !.status = "open"])
  <2>1. PICK s \in Sessions \ Made :
          /\ session' = [session EXCEPT ![s] = [NoSession EXCEPT !.status = "open"]]
          /\ Suspend(c, [AtRest EXCEPT !.pc = "ready", !.s = s, !.status = "open"])
    BY <1>3
  <2> DEFINE d == [NoSession EXCEPT !.status = "open"]
             r == [AtRest EXCEPT !.pc = "ready", !.s = s, !.status = "open"]
  <2>2. d \in SessionDocuments /\ d.status = "open" /\ d.ids = session[s].ids
    BY <2>1 DEF NoSession, SessionDocuments, Live, Made, Inv, Documents
  <2>3. r \in CallStates /\ r.pc = "ready" /\ r.s = s
    BY RestSound DEF CallStates, Labels, Live
  <2>4. IndexAllows(s, "open")
    BY <1>3, RestSound DEF IndexAllows, LiveSessions, Live
  <2>5. session' = [session EXCEPT ![s] = d] /\ Suspend(c, r)
    BY <2>1
  <2> HIDE DEF d, r
  <2>6. QED BY <1>1, <2>2, <2>3, <2>4, <2>5, StatusStands
<1>4. QED BY <1>2, <1>3 DEF CreateSession

LEMMA MakeReadyStands ==
  ASSUME Inv, NEW c \in Calls, MakeReady(c)
  PROVE  Inv'
<1>1. UNCHANGED << under, mishaps, held, ordered >> /\ call[c].pc = "ready"
  BY DEF MakeReady, SaveStatus
<1>2. CASE Leave(c) /\ UNCHANGED session
  BY <1>1, <1>2, EndStands DEF Inv, Documents
<1> PICK s, status : s = call[c].s /\ status = Written(c, "ready")
  OBVIOUS
<1>3. CASE IndexAllows(s, status) /\ session' = [session EXCEPT ![s].status = status] /\ Leave(c)
  <2>1. s \in Sessions /\ status \in Live \cup Closed
    BY <1>1, WrittenTyped DEF Live
  <2> PICK d : d = [session[s] EXCEPT !.status = status]
    OBVIOUS
  <2>2. d \in SessionDocuments /\ d.status = status /\ d.ids = session[s].ids
    BY <2>1 DEF SessionDocuments, Inv, Documents
  <2>3. session' = [session EXCEPT ![s] = d]
    BY <1>3
  <2>4. status # "none"
    BY <2>1 DEF Live, Closed
  <2>5. IndexAllows(s, d.status) /\ d.status # "none" /\ Suspend(c, AtRest)
    BY <1>3, <2>2, <2>4 DEF Leave
  <2>6. QED BY <1>1, <2>1, <2>2, <2>3, <2>5, StatusStands, RestSound
<1>4. QED BY <1>2, <1>3 DEF MakeReady, SaveStatus, GoOnTo

LEMMA ReopenStands ==
  ASSUME Inv, NEW c \in Calls, Reopen(c)
  PROVE  Inv'
<1>1. UNCHANGED << under, mishaps, held, ordered >> /\ call[c].pc = "reopen" /\ Leave(c)
  BY DEF Reopen
<1>2. CASE UNCHANGED session
  BY <1>1, <1>2, EndStands DEF Inv, Documents
<1> PICK s : s = call[c].s
  OBVIOUS
<1> PICK d : d = [status |-> "ready", ids |-> session[s].ids, due |-> FALSE]
  OBVIOUS
<1>3. CASE IndexAllows(s, "ready") /\ session' = [session EXCEPT ![s] = d]
  <2>1. s \in Sessions /\ session[s] \in SessionDocuments
    BY DEF Inv, Documents, CallStates
  <2>2. d \in SessionDocuments /\ d.status = "ready" /\ d.ids = session[s].ids
    BY <2>1 DEF SessionDocuments, Live
  <2>3. QED BY <1>1, <1>3, <2>1, <2>2, StatusStands, RestSound DEF Leave
<1>4. QED BY <1>2, <1>3 DEF Reopen

LEMMA CompleteStands ==
  ASSUME Inv, NEW c \in Calls, Complete(c)
  PROVE  Inv'
<1>1. UNCHANGED << under, mishaps, held, ordered >> /\ call[c].pc = "complete"
  BY DEF Complete
<1>2. CASE Leave(c) /\ UNCHANGED session
  BY <1>1, <1>2, EndStands DEF Inv, Documents
<1> PICK s, status : s = call[c].s /\ status = Written(c, "completed")
  OBVIOUS
<1> PICK d : d = [status |-> status, ids |-> session[s].ids, due |-> FALSE]
  OBVIOUS
<1>3. CASE session' = [session EXCEPT ![s] = d] /\ GoOnTo(c, call[c].next)
  <2>1. s \in Sessions /\ status \in Live \cup Closed /\ session[s] \in SessionDocuments
    BY <1>1, WrittenTyped DEF Closed, Inv, Documents
  <2>2. d \in SessionDocuments /\ d.status = status /\ d.ids = session[s].ids /\ status # "none"
    BY <2>1 DEF SessionDocuments, Live, Closed
  <2>3. IndexAllows(s, status)
    BY <2>1 DEF IndexAllows, Written, LiveSessions, Live, Inv, Documents
  <2>4. call[c].next \in Sequels
    BY DEF Inv, CallStates
  <2> PICK r \in CallStates : /\ Suspend(c, r)
                              /\ \/ r.pc \in {"idle", "create"}
                                 \/ r.pc = "rewrite" /\ r.s = s
    BY <1>3, <2>4, GoOnSequel
  <2>5. QED BY <1>1, <1>3, <2>1, <2>2, <2>3, StatusStands
<1>4. QED BY <1>2, <1>3 DEF Complete

-----------------------------------------------------------------------------
(* A list is replaced.                                                     *)
LEMMA RewriteStands ==
  ASSUME Inv, NEW c \in Calls, Rewrite(c)
  PROVE  Inv'
<1>1. UNCHANGED << under, mishaps, held, ordered >> /\ call[c].pc = "rewrite"
  BY DEF Rewrite
<1>2. CASE Leave(c) /\ UNCHANGED session
  BY <1>1, <1>2, EndStands DEF Inv, Documents
<1>3. ASSUME NEW s, s = call[c].s, NEW status, status = Written(c, "ready"), NEW due \in BOOLEAN,
             IndexAllows(s, status), ReplaceLists(c, AtRest),
             session' = [session EXCEPT ![s] = [status |-> status, ids |-> session[s].ids,
                                                due |-> due]]
      PROVE  Inv'
  <2>1. s \in Sessions /\ status \in Live \cup Closed /\ session[s] \in SessionDocuments
    BY <1>1, <1>3, WrittenTyped DEF Live, Inv, Documents
  <2> PICK d : d = [status |-> status, ids |-> session[s].ids, due |-> due]
    OBVIOUS
  <2>2. d \in SessionDocuments /\ d.status = status /\ status # "none"
    BY <2>1 DEF SessionDocuments, Live, Closed
  <2>3. session' = [session EXCEPT ![s] = d]
    BY <1>3
  <2>4. Documents' /\ Remain
    BY <1>1, <1>3, <2>1, <2>2, <2>3, SavedStand
  <2>5. \A t \in Sessions \ {call[c].s} : session'[t].ids = session[t].ids
    BY <1>3, <2>3 DEF Inv, Documents
  <2>6. QED BY <1>1, <1>3, <2>4, <2>5, RestSound, ReplacedStand
<1>4. CASE ~(Leave(c) /\ UNCHANGED session)
  <2> DEFINE s == call[c].s
             status == Written(c, "ready")
             due == ~(call[c].aim = "hold" /\ call[c].ids # {}) /\ session[s].due
  <2>1. /\ IndexAllows(s, status) /\ ReplaceLists(c, AtRest)
        /\ session' = [session EXCEPT ![s] = [status |-> status, ids |-> session[s].ids,
                                              due |-> due]]
    BY <1>4 DEF Rewrite
  <2>2. due \in BOOLEAN
    BY DEF Inv, Documents, CallStates, SessionDocuments
  <2> HIDE DEF s, status, due
  <2>3. QED BY <1>3, <2>1, <2>2 DEF s, status
<1>5. QED BY <1>2, <1>4

LEMMA RejectBagStands ==
  ASSUME Inv, NEW c \in Calls, RejectBag(c)
  PROVE  Inv'
<1>1. UNCHANGED << under, mishaps, held, ordered >> /\ call[c].pc = "reserve"
  BY DEF RejectBag
<1>2. CASE Leave(c) /\ UNCHANGED session
  BY <1>1, <1>2, EndStands DEF Inv, Documents
<1> PICK s : s = call[c].s
  OBVIOUS
<1>3. CASE session' = [session EXCEPT ![s].ids = {}] /\ ReplaceLists(c, AtRest)
  <2>1. s \in Sessions /\ session[s] \in SessionDocuments /\ session[s].status # "none"
    BY <1>1 DEF Inv, Documents, CallStates, Sound
  <2> PICK d : d = [session[s] EXCEPT !.ids = {}]
    OBVIOUS
  <2>2. d \in SessionDocuments /\ d.status = session[s].status
    BY <2>1 DEF SessionDocuments
  <2>3. session' = [session EXCEPT ![s] = d]
    BY <1>3
  <2>4. IndexAllows(s, d.status)
    BY <2>1, <2>2 DEF IndexAllows, LiveSessions, Inv, Documents
  <2>5. Documents' /\ Remain
    BY <1>1, <2>1, <2>2, <2>3, <2>4, SavedStand
  <2>6. \A t \in Sessions \ {call[c].s} : session'[t].ids = session[t].ids
    BY <2>3 DEF Inv, Documents
  <2>7. QED BY <1>1, <1>3, <2>5, <2>6, RestSound, ReplacedStand
<1>4. QED BY <1>2, <1>3 DEF RejectBag

LEMMA SaveHoldsStands ==
  ASSUME Inv, NEW c \in Calls, SaveHolds(c)
  PROVE  Inv'
<1>1. UNCHANGED << under, mishaps, held, ordered >> /\ call[c].pc = "save"
  BY DEF SaveHolds
<1>2. CASE Leave(c) /\ UNCHANGED session
  BY <1>1, <1>2, EndStands DEF Inv, Documents
<1>3. /\ call[c] \in CallStates /\ call[c].s \in Sessions /\ call[c].aim \in Aims
      /\ call[c].got \in SUBSET Holds /\ call[c].next \in Sequels
      /\ session[call[c].s] \in SessionDocuments
  BY DEF Inv, Documents, CallStates
<1> PICK s, status, due :
      /\ s = call[c].s /\ status = Written(c, StatusFor[call[c].aim])
      /\ due = IF call[c].aim = "expire" THEN session[s].due
               ELSE call[c].aim = "free" /\ NotDue(c)
  OBVIOUS
<1> PICK d : d = [status |-> status,
                  ids |-> IF call[c].ids # call[c].got THEN call[c].got ELSE session[s].ids,
                  due |-> due]
  OBVIOUS
<1> PICK r : r = IF call[c].next # "rewrite" THEN [AtRest EXCEPT !.pc = call[c].next]
                 ELSE [AtRest EXCEPT !.pc = call[c].next, !.s = s, !.status = "ready"]
  OBVIOUS
<1>4. CASE /\ IndexAllows(s, status) /\ session' = [session EXCEPT ![s] = d]
           /\ IF call[c].ids # call[c].got THEN ReplaceLists(c, r) ELSE Suspend(c, r)
  <2>1. StatusFor[call[c].aim] \in Live \cup Closed
    BY <1>3 DEF StatusFor, Aims, Live, Closed
  <2>2. status \in Live \cup Closed /\ due \in BOOLEAN
    <3>1. status \in Live \cup Closed /\ NotDue(c) \in BOOLEAN
      BY <1>1, <2>1, WrittenTyped
    <3>2. QED BY <1>3, <3>1 DEF SessionDocuments
  <2>3. d \in SessionDocuments /\ d.status = status /\ status # "none"
    BY <1>3, <2>2 DEF SessionDocuments, Live, Closed
  <2>4. Documents' /\ Remain
    BY <1>1, <1>3, <1>4, <2>3, SavedStand
  <2>5. /\ \A t \in Sessions \ {s} : session'[t].ids = session[t].ids
        /\ call[c].ids = call[c].got => session'[s].ids = session[s].ids
        /\ session'[s].status # "none"
    BY <1>3, <1>4, <2>3 DEF Inv, Documents
  <2>6. r \in CallStates /\ r.pc \in Sequels /\ (r.pc = "rewrite" => r.s = s)
    <3>1. CASE call[c].next # "rewrite"
      BY <1>3, <3>1, RestSound DEF CallStates, Labels, Sequels
    <3>2. CASE call[c].next = "rewrite"
      BY <1>3, <3>2, RestSound DEF CallStates, Labels, Sequels, Live
    <3>3. QED BY <3>1, <3>2
  <2>7. Sound(r)'
    BY <2>5, <2>6 DEF Sound, Sequels
  <2>8. CASE call[c].ids # call[c].got
    BY <1>1, <1>4, <2>4, <2>5, <2>7, <2>8, ReplacedStand
  <2>9. CASE call[c].ids = call[c].got
    <3>1. HeldApart /\ \A t \in Sessions : session'[t].ids = session[t].ids
      BY <1>1, <2>5, <2>9 DEF HeldApart
    <3>2. QED BY <1>1, <1>4, <2>4, <2>7, <2>9, <3>1, ListsStand
  <2>10. QED BY <2>8, <2>9
<1>5. QED BY <1>2, <1>4, Zenon DEF SaveHolds

-----------------------------------------------------------------------------
(* Clocks.                                                                 *)
LEMMA ClockStands ==
  ASSUME Inv, \/ \E s \in Sessions : SessionElapses(s)
              \/ \E h \in Holds : ExpireHold(h)
  PROVE  Inv'
<1>1. /\ UNCHANGED << under, mishaps, ordered, call >> /\ held' \subseteq held
  BY DEF SessionElapses, ExpireHold
<1>2. HeldApart
  BY <1>1 DEF HeldApart
<1>3. Documents' /\ Remain /\ \A t \in Sessions : session'[t].ids = session[t].ids
  <2>1. CASE \E h \in Holds : ExpireHold(h)
    <3>1. held' \subseteq Holds /\ ordered' \subseteq Sessions /\ mishaps' \in Nat
      BY <1>1 DEF Inv, Documents
    <3>2. QED BY <1>1, <2>1, <3>1, DocumentsStand DEF ExpireHold
  <2>2. ASSUME NEW s \in Sessions, SessionElapses(s)
        PROVE  Documents' /\ Remain /\ \A t \in Sessions : session'[t].ids = session[t].ids
    <3> PICK d : d = [session[s] EXCEPT !.due = TRUE]
      OBVIOUS
    <3>1. session[s] \in SessionDocuments
      BY DEF Inv, Documents
    <3>2. d \in SessionDocuments /\ d.status = session[s].status /\ d.ids = session[s].ids
      BY <3>1 DEF SessionDocuments
    <3>3. session' = [session EXCEPT ![s] = d] /\ UNCHANGED << under, mishaps, held, ordered >>
      BY <2>2 DEF SessionElapses
    <3>4. d.status # "none"
      BY <2>2, <3>2 DEF SessionElapses, Inv, Documents
    <3>5. IndexAllows(s, d.status)
      BY <3>2 DEF IndexAllows, LiveSessions, Inv, Documents
    <3>6. QED BY <3>2, <3>3, <3>4, <3>5, SavedStand DEF Inv, Documents
  <2>3. QED BY <2>1, <2>2
<1>4. \A d \in Calls : Sound(call[d])'
  <2> SUFFICES ASSUME NEW d \in Calls PROVE Sound(call[d])'
    OBVIOUS
  <2>1. call[d].s \in Sessions
    BY DEF Inv, CallStates
  <2>2. QED BY <1>1, <1>2, <1>3, <2>1, CopyStands
<1>5. QED BY <1>1, <1>3, <1>4 DEF Inv

LEMMA InitStands == Init => Inv
<1> SUFFICES ASSUME Init PROVE Inv
  OBVIOUS
<1>1. Documents
  BY DEF Init, Documents, NoSession, SessionDocuments, LiveSessions, Live, Closed
<1>2. QED BY <1>1, RestSound DEF Init, Inv

LEMMA NextStands ==
  ASSUME Inv, [Next]_vars
  PROVE  Inv'
<1>1. CASE UNCHANGED vars
  BY <1>1 DEF vars, Inv, Documents, LiveSessions, Sound
<1>2. ASSUME NEW c \in Calls, GoOn(c) PROVE Inv'
  <2>1. CASE ReleaseHolds(c)
    BY <2>1, ReleaseHoldsStands
  <2>2. CASE TakeHold(c)
    BY <2>2, TakeHoldStands
  <2>3. CASE CommitHolds(c) \/ CreateOrder(c)
    BY <2>3, OrderStands
  <2>4. CASE RunShort(c)
    BY <2>4, FallsShortStands
  <2>5. CASE CreateSession(c)
    BY <2>5, CreateSessionStands
  <2>6. CASE MakeReady(c)
    BY <2>6, MakeReadyStands
  <2>7. CASE Reopen(c)
    BY <2>7, ReopenStands
  <2>8. CASE Complete(c)
    BY <2>8, CompleteStands
  <2>9. CASE Rewrite(c)
    BY <2>9, RewriteStands
  <2>10. CASE RejectBag(c)
    BY <2>10, RejectBagStands
  <2>11. CASE SaveHolds(c)
    BY <2>11, SaveHoldsStands
  <2>12. QED BY <1>2, <2>1, <2>2, <2>3, <2>4, <2>5, <2>6, <2>7, <2>8, <2>9, <2>10, <2>11 DEF GoOn
<1>3. QED BY <1>1, <1>2, BeginStands, FallsShortStands, ClockStands DEF Next

THEOREM InvAlways == Spec => []Inv
BY InitStands, NextStands, PTL DEF Spec

(* The documents and the suspended calls keep their types.                 *)
THEOREM TypeCorrect == Spec => []TypeOK
<1>1. Inv => TypeOK
  BY DEF Inv, Documents, TypeOK
<1>2. QED BY <1>1, InvAlways, PTL

(* Whichever calls race to start a session, to open one again for a        *)
(* payment, to save a status they had read or to let a hold run out: the   *)
(* customer never has two sessions that can be paid.                       *)
THEOREM OneLiveSessionAlways == Spec => []OneLiveSession
<1>1. Inv => OneLiveSession
  <2> SUFFICES ASSUME Inv PROVE Cardinality(LiveSessions) <= 1
    BY DEF OneLiveSession
  <2>1. CASE LiveSessions = {}
    BY <2>1, FS_EmptySet
  <2>2. CASE LiveSessions # {}
    <3>1. PICK s \in LiveSessions : TRUE
      BY <2>2
    <3>2. LiveSessions = {s}
      BY <3>1 DEF Inv, Documents
    <3>3. Cardinality(LiveSessions) = 1
      BY <3>2, FS_Singleton
    <3>4. QED BY <3>3
  <2>3. QED BY <2>1, <2>2
<1>2. QED BY <1>1, InvAlways, PTL

-----------------------------------------------------------------------------
(* A list of holds is only replaced by a save whose copy of it was still   *)
(* good, and whose holds were given back before.                           *)
LEMMA ListKept ==
  ASSUME Inv, NEW c \in Calls, ~under.crash, MaySave(c, TRUE),
         call[c].pc \in {"reserve", "save"}
  PROVE  session[call[c].s].ids \cap held = {}
BY DEF Inv, Sound, MaySave

LEMMA GoOnKeeps ==
  ASSUME Inv, NEW c \in Calls, GoOn(c), ~under.crash, NEW s \in Sessions
  PROVE  session[s].ids \cap held \subseteq session'[s].ids
<1>1. session \in [Sessions -> SessionDocuments]
  BY DEF Inv, Documents
<1>2. CASE UNCHANGED session
  BY <1>2
<1>3. CASE CreateSession(c)
  BY <1>1, <1>3 DEF CreateSession, Made, Inv, Documents
<1>4. CASE MakeReady(c)
  BY <1>1, <1>4 DEF MakeReady, SaveStatus, SessionDocuments
<1>5. CASE Reopen(c) \/ Complete(c)
  <2>1. PICK t, status : \/ session' = [session EXCEPT ![t] = [status |-> status, ids |-> @.ids,
                                                               due |-> FALSE]]
                         \/ UNCHANGED session
    BY <1>5, Zenon DEF Reopen, Complete
  <2>2. QED BY <1>1, <2>1
<1>6. CASE Rewrite(c)
  <2>1. PICK status, due :
          \/ session' = [session EXCEPT ![call[c].s] =
                           [status |-> status, ids |-> session[call[c].s].ids, due |-> due]]
          \/ UNCHANGED session
    BY <1>6, Zenon DEF Rewrite
  <2>2. QED BY <1>1, <2>1
<1>7. CASE RejectBag(c) /\ ~UNCHANGED session
  <2>1. /\ call[c].pc = "reserve" /\ MaySave(c, TRUE)
        /\ session' = [session EXCEPT ![call[c].s].ids = {}]
    BY <1>7 DEF RejectBag
  <2>2. session[call[c].s].ids \cap held = {}
    BY <2>1, ListKept
  <2>3. QED BY <1>1, <2>1, <2>2 DEF SessionDocuments
<1>8. CASE SaveHolds(c) /\ ~UNCHANGED session
  <2>1. PICK status, due :
          /\ call[c].pc = "save" /\ MaySave(c, call[c].ids # call[c].got)
          /\ session' = [session EXCEPT ![call[c].s] =
               [status |-> status,
                ids |-> IF call[c].ids # call[c].got THEN call[c].got
                        ELSE session[call[c].s].ids,
                due |-> due]]
    BY <1>8, Zenon DEF SaveHolds
  <2>2. CASE call[c].ids = call[c].got
    BY <1>1, <2>1, <2>2
  <2>3. CASE call[c].ids # call[c].got
    <3>1. session[call[c].s].ids \cap held = {}
      BY <2>1, <2>3, ListKept DEF MaySave
    <3>2. QED BY <1>1, <2>1, <2>3, <3>1
  <2>4. QED BY <2>2, <2>3
<1>9. CASE ReleaseHolds(c) \/ TakeHold(c) \/ RunShort(c) \/ CommitHolds(c) \/ CreateOrder(c)
  BY <1>9 DEF ReleaseHolds, TakeHold, RunShort, CommitHolds, CreateOrder
<1>10. QED
  BY <1>2, <1>3, <1>4, <1>5, <1>6, <1>7, <1>8, <1>9 DEF GoOn

(* As long as no release fails, a session never drops a hold that still    *)
(* keeps stock, whatever calls overlap on it.                              *)
THEOREM ListedHoldsAlwaysKept == Spec => ListedHoldsAreKept
<1>1. Inv /\ [Next]_vars =>
        [~under.crash => \A s \in Sessions : session[s].ids \cap held \subseteq session'[s].ids]_vars
  <2> SUFFICES ASSUME Inv, [Next]_vars, ~under.crash, NEW s \in Sessions
               PROVE  session[s].ids \cap held \subseteq session'[s].ids
    OBVIOUS
  <2>1. CASE UNCHANGED session
    BY <2>1
  <2>2. ASSUME NEW c \in Calls, Begin(c) PROVE UNCHANGED session
    BY <2>2, Zenon DEF Begin, Start, View, Reserve, Release, Cancel, ExpireSession, Refresh, Pay,
                       FreeHolds, Fulfil
  <2>3. ASSUME NEW t \in Sessions, SessionElapses(t)
        PROVE  session[s].ids \cap held \subseteq session'[s].ids
    BY <2>3 DEF SessionElapses, Inv, Documents, SessionDocuments
  <2>4. QED BY <2>1, <2>2, <2>3, GoOnKeeps DEF Next, vars, Die, ExpireHold
<1>2. QED BY <1>1, InvAlways, PTL DEF Spec, ListedHoldsAreKept

-----------------------------------------------------------------------------
(* One call at a time, stock at hand and nothing dying: the holds that     *)
(* keep stock are listed by a session or were just taken by the call under *)
(* way, which nothing will keep from recording them: its copy is good and  *)
(* its session live.                                                       *)
Calm == ~under.overlap /\ ~under.short /\ ~under.crash

OneAtATime == \A c, d \in Calls : call[c].pc # "idle" /\ call[d].pc # "idle" => c = d

Listed == UNION {session[s].ids : s \in Sessions}
Got == UNION {call[c].got : c \in Calls}

Reserving(r) ==
  /\ r.got # {} => r.pc \in {"reserve", "save"} /\ r.aim = "hold"
  /\ r.pc = "reserve" => r.aim = "hold"
  /\ r.pc \in {"release", "reserve", "save"} /\ r.aim = "hold" =>
       r.fresh /\ session[r.s].status \in Live

TurnInv ==
  Calm => OneAtATime /\ held \subseteq Listed \cup Got /\ \A c \in Calls : Reserving(call[c])

LEMMA RestReserves ==
  AtRest.pc = "idle" /\ AtRest.got = {} /\ Reserving(AtRest) /\ Reserving(AtRest)'
  BY DEF AtRest, Reserving

(* What a call makes of itself, and that it leaves the others at rest.     *)
LEMMA OthersRest ==
  ASSUME Inv, TurnInv, Calm, NEW c \in Calls, Begin(c) \/ GoOn(c)
  PROVE  /\ under' = under
         /\ \A d \in Calls : d # c => call[d].pc = "idle" /\ call[d].got = {} /\ call'[d] = call[d]
<1>1. ASSUME Begin(c) PROVE Quiet
  <2>1. MayBegin(c)
    BY <1>1, Zenon DEF Begin, Start, View, Reserve, Release, Cancel, ExpireSession, Refresh, Pay,
                       FreeHolds, Fulfil
  <2>2. QED BY <2>1 DEF MayBegin, Calm
<1>2. ASSUME GoOn(c) PROVE call[c].pc # "idle"
  BY <1>2 DEF GoOn, CreateSession, MakeReady, Rewrite, ReleaseHolds, TakeHold, RunShort, RejectBag,
              SaveHolds, Reopen, CommitHolds, CreateOrder, Complete
<1>3. \A d \in Calls : d # c => call[d].pc = "idle" /\ call[d].got = {}
  BY <1>1, <1>2 DEF Quiet, TurnInv, OneAtATime, Reserving
<1>4. (\E r : Suspend(c, r)) \/ (\E r : ReplaceLists(c, r))
  <2>1. CASE Begin(c)
    BY <2>1, Zenon DEF Begin, Start, View, Reserve, Release, Cancel, ExpireSession, Refresh, Pay,
                       FreeHolds, Fulfil, Read
  <2>2. CASE GoOn(c)
    BY <2>2, Zenon DEF GoOn, CreateSession, MakeReady, SaveStatus, Rewrite, ReleaseHolds, TakeHold,
                       RunShort, RejectBag, SaveHolds, Reopen, CommitHolds, CreateOrder, Complete,
                       Leave, Goto, GoOnTo
  <2>3. QED BY <2>1, <2>2
<1>5. \A d \in Calls : d # c => call'[d] = call[d]
  BY <1>3, <1>4 DEF Suspend, ReplaceLists, Inv
<1>6. under' = under
  <2>1. CASE Begin(c)
    BY <2>1, Zenon DEF Begin, Start, View, Reserve, Release, Cancel, ExpireSession, Refresh, Pay,
                       FreeHolds, Fulfil
  <2>2. CASE GoOn(c)
    BY <2>2, Zenon DEF GoOn, CreateSession, MakeReady, SaveStatus, Rewrite, ReleaseHolds, TakeHold,
                       RunShort, RejectBag, SaveHolds, Reopen, CommitHolds, CreateOrder, Complete
  <2>3. QED BY <2>1, <2>2
<1>7. QED BY <1>3, <1>5, <1>6

LEMMA TurnPasses ==
  ASSUME Inv, TurnInv, Calm, NEW c \in Calls, Begin(c) \/ GoOn(c),
         Reserving(call[c])', held' \subseteq Listed' \cup call'[c].got
  PROVE  TurnInv'
<1>1. \A d \in Calls : d # c => call'[d].pc = "idle" /\ call'[d].got = {}
  BY OthersRest
<1>2. OneAtATime'
  BY <1>1 DEF OneAtATime
<1>3. \A d \in Calls : Reserving(call[d])'
  BY <1>1 DEF Reserving
<1>4. held' \subseteq Listed' \cup Got'
  BY DEF Got
<1>5. QED BY <1>2, <1>3, <1>4 DEF TurnInv

LEMMA HeldByOne ==
  ASSUME Inv, TurnInv, Calm, NEW c \in Calls, Begin(c) \/ GoOn(c)
  PROVE  held \subseteq Listed \cup call[c].got /\ Reserving(call[c])
<1>1. \A d \in Calls : d # c => call[d].got = {}
  BY OthersRest
<1>2. QED BY <1>1 DEF TurnInv, Got

(* A step that takes no hold, of a call that has none in its hands.        *)
LEMMA NothingTaken ==
  ASSUME Inv, TurnInv, Calm, NEW c \in Calls, Begin(c) \/ GoOn(c),
         call[c].got = {}, held' \subseteq held, Reserving(call[c])',
         \A s \in Sessions : session[s].ids \cap held \subseteq session'[s].ids
  PROVE  TurnInv'
<1>1. held \subseteq Listed
  BY HeldByOne
<1>2. held' \subseteq Listed'
  BY <1>1 DEF Listed
<1>3. QED BY <1>2, TurnPasses

LEMMA TurnBegins ==
  ASSUME Inv, TurnInv, Calm, NEW c \in Calls, Begin(c)
  PROVE  TurnInv'
<1>1. UNCHANGED << under, session, held >>
  BY Zenon DEF Begin, Start, View, Reserve, Release, Cancel, ExpireSession, Refresh, Pay, FreeHolds,
               Fulfil
<1>2. call[c].got = {}
  <2>1. MayBegin(c)
    BY Zenon DEF Begin, Start, View, Reserve, Release, Cancel, ExpireSession, Refresh, Pay, FreeHolds,
                 Fulfil
  <2>2. QED BY <2>1 DEF MayBegin, TurnInv, Reserving
<1>3. ASSUME NEW s, NEW label, NEW aim, NEW next, Read(c, s, label, aim, next),
             aim # "hold" \/ label = "rewrite" \/ session[s].status \in Live,
             label = "reserve" => aim = "hold"
      PROVE  Reserving(call[c])'
  <2> DEFINE r == [pc |-> label, s |-> s, status |-> session[s].status, ids |-> session[s].ids,
                   fresh |-> TRUE, aim |-> aim, next |-> next, got |-> {}]
  <2>1. call'[c] = r
    BY <1>3 DEF Read, Suspend, Inv
  <2>2. r.got = {} /\ r.pc = label /\ r.aim = aim /\ r.fresh /\ r.s = s
    OBVIOUS
  <2> HIDE DEF r
  <2>3. QED BY <1>1, <1>3, <2>1, <2>2 DEF Reserving
<1>4. ASSUME NEW buyNow \in BOOLEAN, Start(c, buyNow) PROVE Reserving(call[c])'
  <2>1. CASE Suspend(c, [AtRest EXCEPT !.pc = "create"])
    <3>1. call'[c] = [AtRest EXCEPT !.pc = "create"]
      BY <2>1 DEF Suspend, Inv
    <3>2. call'[c].got = {} /\ call'[c].pc = "create"
      BY <3>1 DEF AtRest
    <3>3. QED BY <3>2 DEF Reserving
  <2>2. CASE \E s, next : \E label \in {"release", "complete", "rewrite"},
                                 aim \in {"free", "cancel", "expire"} : Read(c, s, label, aim, next)
    BY <1>3, <2>2
  <2>3. QED BY <1>4, <2>1, <2>2, Zenon DEF Start
<1>5. ASSUME NEW s \in Sessions,
             \/ View(c, s) \/ Release(c, s) \/ Cancel(c, s) \/ ExpireSession(c, s)
             \/ Pay(c, s) \/ FreeHolds(c, s) \/ Fulfil(c, s)
      PROVE  Reserving(call[c])'
  <2>1. \E label \in {"release", "ready", "reopen", "commit"}, aim \in {"free", "cancel"} :
          Read(c, s, label, aim, "idle")
    BY <1>5, Zenon DEF View, Release, Cancel, ExpireSession, Pay, FreeHolds, Fulfil
  <2>2. QED BY <1>3, <2>1
<1>6. ASSUME NEW s \in Sessions, NEW aim, Refresh(c, s, aim) PROVE Reserving(call[c])'
  <2>1. session[s].status \in Live /\ \E next, m : \E label \in {"release", "rewrite"} :
                                      Read(c, s, label, m, next)
    BY <1>6, Zenon DEF Refresh
  <2>2. QED BY <1>3, <2>1
<1>7. ASSUME NEW s \in Sessions, Reserve(c, s) PROVE Reserving(call[c])'
  <2>1. session[s].status \in Live /\ \E label : Read(c, s, label, "hold", "idle")
    BY <1>7, Zenon DEF Reserve
  <2>2. QED BY <1>3, <2>1
<1>8. Reserving(call[c])'
  BY <1>4, <1>5, <1>6, <1>7 DEF Begin
<1>9. QED BY <1>1, <1>2, <1>8, NothingTaken

(* The save of a call that has taken holds goes through, and lists them.   *)
LEMMA TurnSaves ==
  ASSUME Inv, TurnInv, Calm, NEW c \in Calls, SaveHolds(c)
  PROVE  TurnInv'
<1>1. held' = held /\ call[c].pc = "save" /\ GoOn(c) /\ call[c].s \in Sessions /\ call[c].next \in Sequels
  BY DEF SaveHolds, GoOn, Inv, CallStates
<1>2. Reserving(call[c]) /\ held \subseteq Listed \cup call[c].got /\ Sound(call[c])
  BY <1>1, HeldByOne DEF Inv
<1>3. call'[c].got = {} /\ call'[c].pc \in Sequels
  <2> PICK r : r = IF call[c].next # "rewrite" THEN [AtRest EXCEPT !.pc = call[c].next]
                   ELSE [AtRest EXCEPT !.pc = call[c].next, !.s = call[c].s, !.status = "ready"]
    OBVIOUS
  <2>1. r.got = {} /\ r.pc = call[c].next
    BY DEF AtRest
  <2>2. Leave(c) \/ Suspend(c, r) \/ ReplaceLists(c, r)
    BY Zenon DEF SaveHolds
  <2>3. CASE Leave(c)
    BY <2>3, RestReserves DEF Leave, Suspend, Inv, Sequels
  <2>4. CASE Suspend(c, r) \/ ReplaceLists(c, r)
    BY <1>1, <2>1, <2>4 DEF Suspend, ReplaceLists, Inv
  <2>5. QED BY <2>2, <2>3, <2>4
<1>4. Reserving(call[c])'
  BY <1>3 DEF Reserving, Sequels
<1>5. \A s \in Sessions : session[s].ids \cap held \subseteq session'[s].ids
  BY <1>1, GoOnKeeps DEF Calm
<1>6. CASE call[c].got = {}
  BY <1>1, <1>4, <1>5, <1>6, NothingTaken
<1>7. CASE call[c].got # {}
  <2>1. call[c].aim = "hold" /\ call[c].fresh /\ session[call[c].s].status \in Live
    BY <1>1, <1>2, <1>7 DEF Reserving
  <2>2. session[call[c].s].ids = call[c].ids
    BY <1>1, <1>2, <2>1 DEF Sound
  <2>3. LiveSessions \subseteq {call[c].s}
    BY <1>1, <2>1 DEF LiveSessions, Inv, Documents
  <2>4. \A touches, status : MaySave(c, touches) /\ IndexAllows(call[c].s, status)
    BY <2>1, <2>3 DEF MaySave, IndexAllows
  <2>5. PICK status, due :
          session' = [session EXCEPT ![call[c].s] =
             [status |-> status,
              ids |-> IF call[c].ids # call[c].got THEN call[c].got ELSE session[call[c].s].ids,
              due |-> due]]
    BY <2>4, Zenon DEF SaveHolds
  <2>6. session'[call[c].s].ids = call[c].got
    BY <1>1, <2>2, <2>5 DEF Inv, Documents
  <2>7. held' \subseteq Listed'
    BY <1>1, <1>2, <1>5, <2>6 DEF Listed
  <2>8. QED BY <1>1, <1>4, <2>7, TurnPasses
<1>8. QED BY <1>6, <1>7

LEMMA TurnTakes ==
  ASSUME Inv, TurnInv, Calm, NEW c \in Calls, TakeHold(c)
  PROVE  TurnInv'
<1>1. call[c].pc = "reserve" /\ UNCHANGED << under, session >> /\ GoOn(c) /\ call[c] \in CallStates
  BY DEF TakeHold, GoOn, Inv
<1>2. Reserving(call[c]) /\ held \subseteq Listed \cup call[c].got
  BY <1>1, HeldByOne
<1>3. PICK h : /\ held' = held \cup {h}
               /\ Suspend(c, [call[c] EXCEPT !.got = call[c].got \cup {h},
                                             !.pc = IF Cardinality(call[c].got) + 1 = Lines
                                                    THEN "save" ELSE call[c].pc])
  BY Zenon DEF TakeHold
<1> PICK label \in {"reserve", "save"} :
      Suspend(c, [call[c] EXCEPT !.got = call[c].got \cup {h}, !.pc = label])
  BY <1>1, <1>3
<1> DEFINE r == [call[c] EXCEPT !.got = call[c].got \cup {h}, !.pc = label]
<1>4. r.pc = label /\ r.got = call[c].got \cup {h} /\ r.aim = call[c].aim /\ r.fresh = call[c].fresh
      /\ r.s = call[c].s
  BY <1>1, CarryHold, ZenonT(40)
<1>5. call'[c] = r
  BY DEF Suspend, Inv
<1> HIDE DEF r
<1>6. held' \subseteq Listed' \cup call'[c].got
  BY <1>1, <1>2, <1>3, <1>4, <1>5 DEF Listed
<1>7. Reserving(call[c])'
  BY <1>1, <1>2, <1>4, <1>5 DEF Reserving
<1>8. QED BY <1>1, <1>6, <1>7, TurnPasses

(* The other steps neither take a hold nor have one in their hands.        *)
LEMMA OnwardTurns ==
  ASSUME Inv, TurnInv, Calm, NEW c \in Calls, GoOn(c), ~SaveHolds(c), ~TakeHold(c)
  PROVE  TurnInv'
<1>1. call[c] \in CallStates /\ call[c].s \in Sessions /\ call[c].next \in Sequels /\ Reserving(call[c])
  BY HeldByOne DEF Inv, CallStates
<1>2. \A s \in Sessions : session[s].ids \cap held \subseteq session'[s].ids
  BY GoOnKeeps DEF Calm
<1>3. ASSUME NEW label, Goto(c, label), call[c].got = {}
      PROVE  /\ call'[c].pc = label /\ call'[c].got = {} /\ call'[c].aim = call[c].aim
             /\ call'[c].fresh = call[c].fresh /\ call'[c].s = call[c].s
  <2> DEFINE r == [call[c] EXCEPT !.pc = label]
  <2>1. /\ r.pc = label /\ r.got = {} /\ r.aim = call[c].aim /\ r.fresh = call[c].fresh
        /\ r.s = call[c].s
    BY <1>1, <1>3, CarryTo
  <2>2. call'[c] = r
    BY <1>3 DEF Goto, Suspend, Inv
  <2> HIDE DEF r
  <2>3. QED BY <2>1, <2>2
<1>4. Leave(c) \/ ReplaceLists(c, AtRest) => call'[c].pc = "idle" /\ call'[c].got = {}
  BY RestReserves DEF Leave, Suspend, ReplaceLists, Inv
<1>5. ASSUME held' \subseteq held, call[c].got = {}, call'[c].got = {},
             call'[c].pc \notin {"release", "reserve", "save"}
      PROVE  TurnInv'
  <2>1. Reserving(call[c])'
    BY <1>5 DEF Reserving
  <2>2. QED BY <1>2, <1>5, <2>1, NothingTaken
<1>6. CASE ReleaseHolds(c)
  <2>1. /\ call[c].pc = "release" /\ session' = session /\ held' \subseteq held
        /\ Goto(c, IF call[c].aim = "hold" THEN "reserve" ELSE "save")
    BY <1>6 DEF ReleaseHolds
  <2>2. call[c].got = {}
    BY <1>1, <2>1 DEF Reserving
  <2>3. Reserving(call[c])'
    BY <1>1, <1>3, <2>1, <2>2 DEF Reserving
  <2>4. QED BY <1>2, <2>1, <2>2, <2>3, NothingTaken
<1>7. CASE CreateSession(c)
  <2>1. held' = held /\ call[c].got = {}
    BY <1>1, <1>7 DEF CreateSession, Reserving
  <2>2. call'[c].got = {} /\ call'[c].pc \in {"idle", "ready"}
    <3>1. CASE Leave(c)
      BY <1>4, <3>1
    <3>2. ASSUME NEW s, Suspend(c, [AtRest EXCEPT !.pc = "ready", !.s = s, !.status = "open"])
          PROVE  call'[c].got = {} /\ call'[c].pc \in {"idle", "ready"}
      <4>1. call'[c] = [AtRest EXCEPT !.pc = "ready", !.s = s, !.status = "open"]
        BY <3>2 DEF Suspend, Inv
      <4>2. QED BY <4>1 DEF AtRest
    <3>3. QED BY <1>7, <3>1, <3>2, Zenon DEF CreateSession
  <2>3. QED BY <1>5, <2>1, <2>2
<1>8. CASE MakeReady(c) \/ Rewrite(c) \/ Reopen(c)
  <2>1. /\ held' = held /\ call[c].pc \in {"ready", "rewrite", "reopen"}
        /\ Leave(c) \/ ReplaceLists(c, AtRest)
    BY <1>8, Zenon DEF MakeReady, SaveStatus, GoOnTo, Rewrite, Reopen
  <2>2. call[c].got = {}
    BY <1>1, <2>1 DEF Reserving
  <2>3. QED BY <1>4, <1>5, <2>1, <2>2
<1>9. CASE CommitHolds(c) \/ CreateOrder(c) \/ Complete(c)
  <2>1. /\ held' \subseteq held /\ call[c].pc \in {"commit", "order", "complete"}
        /\ Leave(c) \/ \E label \in {"order", "complete"} \cup Sequels : Goto(c, label)
    BY <1>1, <1>9, Zenon DEF CommitHolds, CreateOrder, Complete, GoOnTo
  <2>2. call[c].got = {}
    BY <1>1, <2>1 DEF Reserving
  <2>3. call'[c].got = {} /\ call'[c].pc \in {"idle", "order", "complete"} \cup Sequels
    BY <1>3, <1>4, <2>1, <2>2
  <2>4. QED BY <1>5, <2>1, <2>2, <2>3 DEF Sequels
<1>10. ~RunShort(c) /\ ~RejectBag(c)
  BY DEF RunShort, RejectBag, Calm
<1>11. QED BY <1>6, <1>7, <1>8, <1>9, <1>10 DEF GoOn

LEMMA NextTurn == Inv /\ TurnInv /\ [Next]_vars => TurnInv'
<1> SUFFICES ASSUME Inv, TurnInv, [Next]_vars, Calm' PROVE TurnInv'
  BY DEF TurnInv
<1>1. CASE UNCHANGED << under, session, held, call >>
  BY <1>1 DEF TurnInv, Calm, OneAtATime, Listed, Got, Reserving
<1>2. under' = under /\ Calm
  <2>1. ASSUME NEW c \in Calls, Begin(c) PROVE under' = under
    BY <2>1, Zenon DEF Begin, Start, View, Reserve, Release, Cancel, ExpireSession, Refresh, Pay,
                       FreeHolds, Fulfil
  <2>2. ASSUME NEW c \in Calls, GoOn(c) PROVE under' = under
    BY <2>2, Zenon DEF GoOn, CreateSession, MakeReady, SaveStatus, Rewrite, ReleaseHolds, TakeHold,
                       RunShort, RejectBag, SaveHolds, Reopen, CommitHolds, CreateOrder, Complete
  <2>3. under' = under
    BY <2>1, <2>2 DEF Next, vars, Die, ExpireHold, SessionElapses
  <2>4. QED BY <2>3 DEF Calm
<1>3. ASSUME NEW c \in Calls, Begin(c) \/ GoOn(c) PROVE TurnInv'
  BY <1>2, <1>3, TurnBegins, TurnSaves, TurnTakes, OnwardTurns
<1>4. ASSUME NEW c \in Calls, Die(c) PROVE FALSE
  BY <1>2, <1>4 DEF Die, Calm
<1>5. CASE (\E h \in Holds : ExpireHold(h)) \/ (\E s \in Sessions : SessionElapses(s))
  <2>1. /\ call' = call /\ held' \subseteq held
        /\ \A s \in Sessions : session'[s].ids = session[s].ids /\ session'[s].status = session[s].status
    BY <1>5 DEF ExpireHold, SessionElapses, Inv, Documents, SessionDocuments
  <2>2. \A c \in Calls : call[c].s \in Sessions
    BY DEF Inv, CallStates
  <2>3. \A c \in Calls : Reserving(call[c])'
    BY <1>2, <2>1, <2>2 DEF TurnInv, Reserving
  <2>4. held' \subseteq Listed' \cup Got'
    BY <1>2, <2>1 DEF TurnInv, Listed, Got
  <2>5. OneAtATime'
    BY <1>2, <2>1 DEF TurnInv, OneAtATime
  <2>6. QED BY <2>3, <2>4, <2>5 DEF TurnInv
<1>6. QED BY <1>1, <1>3, <1>4, <1>5 DEF Next, vars

(* One call at a time, stock at hand and nothing dying: between calls      *)
(* every hold that keeps stock is one that a session lists.                *)
THEOREM HoldsAlwaysListed == Spec => []HoldsAreListed
<1>1. Init => TurnInv
  BY RestReserves DEF Init, TurnInv, OneAtATime
<1>2. Inv /\ TurnInv => HoldsAreListed
  BY DEF TurnInv, HoldsAreListed, Calm, Reserving, Listed, Got
<1>3. QED BY <1>1, <1>2, NextTurn, InvAlways, PTL DEF Spec

=============================================================================
