-------------------------- MODULE RemindersProofs --------------------------
(***************************************************************************)
(* Theorems about Reminders, for any number of runs, start times, offsets    *)
(* and moves.                                                                *)
(***************************************************************************)
EXTENDS Reminders, TLAPS

USE FarthestAssumption, MovesAssumption

---------------------------------------------------------------------------
(* Types.                                                                  *)

LEMMA TypedInit == Init => TypeOK
<1> SUFFICES ASSUME Init PROVE TypeOK
    OBVIOUS
<1>1. event \in Event
    <2>1. event \in [on : {TRUE}, start : Times, before : 0 .. Farthest + 1, sent : {{}},
                    edition : {0}]
        BY DEF Init
    <2>2. PICK s \in Times, b \in 0 .. Farthest + 1 :
            event = [on |-> TRUE, start |-> s, before |-> b, sent |-> {}, edition |-> 0]
        BY <2>1
    <2> QED BY <2>2 DEF Event
<1>2. event.start \in Times
    BY <1>1 DEF Event
<1>3. [pc |-> "idle", start |-> event.start, marks |-> {}, edition |-> 0] \in Run
    BY <1>2 DEF Run
<1>4. runs \in [Runs -> Run]
    BY <1>3 DEF Init
<1> QED BY <1>1, <1>4 DEF Init, TypeOK

LEMMA Going ==
    ASSUME TypeOK, NEW p \in Runs, NEW pc \in {"idle", "claim", "deliver", "release"}, Goes(p, pc)
    PROVE  /\ runs' \in [Runs -> Run]
           /\ runs'[p] = [runs[p] EXCEPT !.pc = pc]
           /\ \A q \in Runs \ {p} : runs'[q] = runs[q]
BY DEF TypeOK, Goes, Run

LEMMA Reading ==
    ASSUME TypeOK, NEW p \in Runs, ReadDue(p)
    PROVE  /\ runs' \in [Runs -> Run]
           /\ runs'[p].pc = "claim"
           /\ \A q \in Runs \ {p} : runs'[q] = runs[q]
BY DEF TypeOK, ReadDue, Run, Event, Due, Offsets

\* What a granted claim writes.
LEMMA Claiming ==
    ASSUME TypeOK, NEW p \in Runs, Claim(p), Claimable(p)
    PROVE  /\ event' \in Event /\ runs' \in [Runs -> Run]
           /\ event'.edition = event.edition
           /\ event'.sent = event.sent \cup runs[p].marks
           /\ runs'[p] = [runs[p] EXCEPT !.pc = "deliver", !.edition = event.edition]
           /\ \A q \in Runs \ {p} : runs'[q] = runs[q]
<1>1. event \in Event /\ runs[p] \in Run
    BY DEF TypeOK
<1>2. event.edition \in 0 .. MaxMoves /\ event.sent \cup runs[p].marks \subseteq Offsets
    BY <1>1 DEF Event, Run
<1>3. event' = [event EXCEPT !.sent = event.sent \cup runs[p].marks]
    BY DEF Claim
<1>4. event' \in Event /\ event'.edition = event.edition
      /\ event'.sent = event.sent \cup runs[p].marks
    BY <1>1, <1>2, <1>3 DEF Event
<1>5. runs' = [runs EXCEPT ![p] = [runs[p] EXCEPT !.pc = "deliver", !.edition = event.edition]]
    BY <1>1 DEF Claim, Run, TypeOK
<1>6. [runs[p] EXCEPT !.pc = "deliver", !.edition = event.edition] \in Run
    BY <1>1, <1>2 DEF Run
<1> QED BY <1>4, <1>5, <1>6 DEF TypeOK

\* What delivering writes.
LEMMA Delivering ==
    ASSUME TypeOK, NEW p \in Runs, Deliver(p)
    PROVE  /\ mailed' \in [0 .. MaxMoves -> [Offsets -> Nat]]
           /\ \A e \in 0 .. MaxMoves, o \in Offsets :
                mailed'[e][o] = IF e = runs[p].edition /\ o \in runs[p].marks
                                THEN mailed[e][o] + 1 ELSE mailed[e][o]
<1>1. runs[p] \in Run
    BY DEF TypeOK
<1>2. runs[p].edition \in 0 .. MaxMoves
    BY <1>1 DEF Run
<1>3. \A o \in Offsets : mailed[runs[p].edition][o] \in Nat
    BY <1>2 DEF TypeOK
<1> QED BY <1>2, <1>3 DEF TypeOK, Deliver

LEMMA Crashing ==
    ASSUME TypeOK, NEW p \in Runs, Crash(p)
    PROVE  /\ lost' \in [0 .. MaxMoves -> SUBSET Offsets]
           /\ \A e \in 0 .. MaxMoves :
                lost'[e] = IF Carries(p) /\ e = runs[p].edition
                           THEN lost[e] \cup runs[p].marks ELSE lost[e]
<1>1. runs[p] \in Run
    BY DEF TypeOK
<1>2. runs[p].edition \in 0 .. MaxMoves /\ runs[p].marks \subseteq Offsets
    BY <1>1 DEF Run
<1> QED BY <1>2 DEF TypeOK, Crash

LEMMA Releasing ==
    ASSUME TypeOK, NEW p \in Runs, Release(p)
    PROVE  /\ event' \in Event /\ event'.edition = event.edition
           /\ event'.sent = event.sent \ runs[p].marks
<1>1. event \in Event /\ runs[p] \in Run
    BY DEF TypeOK
<1>2. event.sent \ runs[p].marks \subseteq Offsets
    BY <1>1 DEF Event
<1>3. event' = [event EXCEPT !.sent = event.sent \ runs[p].marks]
    BY DEF Release
<1> QED BY <1>1, <1>2, <1>3 DEF Event

LEMMA Moving ==
    ASSUME TypeOK, Move
    PROVE  event' \in Event /\ event'.sent = {} /\ event'.edition = event.edition + 1
<1>1. event \in Event /\ event.edition < MaxMoves
    BY DEF TypeOK, Move
<1>2. PICK start \in Times \ {event.start}, before \in 0 .. Farthest + 1, on \in BOOLEAN :
        event' = [event EXCEPT !.start = start, !.before = before, !.on = on, !.sent = {},
                               !.edition = event.edition + 1]
    BY DEF Move, SentAfterMove
<1>3. event.edition \in Nat /\ event.edition + 1 \in 0 .. MaxMoves
    BY <1>1 DEF Event
<1>4. {} \subseteq Offsets
    OBVIOUS
<1> QED BY <1>1, <1>2, <1>3, <1>4 DEF Event

LEMMA Aside ==
    ASSUME TypeOK, Switch \/ TimePasses
    PROVE  event' \in Event /\ event'.sent = event.sent /\ event'.edition = event.edition
<1>1. event \in Event
    BY DEF TypeOK
<1>2. CASE Switch
    <2>1. PICK on \in BOOLEAN : event' = [event EXCEPT !.on = on]
        BY <1>2, Zenon DEF Switch
    <2> QED BY <1>1, <2>1 DEF Event
<1>3. CASE TimePasses
    <2>1. event' = [event EXCEPT !.before = event.before - 1] /\ event.before > 0
        BY <1>3 DEF TimePasses
    <2>2. event.before - 1 \in 0 .. Farthest + 1
        BY <1>1, <2>1 DEF Event
    <2> QED BY <1>1, <2>1, <2>2 DEF Event
<1> QED BY <1>2, <1>3

LEMMA TypedStep == TypeOK /\ [Next]_vars => TypeOK'
<1> SUFFICES ASSUME TypeOK, [Next]_vars PROVE TypeOK'
    OBVIOUS
<1>1. ASSUME NEW p \in Runs, ReadDue(p) PROVE TypeOK'
    BY <1>1, Reading DEF TypeOK, ReadDue
<1>2. ASSUME NEW p \in Runs, Claim(p) PROVE TypeOK'
    <2>1. CASE Claimable(p)
        BY <1>2, <2>1, Claiming DEF TypeOK, Claim
    <2>2. CASE ~Claimable(p)
        BY <1>2, <2>2, Going DEF TypeOK, Claim
    <2> QED BY <2>1, <2>2
<1>3. ASSUME NEW p \in Runs, Deliver(p) PROVE TypeOK'
    BY <1>3, Going, Delivering DEF TypeOK, Deliver
<1>4. ASSUME NEW p \in Runs, Release(p) PROVE TypeOK'
    <2>1. event.edition \in 0 .. MaxMoves
        BY DEF TypeOK, Event
    <2>2. strayed' \subseteq 0 .. MaxMoves
        BY <1>4, <2>1 DEF TypeOK, Release
    <2> QED BY <1>4, <2>2, Going, Releasing DEF TypeOK, Release
<1>5. ASSUME NEW p \in Runs, MailFails(p) PROVE TypeOK'
    BY <1>5, Going DEF TypeOK, MailFails
<1>6. ASSUME NEW p \in Runs, Crash(p) PROVE TypeOK'
    BY <1>6, Going, Crashing DEF TypeOK, Crash
<1>7. CASE Move
    BY <1>7, Moving DEF TypeOK, Move
<1>8. CASE Switch \/ TimePasses
    BY <1>8, Aside DEF TypeOK, Switch, TimePasses
<1>9. CASE UNCHANGED vars
    BY <1>9 DEF TypeOK, vars
<1> QED BY <1>1, <1>2, <1>3, <1>4, <1>5, <1>6, <1>7, <1>8, <1>9 DEF Next, Work

\* The event, the runs and the histories always have the shape the table and
\* the service give them.
THEOREM TypeCorrect == Spec => []TypeOK
BY TypedInit, TypedStep, PTL DEF Spec

---------------------------------------------------------------------------
(* Whose hands an offset is in, and what a step does about it.             *)

Editions == 0 .. MaxMoves

\* Run p has claimed offset o of edition e, and neither mailed it nor let go.
InHands(p, e, o) == Carries(p) /\ runs[p].edition = e /\ o \in runs[p].marks

SameHands == \A q \in Runs, e \in Editions, o \in Offsets : InHands(q, e, o)' <=> InHands(q, e, o)

LetsGo(p) == \A q \in Runs, e \in Editions, o \in Offsets :
    InHands(q, e, o)' <=> q # p /\ InHands(q, e, o)

LEMMA EditionTyped ==
    ASSUME TypeOK
    PROVE  /\ event.edition \in Editions /\ event.sent \subseteq Offsets
           /\ \A p \in Runs : runs[p].edition \in Editions /\ runs[p].marks \subseteq Offsets
<1>1. event \in Event /\ \A p \in Runs : runs[p] \in Run
    BY DEF TypeOK
<1> QED BY <1>1 DEF Event, Run, Editions

LEMMA ReadingHands ==
    ASSUME TypeOK, NEW p \in Runs, ReadDue(p)
    PROVE  SameHands
<1>1. ~Carries(p) /\ ~Carries(p)'
    BY Reading DEF ReadDue, Carries
<1>2. \A q \in Runs \ {p} : runs'[q] = runs[q]
    BY Reading
<1> QED BY <1>1, <1>2 DEF SameHands, InHands, Carries

LEMMA ClaimingHands ==
    ASSUME TypeOK, NEW p \in Runs, Claim(p), Claimable(p),
           NEW q \in Runs, NEW e \in Editions, NEW o \in Offsets
    PROVE  InHands(q, e, o)' <=> IF q = p THEN e = event.edition /\ o \in runs[p].marks
                                 ELSE InHands(q, e, o)
<1>1. runs[p] \in Run
    BY DEF TypeOK
<1>2. /\ runs'[p].pc = "deliver" /\ runs'[p].edition = event.edition
      /\ runs'[p].marks = runs[p].marks
    BY <1>1, Claiming DEF Run
<1> QED BY <1>2, Claiming DEF InHands, Carries

LEMMA DeniedHands ==
    ASSUME TypeOK, NEW p \in Runs, Claim(p), ~Claimable(p)
    PROVE  SameHands
<1>1. runs[p] \in Run /\ Goes(p, "idle") /\ ~Carries(p)
    BY DEF TypeOK, Claim, Carries
<1>2. ~Carries(p)'
    BY <1>1, Going DEF Carries, Run
<1> QED BY <1>1, <1>2, Going DEF SameHands, InHands, Carries

LEMMA FailingHands ==
    ASSUME TypeOK, NEW p \in Runs, MailFails(p)
    PROVE  SameHands
<1>1. runs[p] \in Run /\ Goes(p, "release") /\ Carries(p)
    BY DEF TypeOK, MailFails, Carries
<1>2. /\ runs'[p].pc = "release" /\ runs'[p].edition = runs[p].edition
      /\ runs'[p].marks = runs[p].marks
    BY <1>1, Going DEF Run
<1> QED BY <1>1, <1>2, Going DEF SameHands, InHands, Carries

LEMMA LettingGo ==
    ASSUME TypeOK, NEW p \in Runs, Goes(p, "idle")
    PROVE  LetsGo(p)
<1>1. runs[p] \in Run
    BY DEF TypeOK
<1>2. ~Carries(p)'
    BY <1>1, Going DEF Run, Carries
<1> QED BY <1>2, Going DEF LetsGo, InHands, Carries

LEMMA IdleHands ==
    ASSUME UNCHANGED runs
    PROVE  SameHands
BY DEF SameHands, InHands, Carries

---------------------------------------------------------------------------
(* Nothing is forgotten.                                                   *)

\* Somebody has seen to offset o of edition e.
SeenTo(e, o) == mailed[e][o] > 0 \/ o \in lost[e] \/ \E p \in Runs : InHands(p, e, o)

LEMMA Forgets == NothingForgotten <=> \A o \in event.sent : SeenTo(event.edition, o)
BY DEF NothingForgotten, SeenTo, InHands

\* A step that mails nothing and loses nothing, and keeps what is in hand.
LEMMA StillSeenTo ==
    ASSUME NEW e \in Editions, NEW o \in Offsets, SeenTo(e, o), UNCHANGED <<mailed, lost>>,
           \A q \in Runs : InHands(q, e, o) => InHands(q, e, o)'
    PROVE  SeenTo(e, o)'
BY DEF SeenTo

LEMMA NothingForgottenStep == TypeOK /\ NothingForgotten /\ [Next]_vars => NothingForgotten'
<1> SUFFICES ASSUME TypeOK, NothingForgotten, [Next]_vars,
                    NEW o \in event'.sent
             PROVE  SeenTo(event.edition, o)'
    BY DEF NothingForgotten, SeenTo, InHands, Carries
<1>b. PICK e \in Editions : e = event.edition
    BY EditionTyped
<1> DEFINE Seen == event'.edition = e /\ SeenTo(e, o)'
<1>0. o \in Offsets
    <2>1. TypeOK'
        BY TypedStep
    <2>2. event' \in Event
        BY <2>1 DEF TypeOK
    <2> QED BY <2>2, EditionTyped DEF Event
<1>a. o \in event.sent => SeenTo(e, o)
    BY <1>b, Forgets DEF SeenTo, InHands
<1>1. ASSUME UNCHANGED <<mailed, lost>>, SameHands, event'.edition = e, o \in event.sent
      PROVE  Seen
    BY <1>0, <1>1, <1>a, StillSeenTo DEF SameHands
<1>2. ASSUME NEW p \in Runs, ReadDue(p) PROVE Seen
    <2>1. UNCHANGED <<event, mailed, lost>>
        BY <1>2 DEF ReadDue
    <2> QED BY <1>1, <1>2, <2>1, ReadingHands, <1>b
<1>3. ASSUME NEW p \in Runs, Claim(p) PROVE Seen
    <2>1. UNCHANGED <<mailed, lost>>
        BY <1>3 DEF Claim
    <2>2. CASE ~Claimable(p)
        <3>1. UNCHANGED event
            BY <1>3, <2>2 DEF Claim
        <3> QED BY <1>1, <1>3, <2>1, <2>2, <3>1, DeniedHands, <1>b
    <2>3. CASE Claimable(p)
        <3>1. event'.edition = e /\ event'.sent = event.sent \cup runs[p].marks
            BY <1>3, <2>3, Claiming, <1>b
        <3>2. CASE o \in runs[p].marks
            <4>1. InHands(p, e, o)'
                BY <1>0, <1>3, <2>3, <3>2, ClaimingHands, <1>b
            <4> QED BY <3>1, <4>1 DEF SeenTo
        <3>3. CASE o \notin runs[p].marks
            <4>1. SeenTo(e, o)
                BY <1>a, <3>1, <3>3
            <4>2. \A q \in Runs : InHands(q, e, o) => InHands(q, e, o)'
                BY <1>0, <1>3, <2>3, <3>3, ClaimingHands DEF InHands
            <4> QED BY <1>0, <2>1, <3>1, <4>1, <4>2, StillSeenTo
        <3> QED BY <3>2, <3>3
    <2> QED BY <2>2, <2>3
<1>4. ASSUME NEW p \in Runs, Deliver(p) PROVE Seen
    <2>1. UNCHANGED <<event, lost>> /\ Goes(p, "idle")
        BY <1>4 DEF Deliver
    <2>2. SeenTo(e, o)
        BY <1>a, <2>1
    <2>3. mailed[e][o] \in Nat /\ mailed'[e][o] \in Nat
        BY <1>0, <1>4, Delivering DEF TypeOK, Editions
    <2>4. InHands(p, e, o) => mailed'[e][o] > 0
        BY <1>0, <1>4, <2>3, Delivering DEF InHands, Editions
    <2>5. mailed[e][o] > 0 => mailed'[e][o] > 0
        BY <1>0, <1>4, <2>3, Delivering DEF Editions
    <2>6. LetsGo(p)
        BY <2>1, LettingGo
    <2>7. event'.edition = e
        BY <1>b, <2>1
    <2> QED BY <1>0, <2>1, <2>2, <2>4, <2>5, <2>6, <2>7 DEF SeenTo, LetsGo
<1>5. ASSUME NEW p \in Runs, MailFails(p) PROVE Seen
    <2>1. UNCHANGED <<event, mailed, lost>>
        BY <1>5 DEF MailFails
    <2> QED BY <1>1, <1>5, <2>1, FailingHands, <1>b
<1>6. ASSUME NEW p \in Runs, Release(p) PROVE Seen
    <2>1. UNCHANGED <<mailed, lost>> /\ Goes(p, "idle")
        BY <1>6 DEF Release
    <2>2. event'.edition = e /\ o \in event.sent /\ o \notin runs[p].marks
        BY <1>6, Releasing, <1>b
    <2>3. \A q \in Runs : InHands(q, e, o) => InHands(q, e, o)'
        BY <1>0, <2>1, <2>2, LettingGo DEF LetsGo, InHands
    <2> QED BY <1>0, <1>a, <2>1, <2>2, <2>3, StillSeenTo
<1>7. ASSUME NEW p \in Runs, Crash(p) PROVE Seen
    <2>1. UNCHANGED <<event, mailed>> /\ Goes(p, "idle")
        BY <1>7 DEF Crash
    <2>2. SeenTo(e, o) /\ event'.edition = e
        BY <1>a, <2>1, <1>b
    <2>3. (o \in lost[e] \/ InHands(p, e, o)) => o \in lost'[e]
        BY <1>0, <1>7, Crashing DEF InHands, Editions
    <2> QED BY <1>0, <2>1, <2>2, <2>3, LettingGo DEF SeenTo, LetsGo
<1>8. ASSUME Move PROVE Seen
    BY <1>8, Moving
<1>9. ASSUME Switch \/ TimePasses \/ UNCHANGED vars PROVE Seen
    <2>1. UNCHANGED <<runs, mailed, lost>>
        BY <1>9 DEF Switch, TimePasses, vars
    <2>2. event'.sent = event.sent /\ event'.edition = e
        BY <1>9, Aside, <1>b DEF vars
    <2> QED BY <1>1, <2>1, <2>2, IdleHands
<1>10. Seen
    BY <1>2, <1>3, <1>4, <1>5, <1>6, <1>7, <1>8, <1>9 DEF Next, Work
<1> QED BY <1>10 DEF Seen, SeenTo, InHands, Carries

\* An offset that is marked as sent was mailed, is in the hands of a run or was
\* lost with one, for any number of runs and moves.
THEOREM ForgetsNothing == Spec => []NothingForgotten
<1>1. Init => NothingForgotten
    <2> SUFFICES ASSUME Init PROVE NothingForgotten
        OBVIOUS
    <2>1. event.sent = {}
        BY DEF Init
    <2> QED BY <2>1 DEF NothingForgotten
<1> QED BY <1>1, TypeCorrect, TypedStep, NothingForgottenStep, PTL DEF Spec

---------------------------------------------------------------------------
(* Each reminder goes out once.                                            *)

\* Nothing has been done about an edition that is still to come.  In one that
\* no stray hand-back touched, an offset that was mailed is in nobody's hands,
\* no two runs have it in hand, and as long as it is the current edition, what
\* was mailed or is in hand is marked.
Tracked(e, o) ==
    /\ e > event.edition => mailed[e][o] = 0 /\ \A p \in Runs : ~InHands(p, e, o)
    /\ e \notin strayed =>
         /\ mailed[e][o] <= 1
         /\ \A p \in Runs : InHands(p, e, o) =>
              mailed[e][o] = 0 /\ \A q \in Runs \ {p} : ~InHands(q, e, o)
         /\ e = event.edition /\ (mailed[e][o] > 0 \/ \E p \in Runs : InHands(p, e, o))
              => o \in event.sent

OnceInv == \A e \in Editions, o \in Offsets : Tracked(e, o)

LEMMA OnceInit == Init => OnceInv
<1> SUFFICES ASSUME Init, NEW e \in Editions, NEW o \in Offsets PROVE Tracked(e, o)
    BY DEF OnceInv
<1>1. mailed[e][o] = 0
    BY DEF Init, Editions
<1>2. \A p \in Runs : ~InHands(p, e, o)
    BY DEF Init, InHands, Carries
<1> QED BY <1>1, <1>2 DEF Tracked

\* A step that mails and marks nothing, and takes nothing in hand.
LEMMA StillTracked ==
    ASSUME NEW e \in Editions, NEW o \in Offsets, Tracked(e, o),
           UNCHANGED <<mailed, strayed>>,
           event'.sent = event.sent, event'.edition = event.edition,
           \A q \in Runs : InHands(q, e, o)' => InHands(q, e, o)
    PROVE  Tracked(e, o)'
BY DEF Tracked

LEMMA TrackedClaim ==
    ASSUME TypeOK, NEW p \in Runs, Claim(p), Claimable(p),
           NEW e \in Editions, NEW o \in Offsets, Tracked(e, o)
    PROVE  Tracked(e, o)'
<1>1. /\ UNCHANGED <<mailed, strayed>> /\ event'.edition = event.edition
      /\ event'.sent = event.sent \cup runs[p].marks
    BY Claiming DEF Claim
<1>2. \A q \in Runs : InHands(q, e, o)' <=> IF q = p THEN e = event.edition /\ o \in runs[p].marks
                                              ELSE InHands(q, e, o)
    BY ClaimingHands
<1>3. o \in runs[p].marks => o \notin event.sent
    BY DEF Claimable
<1>4. mailed[e][o] \in Nat /\ event.edition \in Nat /\ e \in Nat
    BY EditionTyped DEF TypeOK, Editions
<1> QED BY <1>1, <1>2, <1>3, <1>4 DEF Tracked

LEMMA TrackedDeliver ==
    ASSUME TypeOK, NEW p \in Runs, Deliver(p),
           NEW e \in Editions, NEW o \in Offsets, Tracked(e, o)
    PROVE  Tracked(e, o)'
<1>1. UNCHANGED <<event, lost, strayed>> /\ Goes(p, "idle") /\ Carries(p)
    BY DEF Deliver, Carries
<1>2. \A q \in Runs : InHands(q, e, o)' <=> q # p /\ InHands(q, e, o)
    BY <1>1, LettingGo DEF LetsGo
<1>3. mailed'[e][o] = IF InHands(p, e, o) THEN mailed[e][o] + 1 ELSE mailed[e][o]
    BY <1>1, Delivering DEF InHands, Editions
<1>4. mailed[e][o] \in Nat
    BY DEF TypeOK, Editions
<1> QED BY <1>1, <1>2, <1>3, <1>4 DEF Tracked

LEMMA TrackedRelease ==
    ASSUME TypeOK, NEW p \in Runs, Release(p),
           NEW e \in Editions, NEW o \in Offsets, Tracked(e, o)
    PROVE  Tracked(e, o)'
<1>1. UNCHANGED <<mailed, lost>> /\ Goes(p, "idle") /\ Carries(p)
    BY DEF Release, Carries
<1>2. \A q \in Runs : InHands(q, e, o)' <=> q # p /\ InHands(q, e, o)
    BY <1>1, LettingGo DEF LetsGo
<1>3. event'.edition = event.edition /\ event'.sent = event.sent \ runs[p].marks
    BY Releasing
<1>4. mailed[e][o] \in Nat
    BY DEF TypeOK, Editions
<1>5. e \notin strayed' => e \notin strayed /\ (e = event.edition => runs[p].edition = e)
    BY DEF Release
<1>6. (e = event.edition /\ runs[p].edition = e /\ o \in runs[p].marks) => InHands(p, e, o)
    BY <1>1 DEF InHands
<1> QED BY <1>1, <1>2, <1>3, <1>4, <1>5, <1>6 DEF Tracked

LEMMA TrackedMove ==
    ASSUME TypeOK, Move, NEW e \in Editions, NEW o \in Offsets, Tracked(e, o)
    PROVE  Tracked(e, o)'
<1>1. UNCHANGED <<runs, mailed, strayed>> /\ event'.edition = event.edition + 1
    BY Moving DEF Move
<1>2. \A q \in Runs : InHands(q, e, o)' <=> InHands(q, e, o)
    BY <1>1 DEF InHands, Carries
<1>3. mailed[e][o] \in Nat /\ event.edition \in Nat /\ e \in Nat
    BY EditionTyped DEF TypeOK, Editions
<1> QED BY <1>1, <1>2, <1>3 DEF Tracked

LEMMA OnceStep == TypeOK /\ OnceInv /\ [Next]_vars => OnceInv'
<1> SUFFICES ASSUME TypeOK, OnceInv, [Next]_vars, NEW e \in Editions, NEW o \in Offsets
             PROVE  Tracked(e, o)'
    BY DEF OnceInv
<1>1. Tracked(e, o)
    BY DEF OnceInv
<1>2. ASSUME NEW p \in Runs, ReadDue(p) PROVE Tracked(e, o)'
    <2>1. UNCHANGED <<event, mailed, strayed>>
        BY <1>2 DEF ReadDue
    <2> QED BY <1>1, <1>2, <2>1, ReadingHands, StillTracked DEF SameHands
<1>3. ASSUME NEW p \in Runs, Claim(p) PROVE Tracked(e, o)'
    <2>1. CASE ~Claimable(p)
        <3>1. UNCHANGED <<event, mailed, strayed>>
            BY <1>3, <2>1 DEF Claim
        <3> QED BY <1>1, <1>3, <2>1, <3>1, DeniedHands, StillTracked DEF SameHands
    <2> QED BY <1>1, <1>3, <2>1, TrackedClaim
<1>4. ASSUME NEW p \in Runs, Deliver(p) PROVE Tracked(e, o)'
    BY <1>1, <1>4, TrackedDeliver
<1>5. ASSUME NEW p \in Runs, MailFails(p) PROVE Tracked(e, o)'
    <2>1. UNCHANGED <<event, mailed, strayed>>
        BY <1>5 DEF MailFails
    <2> QED BY <1>1, <1>5, <2>1, FailingHands, StillTracked DEF SameHands
<1>6. ASSUME NEW p \in Runs, Release(p) PROVE Tracked(e, o)'
    BY <1>1, <1>6, TrackedRelease
<1>7. ASSUME NEW p \in Runs, Crash(p) PROVE Tracked(e, o)'
    <2>1. UNCHANGED <<event, mailed, strayed>> /\ Goes(p, "idle")
        BY <1>7 DEF Crash
    <2> QED BY <1>1, <2>1, LettingGo, StillTracked DEF LetsGo
<1>8. CASE Move
    BY <1>1, <1>8, TrackedMove
<1>9. CASE Switch \/ TimePasses \/ UNCHANGED vars
    <2>1. UNCHANGED <<runs, mailed, strayed>>
        BY <1>9 DEF Switch, TimePasses, vars
    <2>2. event'.sent = event.sent /\ event'.edition = event.edition
        BY <1>9, Aside DEF vars
    <2> QED BY <1>1, <2>1, <2>2, IdleHands, StillTracked DEF SameHands
<1> QED BY <1>2, <1>3, <1>4, <1>5, <1>6, <1>7, <1>8, <1>9 DEF Next, Work

\* Whatever runs, failures, stops and moves overlap, a reminder goes out once,
\* unless a claim of an earlier start was handed back to its edition.
THEOREM RemindsOnce == Spec => []RemindedOnce
<1>1. OnceInv => RemindedOnce
    BY DEF OnceInv, Tracked, RemindedOnce, Editions
<1> QED BY <1>1, TypeCorrect, OnceInit, OnceStep, PTL DEF Spec

=============================================================================
