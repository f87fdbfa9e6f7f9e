----------------------------- MODULE Reminders -----------------------------
(***************************************************************************)
(* The reminders of one calendar event: CalendarReminderService, which every *)
(* API instance may run each minute, next to the owner's changes of the       *)
(* event.  A run reads what is due, claims it, mails it, and hands the claim   *)
(* back when the mail failed: each a statement or call of its own.            *)
(*                                                                           *)
(* An offset is numbered by its nearness to the start, 1 being the nearest.  *)
(***************************************************************************)
EXTENDS Naturals

CONSTANTS
    Runs,      \* runs of the job that may overlap
    Times,     \* start times the owner may choose
    Farthest,  \* number of offsets, and the farthest from the start
    MaxMoves,  \* bound: how often the start is moved
    Ops        \* what may happen in this instance

ASSUME FarthestAssumption == Farthest \in Nat
ASSUME MovesAssumption == MaxMoves \in Nat

Offsets == 1 .. Farthest

VARIABLES
    event,  \* the row of calendar_events
    runs,   \* what each run is doing
    mailed, \* history: how often each offset was mailed, by edition of the start
    lost,   \* history: offsets that runs had claimed when they died
    strayed \* history: editions to which a claim of an earlier start was handed back

vars == <<event, runs, mailed, lost, strayed>>

\* on: to be reminded of, not done, its owner active.  before: the nearest
\* offset whose time has come; 0: the event has begun.  edition: how often the
\* start was moved (history).  An event that is deleted is one that stays off.
Event == [on : BOOLEAN, start : Times, before : 0 .. Farthest + 1,
          sent : SUBSET Offsets, edition : 0 .. MaxMoves]

Run == [pc : {"idle", "claim", "deliver", "release"}, start : Times,
        marks : SUBSET Offsets, edition : 0 .. MaxMoves]

TypeOK ==
    /\ event \in Event
    /\ runs \in [Runs -> Run]
    /\ mailed \in [0 .. MaxMoves -> [Offsets -> Nat]]
    /\ lost \in [0 .. MaxMoves -> SUBSET Offsets]
    /\ strayed \subseteq 0 .. MaxMoves

---------------------------------------------------------------------------
(* A run of the job.                                                       *)

\* Slip: an event that has begun is one to remind of at once.
DueAtStart == {o \in 0 .. Farthest : event.before <= o}

Due == IF event.before = 0 THEN {} ELSE {o \in Offsets : event.before <= o}

Goes(p, pc) == runs' = [runs EXCEPT ![p].pc = pc]

\* The SELECT, and dueReminder: what is due and was not sent.
ReadDue(p) ==
    /\ runs[p].pc = "idle" /\ event.on
    /\ ~(Due \subseteq event.sent)
    /\ runs' = [runs EXCEPT ![p] = [pc |-> "claim", start |-> event.start,
                                    marks |-> Due \ event.sent, edition |-> event.edition]]
    /\ UNCHANGED <<event, mailed, lost, strayed>>

\* Slip: the claim does not look at what was sent since it was read.
ClaimableAnyway(p) == event.on /\ event.start = runs[p].start

Claimable(p) ==
    /\ event.on /\ event.start = runs[p].start
    /\ runs[p].marks \cap event.sent = {}

\* The guarded UPDATE.
Claim(p) ==
    /\ runs[p].pc = "claim"
    /\ IF Claimable(p)
       THEN /\ event' = [event EXCEPT !.sent = @ \cup runs[p].marks]
            /\ runs' = [runs EXCEPT ![p].pc = "deliver", ![p].edition = event.edition]
       ELSE Goes(p, "idle") /\ UNCHANGED event
    /\ UNCHANGED <<mailed, lost, strayed>>

\* One mail stands for all the offsets it was claimed with.
Deliver(p) ==
    /\ runs[p].pc = "deliver"
    /\ mailed' = [mailed EXCEPT ![runs[p].edition] =
         [o \in Offsets |-> IF o \in runs[p].marks THEN @[o] + 1 ELSE @[o]]]
    /\ Goes(p, "idle")
    /\ UNCHANGED <<event, lost, strayed>>

\* Slip: the claim is kept when the mail failed.
KeepClaim(p) ==
    /\ "fail" \in Ops /\ runs[p].pc = "deliver"
    /\ Goes(p, "idle")
    /\ UNCHANGED <<event, mailed, lost, strayed>>

MailFails(p) ==
    /\ "fail" \in Ops /\ runs[p].pc = "deliver"
    /\ Goes(p, "release")
    /\ UNCHANGED <<event, mailed, lost, strayed>>

\* The offsets are handed back to the event, whatever has become of it.
Release(p) ==
    /\ runs[p].pc = "release"
    /\ event' = [event EXCEPT !.sent = @ \ runs[p].marks]
    /\ strayed' = IF runs[p].edition = event.edition THEN strayed ELSE strayed \cup {event.edition}
    /\ Goes(p, "idle")
    /\ UNCHANGED <<mailed, lost>>

Carries(p) == runs[p].pc \in {"deliver", "release"}

\* The API instance stops.
Crash(p) ==
    /\ "crash" \in Ops /\ runs[p].pc # "idle"
    /\ lost' = IF Carries(p) THEN [lost EXCEPT ![runs[p].edition] = @ \cup runs[p].marks] ELSE lost
    /\ Goes(p, "idle")
    /\ UNCHANGED <<event, mailed, strayed>>

---------------------------------------------------------------------------
(* The owner and the clock.                                                *)

\* Slip: a moved event keeps what was sent.
SentAfterMoveKept == event.sent

SentAfterMove == {}

\* update with another startsAt, remind and done with it or not.
Move ==
    /\ "move" \in Ops /\ event.edition < MaxMoves
    /\ \E start \in Times \ {event.start}, before \in 0 .. Farthest + 1, on \in BOOLEAN :
        event' = [event EXCEPT !.start = start, !.before = before, !.on = on,
                               !.sent = SentAfterMove, !.edition = @ + 1]
    /\ UNCHANGED <<runs, mailed, lost, strayed>>

\* update of remind or done alone, remove, or a change of the owner's account.
Switch ==
    /\ "switch" \in Ops
    /\ event' = [event EXCEPT !.on = ~@]
    /\ UNCHANGED <<runs, mailed, lost, strayed>>

TimePasses ==
    /\ event.before > 0
    /\ event' = [event EXCEPT !.before = @ - 1]
    /\ UNCHANGED <<runs, mailed, lost, strayed>>

---------------------------------------------------------------------------
Init ==
    /\ event \in [on : {TRUE}, start : Times, before : 0 .. Farthest + 1, sent : {{}},
                  edition : {0}]
    /\ runs = [p \in Runs |-> [pc |-> "idle", start |-> event.start, marks |-> {}, edition |-> 0]]
    /\ mailed = [e \in 0 .. MaxMoves |-> [o \in Offsets |-> 0]]
    /\ lost = [e \in 0 .. MaxMoves |-> {}]
    /\ strayed = {}

Work(p) == ReadDue(p) \/ Claim(p) \/ Deliver(p) \/ Release(p)

Next ==
    \/ \E p \in Runs : Work(p) \/ MailFails(p) \/ Crash(p)
    \/ Move \/ Switch \/ TimePasses

Spec == Init /\ [][Next]_vars

\* The job runs every minute, a run goes on, and of mails that are tried again
\* and again one is delivered.
FairSpec ==
    /\ Spec
    /\ \A p \in Runs :
        /\ WF_vars(ReadDue(p)) /\ SF_vars(Claim(p))
        /\ SF_vars(Deliver(p)) /\ SF_vars(Release(p))

---------------------------------------------------------------------------
(* What reminding promises.                                                *)

\* "only one API instance may send a given reminder": each offset of each start
\* time is mailed once, whichever runs, failures, stops and changes overlap.  One
\* thing breaks it, and nothing else: a run whose mail failed while the owner
\* moved the start hands its offsets back to the new start time (run, update).
RemindedOnce ==
    \A e \in 0 .. MaxMoves, o \in Offsets : mailed[e][o] <= 1 \/ e \in strayed

\* An offset marked as sent was mailed, or a run still has to, or died with it:
\* a failed mail or a moved start forgets none (run, update).
NothingForgotten ==
    \A o \in event.sent :
        \/ mailed[event.edition][o] > 0 \/ o \in lost[event.edition]
        \/ \E p \in Runs : Carries(p) /\ runs[p].edition = event.edition /\ o \in runs[p].marks

\* As long as the time of the next offset does not come, what is due is mailed
\* in the end, but for what runs died with.
CaughtUp ==
    []<>(\/ ~event.on
         \/ \A o \in Due : mailed[event.edition][o] > 0 \/ o \in lost[event.edition])
============================================================================
