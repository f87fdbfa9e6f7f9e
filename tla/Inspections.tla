---------------------------- MODULE Inspections ----------------------------
(***************************************************************************)
(* One verification visit, from its assignment to the lead's approval: the *)
(* inspection form and its draft in the device's IndexedDB, the sync loops *)
(* that upload photos and post the checklist, and OpsService's handlers.   *)
(*                                                                         *)
(* The device is one JavaScript thread, so an action is the code between   *)
(* two awaits.  syncQueuedDrafts may be running several times at once: it  *)
(* starts when a page opens, when the device comes online, every 30 s and  *)
(* after a submit.  Each run keeps the copy of the draft it read.  On the  *)
(* server a handler is a READ COMMITTED transaction, and an action is one  *)
(* statement of it.                                                        *)
(***************************************************************************)
EXTENDS Naturals, FiniteSets

CONSTANTS
    Loops,      \* runs of syncQueuedDrafts in flight
    Photos,     \* the photos taken on site
    Components, \* checklist components a lead may send back
    Leads,      \* requests to schedule the visit
    MaxEditions, MaxKeys,  \* bounds: changes of the checklist, keys drawn
    MaxPosts,   \* bound: sync POSTs under way at once
    Ops         \* what may happen, besides the plain course

AllOps == {"touch", "late", "drop", "crash", "device", "reopen", "approve", "correct"}

ASSUME BoundsAssumption == MaxEditions \in Nat /\ MaxKeys \in Nat /\ MaxPosts \in Nat
ASSUME OpsAssumption == Ops \subseteq AllOps

VARIABLES
    stored,    \* the draft in IndexedDB
    form,      \* the draft in the open form's React state
    reread,    \* the open form is about to read the store again
    timer,     \* the draft the debounced autosave will put
    loop,      \* what each sync loop is doing, with its copy of the draft
    requests,  \* sync POSTs on their way to the server or in its hands
    visit,     \* table verification_visits: the row of this visit
    fixer,     \* requests that resolve a correction, with the row they read
    visits,    \* rows created for this property, inspector and time
    lead,      \* requests to schedule it
    edition,   \* edition number of the newest change of the checklist
    album,     \* history: the photos the form showed in each edition
    lastKey    \* newest clientIdempotencyKey drawn

device == <<stored, form, reread, timer, loop>>
server == <<visit, fixer, visits, lead>>
counters == <<edition, album, lastKey>>
vars == <<device, requests, server, counters>>

\* v: edition of the checklist (0: blank); files: photos not uploaded yet;
\* sent: photoStorageKeys.
Draft == [status : {"none", "draft", "queued", "syncing", "synced", "failed"},
          key : Nat, v : Nat, files : SUBSET Photos, sent : SUBSET Photos]
NoDraft == [status |-> "none", key |-> 0, v |-> 0, files |-> {}, sent |-> {}]

\* d: what syncOne calls current; up: what uploadPendingPhotos calls current,
\* which is syncOne's own only when that function returns.
Loop == [pc : {"idle", "read", "upload", "post", "ok", "refused"}, d : Draft, up : Draft]
NoLoop == [pc |-> "idle", d |-> NoDraft, up |-> NoDraft]

\* by: the loop that waits for the answer, none when it no longer does.
Request == [pc : {"sent", "checked"}, by : SUBSET Loops, key : Nat, v : Nat, sent : SUBSET Photos]

\* fixes: components resolved since the checklist was last submitted.
Visit == [key : Nat, v : Nat, sent : SUBSET Photos, fixes : SUBSET Components,
          approved : BOOLEAN]
NoVisit == [key |-> 0, v |-> 0, sent |-> {}, fixes |-> {}, approved |-> FALSE]

Fixer == [pc : {"idle", "write"}, row : Visit]
NoFixer == [pc |-> "idle", row |-> NoVisit]

TypeOK ==
    /\ stored \in Draft /\ form \in Draft /\ timer \in Draft
    /\ reread \in BOOLEAN
    /\ loop \in [Loops -> Loop]
    /\ requests \subseteq Request
    /\ visit \in Visit
    /\ fixer \in [Components -> Fixer]
    /\ visits \in Nat
    /\ lead \in [Leads -> {"idle", "insert", "done"}]
    /\ edition \in 0 .. MaxEditions /\ lastKey \in Nat
    /\ album \in [0 .. MaxEditions -> SUBSET Photos]

---------------------------------------------------------------------------
(* The form.                                                               *)

InFlight == stored.status \in {"queued", "syncing"}
\* The form stays editable while its draft is queued or being sent, and until
\* it has read the outcome.
MayTouch == InFlight \/ reread => "touch" \in Ops

FreshKey == lastKey < MaxKeys /\ lastKey' = lastKey + 1

NewDraft == [NoDraft EXCEPT !.status = "draft", !.key = lastKey + 1]

\* Slip: the seeded draft takes over the visit's result as its status.
DraftFromServerAsIs == [NoDraft EXCEPT !.status = "passed", !.key = lastKey + 1,
                                       !.v = visit.v, !.sent = visit.sent]

DraftFromServer == [NoDraft EXCEPT !.status = "synced", !.key = lastKey + 1,
                                   !.v = visit.v, !.sent = visit.sent]

OpenForm ==
    /\ form = NoDraft
    /\ visits > 0
    /\ IF stored # NoDraft
       THEN form' = stored /\ UNCHANGED <<stored, lastKey>>
       ELSE /\ FreshKey
            /\ stored' = IF visit.v > 0 THEN DraftFromServer ELSE NewDraft
            /\ form' = stored'
    /\ UNCHANGED <<reread, timer, loop, requests, server, edition, album>>

\* persist: the state changes now, the store 300 ms after the last change.
Persist(d) == form' = d /\ timer' = d

\* addPhotos takes any number of new files; a photo is removed by itself, before
\* or after its upload; and what is neither is a change of the checklist.
Changes(files, sent) ==
    \/ sent = form.sent /\ form.files \subseteq files /\ files \cap sent = {}
    \/ sent = form.sent /\ \E photo \in form.files : files = form.files \ {photo}
    \/ files = form.files /\ \E photo \in form.sent : sent = form.sent \ {photo}

\* Any change; it leaves the checklist complete.
Edit ==
    /\ form.status \notin {"none", "synced"}
    /\ MayTouch
    /\ edition < MaxEditions
    /\ edition' = edition + 1
    /\ \E files, sent \in SUBSET Photos :
        /\ Changes(files, sent)
        /\ Persist([form EXCEPT !.v = edition + 1, !.files = files, !.sent = sent])
        /\ album' = [album EXCEPT ![edition + 1] = files \cup sent]
    /\ UNCHANGED <<stored, reread, loop, requests, server, lastKey>>

Autosave ==
    /\ timer # NoDraft
    /\ stored' = timer
    /\ timer' = NoDraft
    /\ UNCHANGED <<form, reread, loop, requests, server, counters>>

\* Slip: a resend of a failed draft keeps its key.
RequeueKeepingKey(d) ==
    /\ stored' = [d EXCEPT !.status = "queued"]
    /\ UNCHANGED lastKey

\* A failed attempt may have been stored under the old key.
Requeue(d) ==
    IF d.status = "failed"
    THEN FreshKey /\ stored' = [d EXCEPT !.status = "queued", !.key = lastKey + 1]
    ELSE stored' = [d EXCEPT !.status = "queued"] /\ UNCHANGED lastKey

Submit ==
    /\ form.status \notin {"none", "synced"}
    /\ form.v > 0 /\ form.files \cup form.sent # {}
    /\ MayTouch
    /\ Requeue(form)
    /\ form' = stored'
    /\ timer' = NoDraft
    /\ UNCHANGED <<reread, loop, requests, server, edition, album>>

\* Offered on a queued draft, too, where it only sets off a loop; either way a
\* pending autosave is cancelled and the form keeps showing what it showed.
RetrySync ==
    /\ MayTouch
    /\ \/ form.status = "failed" /\ Requeue(form)
       \/ form.status = "queued" /\ UNCHANGED <<stored, lastKey>>
    /\ timer' = NoDraft
    /\ UNCHANGED <<form, reread, loop, requests, server, edition, album>>

ReopenForEdit ==
    /\ "reopen" \in Ops
    /\ form.status = "synced"
    /\ FreshKey
    /\ Persist([form EXCEPT !.status = "draft", !.key = lastKey + 1])
    /\ UNCHANGED <<stored, reread, loop, requests, server, edition, album>>

\* On inspection-draft-synced, and at the end of a submit or a retry, when all
\* queued drafts have been through: so perhaps once more.
Reread ==
    /\ reread
    /\ form' = stored
    /\ reread' \in BOOLEAN
    /\ UNCHANGED <<stored, timer, loop, requests, server, counters>>

Orphaned(r) == [r EXCEPT !.by = {}]

\* The tab closes or reloads: everything but the store and what left is gone.
CloseTab ==
    /\ "crash" \in Ops
    /\ form' = NoDraft /\ reread' = FALSE /\ timer' = NoDraft
    /\ loop' = [l \in Loops |-> NoLoop]
    /\ requests' = {Orphaned(r) : r \in requests}
    /\ UNCHANGED <<stored, server, counters>>

\* The inspector goes on from a device, or a browser, without the draft.
OtherDevice ==
    /\ "device" \in Ops
    /\ form = NoDraft /\ timer = NoDraft /\ loop = [l \in Loops |-> NoLoop]
    /\ requests = {} \/ "late" \in Ops
    /\ stored' = NoDraft
    /\ UNCHANGED <<form, reread, timer, loop, requests, server, counters>>

---------------------------------------------------------------------------
(* The sync loop: syncQueuedDrafts and syncOne.                            *)

\* Slip: a draft left in "syncing" by a closed tab is not picked up again.
ToSendQueuedOnly == {"queued"}
ToSend == {"queued", "syncing"}

LoopRead(l) ==
    /\ loop[l].pc = "idle"
    /\ stored.status \in ToSend
    /\ loop' = [loop EXCEPT ![l] = [NoLoop EXCEPT !.pc = "read", !.d = stored]]
    /\ UNCHANGED <<stored, form, reread, timer, requests, server, counters>>

LoopStart(l) ==
    LET d == [loop[l].d EXCEPT !.status = "syncing"]
    IN  /\ loop[l].pc = "read"
        /\ stored' = d
        /\ loop' = [loop EXCEPT ![l] = [pc |-> "upload", d |-> d, up |-> d]]
        /\ UNCHANGED <<form, reread, timer, requests, server, counters>>

Uploaded(d, photo) == [d EXCEPT !.files = @ \ {photo}, !.sent = @ \cup {photo}]

\* One photo, and its progress put into the store.
UploadPhoto(l) ==
    /\ loop[l].pc = "upload"
    /\ \E photo \in loop[l].up.files :
        LET d == Uploaded(loop[l].up, photo)
        IN  loop' = [loop EXCEPT ![l].up = d] /\ stored' = d
    /\ UNCHANGED <<form, reread, timer, requests, server, counters>>

Post(l, d) ==
    requests' = requests \cup
        {[pc |-> "sent", by |-> {l}, key |-> d.key, v |-> d.v, sent |-> d.sent]}

\* Slip: syncOne awaits the uploads and does not take over what they return.
PostChecklistAsRead(l) ==
    /\ loop[l].pc = "upload" /\ loop[l].up.files = {}
    /\ requests = {} \/ "late" \in Ops
    /\ Cardinality(requests) < MaxPosts
    /\ loop' = [loop EXCEPT ![l].pc = "post", ![l].up = NoDraft]
    /\ Post(l, loop[l].d)
    /\ UNCHANGED <<stored, form, reread, timer, server, counters>>

\* Unless "late", the server is done with a request before the next arrives.
PostChecklist(l) ==
    /\ loop[l].pc = "upload" /\ loop[l].up.files = {}
    /\ requests = {} \/ "late" \in Ops
    /\ Cardinality(requests) < MaxPosts
    /\ loop' = [loop EXCEPT ![l] = [pc |-> "post", d |-> loop[l].up, up |-> NoDraft]]
    /\ Post(l, loop[l].up)
    /\ UNCHANGED <<stored, form, reread, timer, server, counters>>

\* syncOne's draft is put with its outcome, whatever is stored by now.
Settle(l, status) ==
    /\ stored' = [loop[l].d EXCEPT !.status = status]
    /\ reread' = (form # NoDraft)
    /\ loop' = [loop EXCEPT ![l] = NoLoop]
    /\ requests' = {IF l \in r.by THEN Orphaned(r) ELSE r : r \in requests}
    /\ UNCHANGED <<form, timer, server, counters>>

SyncAnswered(l) ==
    \/ loop[l].pc = "ok" /\ Settle(l, "synced")
    \/ loop[l].pc = "refused" /\ Settle(l, "failed")

\* fetch rejects with a TypeError, or the API answers 401, 429 or 5xx.  While
\* photos are uploaded, what is put back is the draft as it was before.
SyncInterrupted(l) ==
    /\ loop[l].pc \in {"upload", "post", "ok", "refused"}
    /\ Settle(l, "queued")

\* The connection drops during an upload, which storageFetch reports as a
\* plain Error, or the POST runs into its 15 s timeout, a DOMException.
SyncDropped(l) ==
    /\ "drop" \in Ops
    /\ \/ loop[l].pc = "upload" /\ loop[l].up.files # {}
       \/ loop[l].pc \in {"post", "ok", "refused"}
    /\ Settle(l, "failed")

---------------------------------------------------------------------------
(* syncVisit and approveVisit.                                             *)

Answer(r, pc) ==
    /\ requests' = requests \ {r}
    /\ loop' = [l \in Loops |-> IF l \in r.by THEN [loop[l] EXCEPT !.pc = pc] ELSE loop[l]]
    /\ UNCHANGED <<stored, form, reread, timer, counters>>

\* A request that never arrives.
Lost(r) ==
    /\ r.pc = "sent"
    /\ requests' = requests \ {r}
    /\ UNCHANGED <<device, server, counters>>

\* syncVisitSchema: at least one photo.
Parsed(r) == r.sent # {}

SyncVisitRead(r) ==
    /\ r.pc = "sent"
    /\ UNCHANGED server
    /\ \/ ~Parsed(r) /\ Answer(r, "refused")
       \/ Parsed(r) /\ visit.key = r.key /\ Answer(r, "ok")
       \/ Parsed(r) /\ visit.key # r.key /\ visit.approved /\ Answer(r, "refused")
       \/ /\ Parsed(r) /\ visit.key # r.key /\ ~visit.approved
          /\ requests' = (requests \ {r}) \cup {[r EXCEPT !.pc = "checked"]}
          /\ UNCHANGED <<device, counters>>

SyncVisitWrite(r) ==
    /\ r.pc = "checked"
    /\ visit' = [visit EXCEPT !.key = r.key, !.v = r.v, !.sent = r.sent, !.fixes = {}]
    /\ Answer(r, "ok")
    /\ UNCHANGED <<fixer, visits, lead>>

ApproveVisit ==
    /\ "approve" \in Ops
    /\ visits > 0 /\ ~visit.approved
    /\ visit' = [visit EXCEPT !.approved = TRUE]
    /\ UNCHANGED <<device, requests, fixer, visits, lead, counters>>

---------------------------------------------------------------------------
(* resolveVisitCorrection and scheduleVisit.                               *)

\* Neither whether a correction of the component is open nor whether the visit
\* was submitted or approved is asked.
ResolveRead(c) ==
    /\ "correct" \in Ops
    /\ visits > 0 /\ fixer[c] = NoFixer
    /\ fixer' = [fixer EXCEPT ![c] = [pc |-> "write", row |-> visit]]
    /\ UNCHANGED <<device, requests, visit, visits, lead, counters>>

\* The whole checklist and photo list are written back with the one change.
ResolveWrite(c) ==
    LET row == fixer[c].row
    IN  /\ fixer[c].pc = "write"
        /\ visit' = [visit EXCEPT !.v = row.v, !.sent = row.sent, !.fixes = row.fixes \cup {c}]
        /\ fixer' = [fixer EXCEPT ![c] = NoFixer]
        /\ UNCHANGED <<device, requests, visits, lead, counters>>

\* Unworked and unapproved; the inspector works on the first row.
OpenVisit == visits > 1 \/ (visits = 1 /\ visit.v = 0 /\ ~visit.approved)

\* The same property, inspector and time, submitted by each of Leads once.
ScheduleRead(p) ==
    /\ lead[p] = "idle"
    /\ lead' = [lead EXCEPT ![p] = IF OpenVisit THEN "done" ELSE "insert"]
    /\ UNCHANGED <<device, requests, visit, fixer, visits, counters>>

ScheduleInsert(p) ==
    /\ lead[p] = "insert"
    /\ visits' = visits + 1
    /\ lead' = [lead EXCEPT ![p] = "done"]
    /\ UNCHANGED <<device, requests, visit, fixer, counters>>

---------------------------------------------------------------------------
Init ==
    /\ stored = NoDraft /\ form = NoDraft /\ reread = FALSE /\ timer = NoDraft
    /\ loop = [l \in Loops |-> NoLoop]
    /\ requests = {}
    /\ visit = NoVisit
    /\ fixer = [c \in Components |-> NoFixer]
    /\ visits = 0
    /\ lead = [p \in Leads |-> "idle"]
    /\ edition = 0 /\ lastKey = 0
    /\ album = [v \in 0 .. MaxEditions |-> {}]

Inspector ==
    \/ OpenForm \/ Edit \/ Submit \/ RetrySync \/ ReopenForEdit \/ Reread
    \/ CloseTab \/ OtherDevice
SyncLoop(l) ==
    \/ LoopRead(l) \/ LoopStart(l) \/ UploadPhoto(l) \/ PostChecklist(l)
    \/ SyncAnswered(l) \/ SyncInterrupted(l) \/ SyncDropped(l)
Server ==
    \/ \E r \in requests : Lost(r) \/ SyncVisitRead(r) \/ SyncVisitWrite(r)
    \/ ApproveVisit
    \/ \E c \in Components : ResolveRead(c) \/ ResolveWrite(c)
    \/ \E p \in Leads : ScheduleRead(p) \/ ScheduleInsert(p)

Next == Inspector \/ Autosave \/ Server \/ \E l \in Loops : SyncLoop(l)

Spec == Init /\ [][Next]_vars

\* A POST nobody will answer any more.
GiveUp(l) ==
    /\ loop[l].pc = "post" /\ \A r \in requests : l \notin r.by
    /\ SyncInterrupted(l) \/ SyncDropped(l)

\* The interval keeps starting loops and a loop goes on by itself; a network
\* that fails again and again lets each step through again and again, too; the
\* server answers, and fetch gives up.  Nothing is assumed of the inspector or
\* the lead, and a batch of photos may break off every time.
Fairness ==
    /\ \A l \in Loops :
        /\ SF_vars(LoopRead(l)) /\ SF_vars(LoopStart(l)) /\ SF_vars(UploadPhoto(l))
        /\ SF_vars(PostChecklist(l)) /\ SF_vars(SyncAnswered(l)) /\ WF_vars(GiveUp(l))
        /\ SF_vars(\E r \in requests : l \in r.by /\ (SyncVisitRead(r) \/ SyncVisitWrite(r)))
    /\ WF_vars(\E r \in requests : r.by = {} /\ (SyncVisitRead(r) \/ SyncVisitWrite(r)))

FairSpec == Spec /\ Fairness

---------------------------------------------------------------------------
(* What the inspection code promises.                                      *)

Whole(d) == d.files \cup d.sent = album[d.v]

\* However loops, tabs and retries cross, a checklist travels with its photos:
\* each copy of an edition on the device, in a request or on the server has
\* the photos that the form showed in that edition, uploaded or to be uploaded;
\* and what was submitted has one at least (uploadPendingPhotos, syncVisitSchema).
EditionsWhole ==
    /\ \A d \in {stored, form, timer} \cup {loop[l].d : l \in Loops} : Whole(d)
    /\ \A l \in Loops : loop[l].pc = "upload" => Whole(loop[l].up)
    /\ \A r \in requests : r.sent = album[r.v]
    /\ visit.sent = album[visit.v] /\ (visit.v > 0 => visit.sent # {})

\* A draft past the form, and a loop's copy of one, is filled in.
FilledWhenSent ==
    /\ \A d \in {stored, form, timer} : d.status \notin {"none", "draft"} => d.v > 0
    /\ \A l \in Loops : loop[l].pc # "idle" => loop[l].d.v > 0
    /\ \A l \in Loops : loop[l].pc = "upload" => loop[l].up.v > 0

\* No copy is of an edition to come, and what a correction or a checked
\* request will write is whole; before the first edition there are no photos.
OfEditions ==
    /\ album[0] = {}
    /\ \A d \in {stored, form, timer} \cup {loop[l].d : l \in Loops}
                 \cup {loop[l].up : l \in Loops} : d.v <= edition
    /\ \A r \in requests : r.v <= edition /\ (r.pc = "checked" => r.sent # {})
    /\ visit.v <= edition
    /\ \A c \in Components :
        LET row == fixer[c].row
        IN  row.v <= edition /\ row.sent = album[row.v] /\ (row.v > 0 => row.sent # {})

\* An answer only ever reaches a loop that has posted.
AwaitedAfterPost ==
    \A r \in requests : \A l \in r.by : loop[l].pc \in {"post", "ok", "refused"}

\* The inductive invariant behind EditionsWhole.
PhotosInv == TypeOK /\ EditionsWhole /\ FilledWhenSent /\ OfEditions /\ AwaitedAfterPost

\* When the device says "synced", the server has that very checklist: a retry
\* is never taken for a replay of something else (syncVisit, retrySync).
SyncedMeansSubmitted ==
    stored.status = "synced" => visit.v = stored.v /\ visit.sent = stored.sent

\* A batch breaks off after some of its photos: syncOne puts back the draft as
\* it was before them.
BatchLost(l) ==
    /\ loop[l].pc = "upload" /\ loop[l].up # loop[l].d
    /\ SyncInterrupted(l) \/ SyncDropped(l)

\* A recorded upload is forgotten, and so repeated, in one way only: its batch
\* breaks off at a later photo, and the error handler of syncOne puts back what
\* it held before.  A failed POST, a closed tab or a retry forgets none.  (What
\* the inspector removes comes with a newer edition.)
ForgottenWithBatch ==
    [][\/ stored.sent \subseteq stored'.sent \/ OtherDevice
       \/ stored'.v > stored.v \/ \E l \in Loops : BatchLost(l)]_vars

\* A submitted draft does not stay on the device: tabs closed in the middle of
\* a sync, lost answers and POSTs that fail again and again included, it is
\* synced or refused in the end, once no batch of photos breaks off half-way.
DraftSettles ==
    (<>[][\A l \in Loops : ~BatchLost(l)]_vars) => (InFlight ~> ~InFlight)

\* The visit's row only advances: what a lead has approved does not change, an
\* older edition never replaces a newer one, and neither a POST sent again nor
\* another correction takes a resolved correction's entry out.
VisitOnlyAdvances ==
    [][/\ visit.approved => visit'.v = visit.v /\ visit'.fixes = visit.fixes
       /\ visit'.v >= visit.v
       /\ visit'.v = visit.v => visit.fixes \subseteq visit'.fixes]_vars
============================================================================
