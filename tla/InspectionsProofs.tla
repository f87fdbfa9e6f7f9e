------------------------- MODULE InspectionsProofs -------------------------
(***************************************************************************)
(* For any number of sync loops, photos, corrections and requests, and     *)
(* whatever may happen besides the plain course, a checklist travels with  *)
(* the photos the form showed with it (EditionsWhole), and every value is  *)
(* well typed (TypeOK).                                                    *)
(*                                                                         *)
(* PhotosInv is inductive: what is posted comes from a loop's copy, that   *)
(* from the store, the store from the form, and the form of a device that  *)
(* has no draft from the visit.  Good restates it place by place; a place  *)
(* is good for an album and its newest edition, and only Edit changes them *)
(* (Good.. lemmas), by an edition nobody has a copy of yet (..Grows).      *)
(*                                                                         *)
(* In the plain course of things (Plain), one loop at a time and nobody at *)
(* the draft it sends, more holds: a draft marked as synced is submitted,  *)
(* an upload is forgotten with an interrupted batch only, and the visit    *)
(* advances until approved.                                                *)
(***************************************************************************)
EXTENDS Inspections, TLAPS

\* In what follows a is the album and n its newest edition.
Complete(a, n, d) == d.files \cup d.sent = a[d.v] /\ d.v <= n

GoodDraft(a, n, d) ==
    d \in Draft /\ Complete(a, n, d) /\ (d.status \notin {"none", "draft"} => d.v > 0)

GoodLoop(a, n, x) ==
    /\ x \in Loop
    /\ Complete(a, n, x.d) /\ (x.pc # "idle" => x.d.v > 0)
    /\ x.up.v <= n /\ (x.pc = "upload" => Complete(a, n, x.up) /\ x.up.v > 0)

GoodRequest(a, n, r) ==
    r \in Request /\ r.sent = a[r.v] /\ r.v <= n /\ (r.pc = "checked" => r.sent # {})

GoodVisit(a, n, row) ==
    row \in Visit /\ row.sent = a[row.v] /\ row.v <= n /\ (row.v > 0 => row.sent # {})

FormOK ==
    GoodDraft(album, edition, form) /\ GoodDraft(album, edition, timer) /\ reread \in BOOLEAN
StoreOK == GoodDraft(album, edition, stored)
LoopsOK == loop \in [Loops -> Loop] /\ \A l \in Loops : GoodLoop(album, edition, loop[l])
RequestsOK == (\A r \in requests : GoodRequest(album, edition, r)) /\ AwaitedAfterPost
VisitOK == GoodVisit(album, edition, visit)
FixersOK ==
    fixer \in [Components -> Fixer] /\ \A c \in Components : GoodVisit(album, edition, fixer[c].row)
DeskOK == visits \in Nat /\ lead \in [Leads -> {"idle", "insert", "done"}]
CountersOK ==
    /\ edition \in 0 .. MaxEditions /\ lastKey \in Nat
    /\ album \in [0 .. MaxEditions -> SUBSET Photos] /\ album[0] = {}

Good ==
    /\ FormOK /\ StoreOK /\ LoopsOK /\ RequestsOK
    /\ VisitOK /\ FixersOK /\ DeskOK /\ CountersOK

\* The places together are PhotosInv.
LEMMA GoodIsPhotosInv == Good => PhotosInv
<1> SUFFICES ASSUME Good PROVE PhotosInv
  OBVIOUS
<1> USE DEF Good, FormOK, StoreOK, LoopsOK, RequestsOK, AwaitedAfterPost,
        VisitOK, FixersOK, DeskOK, CountersOK
<1>1. TypeOK
  <2>1. stored \in Draft /\ form \in Draft /\ timer \in Draft /\ visit \in Visit
    BY DEF GoodDraft, GoodVisit
  <2>2. requests \subseteq Request
    BY DEF GoodRequest
  <2> QED BY <2>1, <2>2 DEF TypeOK
<1>2. EditionsWhole /\ FilledWhenSent
  <2>1. \A d \in {stored, form, timer} :
          Whole(d) /\ (d.status \notin {"none", "draft"} => d.v > 0)
    BY DEF GoodDraft, Complete, Whole
  <2>2. \A l \in Loops :
          /\ Whole(loop[l].d) /\ (loop[l].pc # "idle" => loop[l].d.v > 0)
          /\ loop[l].pc = "upload" => Whole(loop[l].up) /\ loop[l].up.v > 0
    BY DEF GoodLoop, Complete, Whole
  <2>3. \A r \in requests : r.sent = album[r.v]
    BY DEF GoodRequest
  <2>4. visit.sent = album[visit.v] /\ (visit.v > 0 => visit.sent # {})
    BY DEF GoodVisit
  <2> QED BY <2>1, <2>2, <2>3, <2>4 DEF EditionsWhole, FilledWhenSent
<1>3. OfEditions
  <2>1. /\ stored.v <= edition /\ form.v <= edition /\ timer.v <= edition
        /\ \A l \in Loops : loop[l].d.v <= edition /\ loop[l].up.v <= edition
    BY DEF GoodDraft, GoodLoop, Complete
  <2>2. \A r \in requests : r.v <= edition /\ (r.pc = "checked" => r.sent # {})
    BY DEF GoodRequest
  <2>3. /\ visit.v <= edition
        /\ \A c \in Components :
            LET row == fixer[c].row
            IN  row.v <= edition /\ row.sent = album[row.v] /\ (row.v > 0 => row.sent # {})
    BY DEF GoodVisit
  <2> QED BY <2>1, <2>2, <2>3 DEF OfEditions
<1> QED BY <1>1, <1>2, <1>3 DEF PhotosInv

\* The empty values of each place are good.
LEMMA EmptyGood ==
    ASSUME CountersOK
    PROVE  /\ GoodDraft(album, edition, NoDraft)
           /\ GoodLoop(album, edition, NoLoop) /\ NoLoop \in Loop
           /\ GoodVisit(album, edition, NoVisit)
           /\ NoFixer \in Fixer /\ GoodVisit(album, edition, NoFixer.row)
<1>1. album[0] = {} /\ 0 <= edition
  BY BoundsAssumption DEF CountersOK
<1>2. /\ NoDraft \in Draft /\ NoDraft.files = {} /\ NoDraft.sent = {} /\ NoDraft.v = 0
      /\ NoDraft.status = "none"
  BY DEF NoDraft, Draft
<1>3. NoVisit \in Visit /\ NoVisit.sent = {} /\ NoVisit.v = 0
  BY DEF NoVisit, Visit
<1>4. /\ NoLoop \in Loop /\ NoLoop.pc = "idle" /\ NoLoop.d = NoDraft /\ NoLoop.up = NoDraft
      /\ NoFixer \in Fixer /\ NoFixer.row = NoVisit
  BY <1>2, <1>3 DEF NoLoop, Loop, NoFixer, Fixer
<1>5. GoodDraft(album, edition, NoDraft) /\ Complete(album, edition, NoDraft)
  BY <1>1, <1>2 DEF GoodDraft, Complete
<1>6. GoodVisit(album, edition, NoVisit)
  BY <1>1, <1>3 DEF GoodVisit
<1>7. GoodLoop(album, edition, NoLoop)
  BY <1>2, <1>1, <1>4, <1>5 DEF GoodLoop
<1> QED BY <1>4, <1>5, <1>6, <1>7

\* A request nobody waits for any more is still whole.
LEMMA OrphanGood ==
    ASSUME NEW a, NEW n, NEW r, GoodRequest(a, n, r) PROVE GoodRequest(a, n, Orphaned(r))
  BY DEF GoodRequest, Orphaned, Request

\* What a filled draft becomes when only its status or key changes.
LEMMA RestampGood ==
    ASSUME NEW a, NEW n, NEW d, d \in Draft, Complete(a, n, d), d.v > 0,
           NEW s \in {"none", "draft", "queued", "syncing", "synced", "failed"}, NEW k \in Nat
    PROVE  /\ GoodDraft(a, n, [d EXCEPT !.status = s])
           /\ GoodDraft(a, n, [d EXCEPT !.status = s, !.key = k])
<1>1. /\ [d EXCEPT !.status = s] \in Draft /\ [d EXCEPT !.status = s].files = d.files
      /\ [d EXCEPT !.status = s].sent = d.sent /\ [d EXCEPT !.status = s].v = d.v
  BY DEF Draft
<1>2. /\ [d EXCEPT !.status = s, !.key = k] \in Draft
      /\ [d EXCEPT !.status = s, !.key = k].files = d.files
      /\ [d EXCEPT !.status = s, !.key = k].sent = d.sent
      /\ [d EXCEPT !.status = s, !.key = k].v = d.v
  BY DEF Draft
<1> QED BY <1>1, <1>2 DEF GoodDraft, Complete

---------------------------------------------------------------------------
(* A new edition.                                                          *)

\* A copy of an older edition is as good for the album with one more.
LEMMA Grows ==
    ASSUME CountersOK, edition < MaxEditions, edition' = edition + 1,
           NEW photos, album' = [album EXCEPT ![edition + 1] = photos],
           NEW v \in Nat, v <= edition
    PROVE  album'[v] = album[v] /\ v <= edition'
<1>1. v \in 0 .. MaxEditions /\ v # edition + 1 /\ edition \in Nat
  BY BoundsAssumption DEF CountersOK
<1> QED BY <1>1 DEF CountersOK

---------------------------------------------------------------------------
(* The form.                                                               *)

LEMMA OpenFormGood == Good /\ OpenForm => Good'
<1> SUFFICES ASSUME Good, OpenForm PROVE Good'
  OBVIOUS
<1> USE DEF Good
<1>1. CASE stored # NoDraft
  BY <1>1 DEF OpenForm, FormOK, StoreOK, LoopsOK, RequestsOK, AwaitedAfterPost,
     VisitOK, FixersOK, DeskOK, CountersOK, server
<1>2. CASE stored = NoDraft
  <2>1. lastKey' = lastKey + 1
    BY <1>2 DEF OpenForm, FreshKey
  <2>2. visit.v > 0 => GoodDraft(album, edition, DraftFromServer)
    <3>1. visit \in Visit /\ visit.sent = album[visit.v] /\ visit.v <= edition /\ lastKey + 1 \in Nat
      BY DEF VisitOK, GoodVisit, CountersOK
    <3>2. /\ DraftFromServer \in Draft /\ DraftFromServer.files = {}
          /\ DraftFromServer.sent = visit.sent /\ DraftFromServer.v = visit.v
      BY <3>1 DEF DraftFromServer, NoDraft, Draft, Visit
    <3> QED BY <3>1, <3>2 DEF GoodDraft, Complete
  <2>3. GoodDraft(album, edition, NewDraft)
    <3>1. lastKey + 1 \in Nat /\ album[0] = {} /\ 0 <= edition
      BY DEF CountersOK
    <3>2. /\ NewDraft \in Draft /\ NewDraft.files = {} /\ NewDraft.sent = {}
          /\ NewDraft.v = 0 /\ NewDraft.status = "draft"
      BY <3>1 DEF NewDraft, NoDraft, Draft
    <3> QED BY <3>1, <3>2 DEF GoodDraft, Complete
  <2>4. GoodDraft(album, edition, stored') /\ form' = stored'
    BY <1>2, <2>2, <2>3 DEF OpenForm
  <2> QED BY <2>1, <2>4 DEF OpenForm, FormOK, StoreOK, LoopsOK, RequestsOK, AwaitedAfterPost,
     VisitOK, FixersOK, DeskOK, CountersOK, server
<1> QED BY <1>1, <1>2

\* The form and its autosave get the new edition, whose photos the album notes;
\* every other place has older ones.
LEMMA EditGood == Good /\ Edit => Good'
<1> SUFFICES ASSUME Good, Edit PROVE Good'
  OBVIOUS
<1>1. PICK files \in SUBSET Photos, sent \in SUBSET Photos :
        /\ form' = [form EXCEPT !.v = edition + 1, !.files = files, !.sent = sent]
        /\ timer' = form'
        /\ album' = [album EXCEPT ![edition + 1] = files \cup sent]
  BY DEF Edit, Persist
<1>2. /\ edition < MaxEditions /\ edition' = edition + 1 /\ form.status # "none"
      /\ UNCHANGED <<stored, reread, loop, requests, server, lastKey>>
  BY DEF Edit
<1>3. CountersOK /\ edition \in Nat /\ MaxEditions \in Nat /\ edition + 1 \in 0 .. MaxEditions
  BY <1>2, BoundsAssumption DEF Good, CountersOK
<1>4. CountersOK'
  BY <1>1, <1>2, <1>3 DEF CountersOK
<1>5. \A v \in Nat : v <= edition => album'[v] = album[v] /\ v <= edition'
  BY <1>1, <1>2, <1>3, Grows
<1>6. FormOK'
  <2>0. form \in Draft /\ edition + 1 \in Nat
    BY <1>3 DEF Good, FormOK, GoodDraft
  <2>1. /\ form' \in Draft /\ form'.files = files /\ form'.sent = sent
        /\ form'.v = edition + 1
    BY <1>1, <2>0 DEF Draft
  <2>2. album'[edition + 1] = files \cup sent
    BY <1>1, <1>3 DEF CountersOK
  <2>3. GoodDraft(album', edition', form')
    BY <1>2, <1>3, <2>1, <2>2 DEF GoodDraft, Complete
  <2> QED BY <1>1, <1>2, <2>3 DEF Good, FormOK
<1>7. StoreOK'
  BY <1>2, <1>5 DEF Good, StoreOK, GoodDraft, Complete, Draft
<1>8. LoopsOK'
  <2>1. ASSUME NEW l \in Loops PROVE GoodLoop(album', edition', loop[l])
    <3>1. /\ GoodLoop(album, edition, loop[l]) /\ loop[l].d.v \in Nat /\ loop[l].up.v \in Nat
          /\ loop[l].d.v <= edition /\ loop[l].up.v <= edition
      BY DEF Good, LoopsOK, GoodLoop, Complete, Loop, Draft
    <3>2. /\ album'[loop[l].d.v] = album[loop[l].d.v] /\ loop[l].d.v <= edition'
          /\ album'[loop[l].up.v] = album[loop[l].up.v] /\ loop[l].up.v <= edition'
      BY <1>5, <3>1
    <3> QED BY <3>1, <3>2 DEF GoodLoop, Complete
  <2> QED BY <1>2, <2>1 DEF Good, LoopsOK
<1>9. RequestsOK'
  <2>1. ASSUME NEW r \in requests PROVE GoodRequest(album', edition', r)
    <3>1. GoodRequest(album, edition, r) /\ r.v \in Nat /\ r.v <= edition
      BY DEF Good, RequestsOK, GoodRequest, Request
    <3>2. album'[r.v] = album[r.v] /\ r.v <= edition'
      BY <1>5, <3>1
    <3> QED BY <3>1, <3>2 DEF GoodRequest
  <2> QED BY <1>2, <2>1 DEF Good, RequestsOK, AwaitedAfterPost
<1>10. ASSUME NEW row, GoodVisit(album, edition, row)
       PROVE  GoodVisit(album', edition', row)
  <2>1. row.v \in Nat /\ row.v <= edition
    BY <1>10 DEF GoodVisit, Visit
  <2>2. album'[row.v] = album[row.v] /\ row.v <= edition'
    BY <1>5, <2>1
  <2> QED BY <1>10, <2>2 DEF GoodVisit
<1>11. VisitOK' /\ FixersOK'
  BY <1>2, <1>10 DEF Good, VisitOK, FixersOK, server
<1> QED BY <1>2, <1>4, <1>6, <1>7, <1>8, <1>9, <1>11 DEF Good, DeskOK, server

LEMMA AutosaveGood == Good /\ Autosave => Good'
  BY EmptyGood DEF Good, Autosave, FormOK, StoreOK, LoopsOK, RequestsOK, AwaitedAfterPost,
     VisitOK, FixersOK, DeskOK, CountersOK,
     server, counters

\* Submit and RetrySync requeue only what is filled in.
LEMMA RequeueGood ==
    ASSUME Good, form.v > 0, Requeue(form)
    PROVE  GoodDraft(album, edition, stored') /\ lastKey' \in Nat
<1>1. form \in Draft /\ Complete(album, edition, form) /\ lastKey \in Nat
  BY DEF Good, FormOK, GoodDraft, CountersOK
<1>2. CASE form.status = "failed"
  <2>1. stored' = [form EXCEPT !.status = "queued", !.key = lastKey + 1] /\ lastKey' = lastKey + 1
    BY <1>2 DEF Requeue, FreshKey
  <2>2. lastKey + 1 \in Nat
    BY <1>1
  <2> QED BY <1>1, <2>1, <2>2, RestampGood
<1>3. CASE form.status # "failed"
  <2>1. stored' = [form EXCEPT !.status = "queued"] /\ lastKey' = lastKey
    BY <1>3 DEF Requeue
  <2> QED BY <1>1, <2>1, RestampGood
<1> QED BY <1>2, <1>3

LEMMA SubmitGood == Good /\ Submit => Good'
<1> SUFFICES ASSUME Good, Submit PROVE Good'
  OBVIOUS
<1>1. GoodDraft(album, edition, stored') /\ lastKey' \in Nat
  BY RequeueGood DEF Submit
<1> QED BY <1>1, EmptyGood DEF Good, Submit, FormOK, StoreOK, LoopsOK, RequestsOK, AwaitedAfterPost,
     VisitOK, FixersOK, DeskOK, CountersOK, server

LEMMA RetrySyncGood == Good /\ RetrySync => Good'
<1> SUFFICES ASSUME Good, RetrySync PROVE Good'
  OBVIOUS
<1>1. GoodDraft(album, edition, stored') /\ lastKey' \in Nat
  <2>1. CASE form.status = "failed" /\ Requeue(form)
    <3>1. form.v > 0
      BY <2>1 DEF Good, FormOK, GoodDraft
    <3> QED BY <2>1, <3>1, RequeueGood
  <2>2. CASE UNCHANGED <<stored, lastKey>>
    BY <2>2 DEF Good, StoreOK, CountersOK
  <2> QED BY <2>1, <2>2 DEF RetrySync
<1> QED BY <1>1, EmptyGood DEF Good, RetrySync, FormOK, StoreOK, LoopsOK, RequestsOK, AwaitedAfterPost,
     VisitOK, FixersOK, DeskOK, CountersOK, server

LEMMA ReopenForEditGood == Good /\ ReopenForEdit => Good'
<1> SUFFICES ASSUME Good, ReopenForEdit PROVE Good'
  OBVIOUS
<1> DEFINE d == [form EXCEPT !.status = "draft", !.key = lastKey + 1]
<1>1. form \in Draft /\ Complete(album, edition, form) /\ form.v > 0 /\ lastKey + 1 \in Nat
  BY DEF ReopenForEdit, Good, FormOK, GoodDraft, CountersOK
<1>2. GoodDraft(album, edition, d)
  BY <1>1, RestampGood
<1>3. form' = d /\ timer' = d /\ lastKey' = lastKey + 1
  BY DEF ReopenForEdit, Persist, FreshKey
<1> HIDE DEF d
<1> QED BY <1>1, <1>2, <1>3 DEF ReopenForEdit, Good, FormOK, StoreOK, LoopsOK, RequestsOK, AwaitedAfterPost,
     VisitOK, FixersOK, DeskOK, CountersOK, server

LEMMA RereadGood == Good /\ Reread => Good'
  BY DEF Reread, Good, FormOK, StoreOK, LoopsOK, RequestsOK, AwaitedAfterPost,
     VisitOK, FixersOK, DeskOK, CountersOK, server, counters

LEMMA CloseTabGood == Good /\ CloseTab => Good'
<1> SUFFICES ASSUME Good, CloseTab PROVE Good'
  OBVIOUS
<1>0. CountersOK /\ UNCHANGED <<album, edition, lastKey>>
  BY DEF Good, CloseTab, counters
<1>1. FormOK'
  BY <1>0, EmptyGood DEF CloseTab, FormOK
<1>2. LoopsOK'
  BY <1>0, EmptyGood DEF CloseTab, LoopsOK
<1>3. RequestsOK'
  <2>1. \A r \in requests' : GoodRequest(album, edition, r) /\ r.by = {}
    <3>1. ASSUME NEW r \in requests PROVE GoodRequest(album, edition, Orphaned(r)) /\ Orphaned(r).by = {}
      BY OrphanGood DEF RequestsOK, Good, Orphaned, GoodRequest, Request
    <3> QED BY <3>1 DEF CloseTab
  <2> QED BY <1>0, <2>1 DEF RequestsOK, AwaitedAfterPost
<1> QED BY <1>0, <1>1, <1>2, <1>3 DEF CloseTab, Good, StoreOK, VisitOK, FixersOK, DeskOK, CountersOK, server

LEMMA OtherDeviceGood == Good /\ OtherDevice => Good'
  BY EmptyGood DEF OtherDevice, Good, FormOK, StoreOK, LoopsOK, RequestsOK, AwaitedAfterPost, VisitOK, FixersOK, DeskOK,
     CountersOK, server, counters

---------------------------------------------------------------------------
(* The sync loops.                                                         *)

\* One loop's entry is replaced by a good one.
LEMMA LoopChanged ==
    ASSUME LoopsOK, NEW l \in Loops, NEW x, GoodLoop(album, edition, x), loop' = [loop EXCEPT ![l] = x],
           UNCHANGED <<album, edition>>
    PROVE  LoopsOK'
  BY DEF LoopsOK, GoodLoop

\* A loop that has not posted is not answered, and may go on.
LEMMA StillAwaited ==
    ASSUME LoopsOK, RequestsOK, NEW l \in Loops, loop[l].pc \in {"idle", "read", "upload"},
           NEW x, loop' = [loop EXCEPT ![l] = x], UNCHANGED <<requests, album, edition>>
    PROVE  RequestsOK'
  BY DEF LoopsOK, RequestsOK, AwaitedAfterPost, GoodRequest, Request

LEMMA LoopReadGood == ASSUME NEW l \in Loops PROVE Good /\ LoopRead(l) => Good'
<1> SUFFICES ASSUME Good, LoopRead(l) PROVE Good'
  OBVIOUS
<1> DEFINE x == [NoLoop EXCEPT !.pc = "read", !.d = stored]
<1>1. x.pc = "read" /\ x.d = stored /\ x.up = NoDraft /\ x \in Loop
  BY EmptyGood DEF NoLoop, Loop, Good, StoreOK, GoodDraft
<1>2. loop' = [loop EXCEPT ![l] = x]
  BY DEF LoopRead
<1> HIDE DEF x
<1>3. GoodLoop(album, edition, x)
  BY <1>1, EmptyGood DEF LoopRead, ToSend, Good, StoreOK, GoodDraft, GoodLoop, Complete
<1>4. LoopsOK' /\ RequestsOK'
  BY <1>2, <1>3, LoopChanged, StillAwaited DEF LoopRead, Good, counters
<1> QED BY <1>4 DEF LoopRead, Good, FormOK, StoreOK, VisitOK, FixersOK, DeskOK, CountersOK, server, counters

LEMMA LoopStartGood == ASSUME NEW l \in Loops PROVE Good /\ LoopStart(l) => Good'
<1> SUFFICES ASSUME Good, LoopStart(l) PROVE Good'
  OBVIOUS
<1> DEFINE d == [loop[l].d EXCEPT !.status = "syncing"]
<1>1. loop[l].d \in Draft /\ Complete(album, edition, loop[l].d) /\ loop[l].d.v > 0
  BY DEF LoopStart, Good, LoopsOK, GoodLoop, Loop
<1>2. GoodDraft(album, edition, d) /\ d.v > 0
  BY <1>1, RestampGood DEF Draft
<1>3. GoodLoop(album, edition, [pc |-> "upload", d |-> d, up |-> d])
  BY <1>2 DEF GoodDraft, GoodLoop, Loop, Complete
<1>4. LoopsOK' /\ RequestsOK' /\ StoreOK'
  BY <1>2, <1>3, LoopChanged, StillAwaited DEF LoopStart, Good, StoreOK, counters
<1> QED BY <1>4 DEF LoopStart, Good, FormOK, VisitOK, FixersOK, DeskOK, CountersOK, server, counters

LEMMA UploadPhotoGood == ASSUME NEW l \in Loops PROVE Good /\ UploadPhoto(l) => Good'
<1> SUFFICES ASSUME Good, UploadPhoto(l) PROVE Good'
  OBVIOUS
<1>1. PICK photo \in loop[l].up.files :
        loop' = [loop EXCEPT ![l].up = Uploaded(loop[l].up, photo)]
        /\ stored' = Uploaded(loop[l].up, photo)
  BY DEF UploadPhoto
<1> DEFINE d == loop[l].up
           e == Uploaded(d, photo)
           x == [loop[l] EXCEPT !.up = e]
<1>2. /\ loop[l] \in Loop /\ d \in Draft /\ d.files \cup d.sent = album[d.v] /\ d.v <= edition /\ d.v > 0
      /\ photo \in Photos /\ loop[l].pc = "upload" /\ GoodLoop(album, edition, loop[l])
  BY DEF UploadPhoto, Good, LoopsOK, GoodLoop, Loop, Draft, Complete
<1>3. e \in Draft /\ e.v = d.v /\ e.files = d.files \ {photo} /\ e.sent = d.sent \cup {photo}
  BY <1>2 DEF Uploaded, Draft
<1>4. e.files \cup e.sent = album[e.v]
  BY <1>1, <1>2, <1>3
<1>5. GoodDraft(album, edition, e) /\ Complete(album, edition, e) /\ e.v > 0
  BY <1>2, <1>3, <1>4 DEF GoodDraft, Complete
<1>6. x \in Loop /\ x.pc = "upload" /\ x.d = loop[l].d /\ x.up = e
  BY <1>2, <1>3 DEF Loop
<1>7. loop' = [loop EXCEPT ![l] = x] /\ stored' = e
  BY <1>1
<1> HIDE DEF e, x
<1>8. GoodLoop(album, edition, x)
  BY <1>2, <1>5, <1>6 DEF GoodLoop, Complete
<1>9. LoopsOK' /\ StoreOK'
  BY <1>5, <1>7, <1>8, LoopChanged DEF Good, StoreOK, UploadPhoto, counters
<1>10. RequestsOK'
  BY <1>7, StillAwaited DEF UploadPhoto, Good, counters
<1> QED BY <1>9, <1>10 DEF UploadPhoto, Good, FormOK, VisitOK, FixersOK, DeskOK, CountersOK, server, counters

LEMMA PostChecklistGood == ASSUME NEW l \in Loops PROVE Good /\ PostChecklist(l) => Good'
<1> SUFFICES ASSUME Good, PostChecklist(l) PROVE Good'
  OBVIOUS
<1> DEFINE d == loop[l].up
           r == [pc |-> "sent", by |-> {l}, key |-> d.key, v |-> d.v, sent |-> d.sent]
           x == [pc |-> "post", d |-> d, up |-> NoDraft]
<1>1. d \in Draft /\ Complete(album, edition, d) /\ d.v > 0 /\ d.files = {}
  BY DEF PostChecklist, Good, LoopsOK, GoodLoop, Loop
<1>2. d.sent = album[d.v] /\ d.v <= edition
  BY <1>1 DEF Complete
<1>3. GoodRequest(album, edition, r)
  BY <1>1, <1>2 DEF GoodRequest, Request, Draft
<1>4. loop' = [loop EXCEPT ![l] = x] /\ UNCHANGED <<album, edition>>
  BY DEF PostChecklist, counters
<1>5. GoodLoop(album, edition, x)
  <2>1. NoDraft \in Draft /\ NoDraft.v <= edition
    BY EmptyGood DEF GoodDraft, Complete, Good
  <2> QED BY <1>1, <2>1 DEF GoodLoop, Loop, Complete
<1>6. LoopsOK'
  BY <1>4, <1>5, LoopChanged DEF Good
<1>7. requests' = requests \cup {r} /\ \A q \in requests' : GoodRequest(album, edition, q)
  BY <1>3 DEF PostChecklist, Post, Good, RequestsOK
<1>8. ASSUME NEW q \in requests', NEW k \in q.by PROVE loop'[k].pc \in {"post", "ok", "refused"}
  <2>1. k \in Loops
    BY <1>7 DEF GoodRequest, Request
  <2>2. CASE k = l
    BY <1>4, <2>1, <2>2 DEF Good, LoopsOK
  <2>3. CASE k # l
    BY <1>4, <1>7, <2>1, <2>3 DEF Good, LoopsOK, RequestsOK, AwaitedAfterPost
  <2> QED BY <2>2, <2>3
<1>9. RequestsOK'
  BY <1>4, <1>7, <1>8 DEF RequestsOK, AwaitedAfterPost
<1> QED BY <1>6, <1>9 DEF PostChecklist, Good, FormOK, StoreOK, VisitOK, FixersOK, DeskOK, CountersOK, server, counters

\* However a loop ends, the draft it puts back is good.
LEMMA SettleGood ==
    ASSUME NEW l \in Loops, NEW s \in {"queued", "synced", "failed"}, Good, loop[l].pc # "idle", Settle(l, s)
    PROVE  Good'
<1> DEFINE d == [loop[l].d EXCEPT !.status = s]
<1>1. loop[l].d \in Draft /\ Complete(album, edition, loop[l].d) /\ loop[l].d.v > 0
  BY DEF Good, LoopsOK, GoodLoop, Loop
<1>2. GoodDraft(album, edition, d)
  BY <1>1, RestampGood DEF Draft
<1>3. StoreOK' /\ FormOK'
  BY <1>2 DEF Settle, counters, Good, StoreOK, FormOK
<1>0. CountersOK /\ LoopsOK /\ UNCHANGED <<album, edition, lastKey>> /\ loop' = [loop EXCEPT ![l] = NoLoop]
  BY DEF Settle, Good, counters
<1>4. LoopsOK'
  BY <1>0, EmptyGood, LoopChanged
<1>5. RequestsOK'
  <2>1. ASSUME NEW q \in requests' PROVE GoodRequest(album, edition, q) /\ \A k \in q.by : loop'[k].pc \in {"post", "ok", "refused"}
    <3>1. PICK r \in requests : q = IF l \in r.by THEN Orphaned(r) ELSE r
      BY DEF Settle
    <3>2. GoodRequest(album, edition, r) /\ r \in Request
      BY DEF Good, RequestsOK, GoodRequest
    <3>3. CASE l \in r.by
      BY <3>1, <3>2, <3>3, OrphanGood DEF Orphaned, Request
    <3>4. CASE l \notin r.by
      <4>1. ASSUME NEW k \in r.by PROVE loop'[k] = loop[k]
        BY <3>2, <3>4 DEF Settle, Good, LoopsOK, Request
      <4> QED BY <3>1, <3>2, <3>4, <4>1 DEF Good, RequestsOK, AwaitedAfterPost
    <3> QED BY <3>3, <3>4
  <2> QED BY <1>0, <2>1 DEF RequestsOK, AwaitedAfterPost
<1> QED BY <1>0, <1>3, <1>4, <1>5 DEF Settle, Good, VisitOK, FixersOK, DeskOK, CountersOK, server, counters

LEMMA SyncEndsGood ==
    ASSUME NEW l \in Loops
    PROVE  Good /\ (SyncAnswered(l) \/ SyncInterrupted(l) \/ SyncDropped(l)) => Good'
  BY SettleGood DEF SyncAnswered, SyncInterrupted, SyncDropped

---------------------------------------------------------------------------
(* The server.                                                             *)

\* A request leaves, and the loop that waits for it is told so.
LEMMA AnswerGood ==
    ASSUME Good, NEW r \in requests, NEW pc \in {"ok", "refused"}, Answer(r, pc)
    PROVE  FormOK' /\ StoreOK' /\ LoopsOK' /\ RequestsOK' /\ CountersOK'
<1>1. ASSUME NEW l \in Loops
      PROVE  /\ GoodLoop(album, edition, loop'[l]) /\ loop'[l] \in Loop
             /\ loop[l].pc \in {"post", "ok", "refused"} => loop'[l].pc \in {"post", "ok", "refused"}
  <2>1. loop[l] \in Loop /\ GoodLoop(album, edition, loop[l])
    BY DEF Good, LoopsOK
  <2>2. CASE l \in r.by
    <3>1. loop'[l] = [loop[l] EXCEPT !.pc = pc] /\ loop[l].pc # "idle"
      BY <2>2 DEF Answer, Good, RequestsOK, AwaitedAfterPost
    <3>2. loop'[l] \in Loop /\ loop'[l].d = loop[l].d /\ loop'[l].up = loop[l].up /\ loop'[l].pc = pc
      BY <2>1, <3>1 DEF Loop
    <3> QED BY <2>1, <3>1, <3>2 DEF GoodLoop
  <2>3. CASE l \notin r.by
    <3>1. loop'[l] = loop[l]
      BY <2>3 DEF Answer
    <3> QED BY <2>1, <3>1
  <2> QED BY <2>2, <2>3
<1>0. UNCHANGED <<album, edition, lastKey>>
  BY DEF Answer, counters
<1>2. LoopsOK'
  BY <1>0, <1>1 DEF Answer, LoopsOK
<1>3. RequestsOK'
  <2>1. \A q \in requests' : q \in requests /\ GoodRequest(album, edition, q) /\ q.by \subseteq Loops
    BY DEF Answer, Good, RequestsOK, GoodRequest, Request
  <2> QED BY <1>0, <1>1, <2>1 DEF Good, RequestsOK, AwaitedAfterPost
<1> QED BY <1>0, <1>2, <1>3 DEF Answer, Good, FormOK, StoreOK, CountersOK, counters

LEMMA LostGood == ASSUME NEW r \in requests PROVE Good /\ Lost(r) => Good'
  BY DEF Lost, Good, FormOK, StoreOK, LoopsOK, RequestsOK, AwaitedAfterPost, VisitOK, FixersOK, DeskOK, CountersOK,
     device, server, counters

\* A request that has been checked is the same request.
LEMMA CheckedGood ==
    ASSUME Good, NEW r \in requests, Parsed(r),
           requests' = (requests \ {r}) \cup {[r EXCEPT !.pc = "checked"]},
           UNCHANGED <<loop, album, edition>>
    PROVE  RequestsOK'
<1> DEFINE e == [r EXCEPT !.pc = "checked"]
<1>1. GoodRequest(album, edition, e) /\ e.by = r.by
  BY DEF Good, RequestsOK, GoodRequest, Request, Parsed
<1> QED BY <1>1 DEF Good, RequestsOK, AwaitedAfterPost

LEMMA SyncVisitReadGood == ASSUME NEW r \in requests PROVE Good /\ SyncVisitRead(r) => Good'
<1> SUFFICES ASSUME Good, SyncVisitRead(r) PROVE Good'
  OBVIOUS
<1>1. VisitOK' /\ FixersOK' /\ DeskOK'
  BY DEF SyncVisitRead, Answer, Good, VisitOK, FixersOK, DeskOK, server, counters
<1>2. CASE Answer(r, "ok") \/ Answer(r, "refused")
  BY <1>1, <1>2, AnswerGood DEF Good
<1>3. CASE /\ Parsed(r) /\ requests' = (requests \ {r}) \cup {[r EXCEPT !.pc = "checked"]}
           /\ UNCHANGED <<device, counters>>
  BY <1>1, <1>3, CheckedGood DEF Good, FormOK, StoreOK, LoopsOK, CountersOK, device, counters
<1> QED BY <1>2, <1>3 DEF SyncVisitRead

LEMMA SyncVisitWriteGood == ASSUME NEW r \in requests PROVE Good /\ SyncVisitWrite(r) => Good'
<1> SUFFICES ASSUME Good, SyncVisitWrite(r) PROVE Good'
  OBVIOUS
<1>1. FormOK' /\ StoreOK' /\ LoopsOK' /\ RequestsOK' /\ CountersOK'
  BY AnswerGood DEF SyncVisitWrite
<1>2. /\ r \in Request /\ r.sent = album[r.v] /\ r.v <= edition /\ r.sent # {} /\ visit \in Visit
      /\ UNCHANGED <<album, edition>>
  BY DEF Good, RequestsOK, GoodRequest, VisitOK, GoodVisit, SyncVisitWrite, Answer, counters
<1>3. GoodVisit(album, edition, visit')
  <2> DEFINE row == [visit EXCEPT !.key = r.key, !.v = r.v, !.sent = r.sent, !.fixes = {}]
  <2>1. row \in Visit /\ row.sent = r.sent /\ row.v = r.v
    BY <1>2 DEF Visit, Request
  <2> QED BY <1>2, <2>1 DEF SyncVisitWrite, GoodVisit
<1> QED BY <1>1, <1>2, <1>3 DEF SyncVisitWrite, Good, VisitOK, FixersOK, DeskOK

LEMMA ApproveVisitGood == Good /\ ApproveVisit => Good'
<1> SUFFICES ASSUME Good, ApproveVisit PROVE Good'
  OBVIOUS
<1>1. GoodVisit(album, edition, [visit EXCEPT !.approved = TRUE])
  BY DEF Good, VisitOK, GoodVisit, Visit
<1> QED BY <1>1 DEF ApproveVisit, Good, FormOK, StoreOK, LoopsOK, RequestsOK, AwaitedAfterPost, VisitOK, FixersOK,
           DeskOK, CountersOK, device, counters

\* One entry of fixer is replaced by one with a whole row.
LEMMA FixerChanged ==
    ASSUME FixersOK, NEW c \in Components, NEW x \in Fixer, GoodVisit(album, edition, x.row), fixer' = [fixer EXCEPT ![c] = x],
           UNCHANGED <<album, edition>>
    PROVE  FixersOK'
  BY DEF FixersOK

LEMMA ResolveReadGood == ASSUME NEW c \in Components PROVE Good /\ ResolveRead(c) => Good'
<1> SUFFICES ASSUME Good, ResolveRead(c) PROVE Good'
  OBVIOUS
<1>1. [pc |-> "write", row |-> visit] \in Fixer /\ GoodVisit(album, edition, visit)
  BY DEF Good, VisitOK, GoodVisit, Fixer
<1>2. FixersOK'
  BY <1>1, FixerChanged DEF ResolveRead, Good, counters
<1> QED BY <1>2 DEF ResolveRead, Good, FormOK, StoreOK, LoopsOK, RequestsOK, AwaitedAfterPost, VisitOK, DeskOK,
           CountersOK, device, counters

LEMMA ResolveWriteGood == ASSUME NEW c \in Components PROVE Good /\ ResolveWrite(c) => Good'
<1> SUFFICES ASSUME Good, ResolveWrite(c) PROVE Good'
  OBVIOUS
<1> DEFINE row == fixer[c].row
           new == [visit EXCEPT !.v = row.v, !.sent = row.sent, !.fixes = row.fixes \cup {c}]
<1>1. fixer[c] \in Fixer /\ GoodVisit(album, edition, row) /\ visit \in Visit
  BY DEF Good, FixersOK, VisitOK, GoodVisit
<1>2. new \in Visit /\ new.v = row.v /\ new.sent = row.sent
  BY <1>1 DEF GoodVisit, Visit
<1>3. UNCHANGED <<album, edition, lastKey>>
  BY DEF ResolveWrite, counters
<1>4. VisitOK'
  BY <1>1, <1>2, <1>3 DEF ResolveWrite, GoodVisit, VisitOK
<1>5. FixersOK'
  BY <1>3, EmptyGood, FixerChanged DEF ResolveWrite, Good
<1> QED BY <1>3, <1>4, <1>5 DEF ResolveWrite, Good, FormOK, StoreOK, LoopsOK, RequestsOK, AwaitedAfterPost, DeskOK,
           CountersOK, device

LEMMA ScheduleGood ==
    ASSUME NEW p \in Leads
    PROVE  Good /\ (ScheduleRead(p) \/ ScheduleInsert(p)) => Good'
<1> SUFFICES ASSUME Good, ScheduleRead(p) \/ ScheduleInsert(p) PROVE Good'
  OBVIOUS
<1>1. DeskOK'
  BY DEF ScheduleRead, ScheduleInsert, Good, DeskOK
<1> QED BY <1>1 DEF ScheduleRead, ScheduleInsert, Good, FormOK, StoreOK, LoopsOK, RequestsOK, AwaitedAfterPost,
           VisitOK, FixersOK, CountersOK, device, counters

---------------------------------------------------------------------------
(* The results.                                                            *)

LEMMA InitGood == Init => Good
<1> SUFFICES ASSUME Init PROVE Good
  OBVIOUS
<1>0. CountersOK
  BY BoundsAssumption DEF Init, CountersOK
<1>1. FormOK /\ StoreOK /\ VisitOK
  BY <1>0, EmptyGood DEF Init, FormOK, StoreOK, VisitOK
<1>2. LoopsOK
  BY <1>0, EmptyGood DEF Init, LoopsOK
<1>3. FixersOK
  BY <1>0, EmptyGood DEF Init, FixersOK
<1>4. RequestsOK /\ DeskOK
  BY DEF Init, RequestsOK, AwaitedAfterPost, DeskOK
<1> QED BY <1>0, <1>1, <1>2, <1>3, <1>4 DEF Good

LEMMA NextGood == Good /\ [Next]_vars => Good'
<1> SUFFICES ASSUME Good, [Next]_vars PROVE Good'
  OBVIOUS
<1>1. CASE Inspector
  BY <1>1, OpenFormGood, EditGood, SubmitGood, RetrySyncGood, ReopenForEditGood, RereadGood, CloseTabGood,
     OtherDeviceGood DEF Inspector
<1>2. CASE Autosave
  BY <1>2, AutosaveGood
<1>3. CASE Server
  BY <1>3, LostGood, SyncVisitReadGood, SyncVisitWriteGood, ApproveVisitGood, ResolveReadGood,
     ResolveWriteGood, ScheduleGood DEF Server
<1>4. CASE \E l \in Loops : SyncLoop(l)
  BY <1>4, LoopReadGood, LoopStartGood, UploadPhotoGood, PostChecklistGood, SyncEndsGood DEF SyncLoop
<1>5. CASE UNCHANGED vars
  BY <1>5 DEF Good, FormOK, StoreOK, LoopsOK, RequestsOK, AwaitedAfterPost, VisitOK, FixersOK, DeskOK, CountersOK,
     vars, device, server, counters
<1> QED BY <1>1, <1>2, <1>3, <1>4, <1>5 DEF Next

\* PhotosInv always holds: it is inductive, place by place.
THEOREM PhotosInductive == Spec => []PhotosInv
<1>1. Spec => []Good
  BY InitGood, NextGood, PTL DEF Spec
<1> QED BY <1>1, GoodIsPhotosInv, PTL

\* However many loops, tabs, retries and corrections cross, each copy of an
\* edition on the device, in a request or on the server has the photos the form
\* showed in that edition, and what was submitted has at least one
\* (uploadPendingPhotos, syncOne and its error handler, draftFromServer,
\* resolveVisitCorrection).
THEOREM EditionsStayWhole == Spec => []EditionsWhole
<1>1. PhotosInv => EditionsWhole
  BY DEF PhotosInv
<1> QED BY <1>1, PhotosInductive, PTL

\* Every draft, request and row has the shape its interface declares.
THEOREM VisitTypes == Spec => []TypeOK
<1>1. PhotosInv => TypeOK
  BY DEF PhotosInv
<1> QED BY <1>1, PhotosInductive, PTL

---------------------------------------------------------------------------
(* One loop and a form that is left alone.                                 *)
(*                                                                         *)
(* A sync loop and the form both put the whole draft, and the server knows *)
(* a replay by its key.  Where one loop runs at a time, the form waits for *)
(* the outcome, the server is done with a POST before the next arrives,    *)
(* nobody changes the device and no lead sends anything back, the draft in *)
(* flight belongs to the loop (Flying), the form and its autosave follow   *)
(* the store (Following), and a key stands for one checklist (KeysTell).   *)

Plain ==
    /\ Ops \cap {"touch", "late", "device", "correct"} = {}
    /\ \A l, m \in Loops : l = m

\* The loop at work has the stored draft, in syncOne or, while photos are
\* uploaded, in uploadPendingPhotos; an answered one has nothing more under way.
Flying ==
    \A l \in Loops :
        /\ loop[l].pc # "idle" => InFlight /\ loop[l].d.key = stored.key /\ loop[l].d.v = stored.v
        /\ loop[l].pc \notin {"idle", "upload"} => loop[l].d = stored
        /\ loop[l].pc = "upload" => loop[l].up = stored
        /\ loop[l].pc \in {"post", "ok", "refused"} => stored.files = {}
        /\ loop[l].pc \in {"ok", "refused"} => requests = {}
        /\ loop[l].pc = "ok" => visit.v = stored.v

\* What the form or its autosave will put has the uploads the store has, or is
\* a newer edition.
Following ==
    /\ form # NoDraft => stored # NoDraft
    /\ timer # NoDraft =>
        /\ form # NoDraft /\ timer.status \in {"draft", "failed"}
        /\ timer.sent = stored.sent \/ (timer.v > stored.v /\ ~reread)
        /\ \/ timer.sent = form.sent /\ timer.v = form.v
           \/ timer.sent = stored.sent /\ form.sent = stored.sent
    /\ InFlight => timer = NoDraft /\ form.status \notin {"draft", "synced"}
    /\ form.status \in {"queued", "syncing"} => InFlight \/ reread
    /\ form # NoDraft /\ ~InFlight /\ ~reread => form.sent = stored.sent \/ form.v > stored.v
    /\ form.status = "synced" => form.sent = stored.sent

\* Neither the server nor a request knows the key.
Unsent(key) == visit.key # key /\ \A r \in requests : r.key # key

KeysTell ==
    /\ \A d \in {stored, form, timer} :
        d.key <= lastKey /\ (d.status = "draft" => Unsent(d.key))
    /\ visit.key <= lastKey
    /\ \A r \in requests :
        /\ r.key <= lastKey
        /\ visit.key = r.key => visit.v = r.v
        /\ InFlight /\ r.key = stored.key => r.v = stored.v
    /\ InFlight /\ visit.key = stored.key => visit.v = stored.v

\* One request at a time, and what it brings is what its loop has.
OneRequest ==
    /\ \A r, s \in requests : r = s
    /\ \A r \in requests : \A l \in r.by : r.v = stored.v

\* What the device says of the server.
Settled ==
    /\ stored = NoDraft => visit.v = 0 /\ requests = {}
    /\ stored.status = "synced" => visit.v = stored.v /\ requests = {} /\ stored.files = {}

NoCorrection == \A c \in Components : fixer[c].pc = "idle"

PlainInv == Flying /\ Following /\ KeysTell /\ OneRequest /\ Settled /\ NoCorrection

\* While nobody waits, a request is nobody's.
LEMMA NobodysRequest ==
    ASSUME Good, Flying, ~InFlight, NEW r \in requests
    PROVE  r.by = {}
BY DEF Good, RequestsOK, AwaitedAfterPost, GoodRequest, Request, Flying

\* What the server and the device's loops see of a step of the form alone: the
\* drafts keep their keys or draw new ones.
LEMMA FormPlain ==
    ASSUME Good, PlainInv, Following', lastKey' \in Nat, lastKey <= lastKey',
           UNCHANGED <<loop, requests, visit, fixer>>,
           \A d \in {stored', form', timer'} :
              /\ d.key <= lastKey'
              /\ d.status = "draft" => Unsent(d.key),
           ~InFlight \/ UNCHANGED stored,
           InFlight' => UNCHANGED stored \/ Unsent(stored'.key),
           stored' # stored => stored' # NoDraft /\ stored'.status # "synced"
    PROVE  PlainInv'
<1>1. \A r \in requests : r \in Request
    BY DEF Good, RequestsOK, GoodRequest
<1>2. lastKey \in Nat /\ visit.key \in Nat /\ \A r \in requests : r.key \in Nat
    BY <1>1 DEF Good, CountersOK, VisitOK, GoodVisit, Visit, Request
<1>3. Flying' /\ OneRequest'
    <2>1. CASE UNCHANGED stored
        BY <2>1 DEF PlainInv, Flying, OneRequest, InFlight
    <2>2. CASE ~InFlight
        BY <2>2, NobodysRequest DEF PlainInv, Flying, OneRequest
    <2> QED BY <2>1, <2>2
<1>4. KeysTell'
    <2>1. visit'.key <= lastKey' /\ \A r \in requests' : r.key <= lastKey'
        BY <1>2 DEF PlainInv, KeysTell
    <2>2. \A d \in {stored', form', timer'} : d.status = "draft" => Unsent(d.key)'
        BY DEF Unsent
    <2>3. /\ \A r \in requests' : InFlight' /\ r.key = stored'.key => r.v = stored'.v
          /\ InFlight' /\ visit'.key = stored'.key => visit'.v = stored'.v
        BY DEF PlainInv, KeysTell, Unsent, InFlight
    <2>4. \A r \in requests' : visit'.key = r.key => visit'.v = r.v
        BY DEF PlainInv, KeysTell
    <2> QED BY <2>1, <2>2, <2>3, <2>4 DEF KeysTell, Unsent
<1>5. Settled' /\ NoCorrection'
    BY DEF PlainInv, Settled, NoCorrection
<1> QED BY <1>3, <1>4, <1>5 DEF PlainInv

\* A key that was just drawn is known to nobody.
LEMMA FreshUnsent ==
    ASSUME Good, PlainInv
    PROVE  Unsent(lastKey + 1) /\ lastKey \in Nat /\ lastKey <= lastKey + 1
           /\ \A d \in {stored, form, timer} : d \in Draft /\ d.key \in Nat /\ d.key <= lastKey + 1
<1>1. \A r \in requests : r \in Request
    BY DEF Good, RequestsOK, GoodRequest
<1>2. lastKey \in Nat /\ visit.key \in Nat /\ \A r \in requests : r.key \in Nat
    BY <1>1 DEF Good, CountersOK, VisitOK, GoodVisit, Visit, Request
<1>3. \A d \in {stored, form, timer} : d \in Draft /\ d.key \in Nat /\ d.key <= lastKey
    BY DEF Good, StoreOK, FormOK, GoodDraft, Draft, PlainInv, KeysTell
<1> QED BY <1>2, <1>3 DEF PlainInv, KeysTell, Unsent

LEMMA OpenFormPlain == ASSUME Good, PlainInv, OpenForm PROVE PlainInv'
<1>1. UNCHANGED <<reread, timer, loop, requests, visit, fixer>> /\ form' = stored' /\ form = NoDraft
    BY DEF OpenForm, server
<1>0. timer = NoDraft
    BY <1>1 DEF PlainInv, Following
<1>2. CASE stored # NoDraft
    <2>1. UNCHANGED <<stored, lastKey>>
        BY <1>2 DEF OpenForm
    <2>2. Following'
        BY <1>0, <1>1, <1>2, <2>1 DEF PlainInv, Following, InFlight
    <2>3. \A d \in {stored', form', timer'} : d.key <= lastKey' /\ (d.status = "draft" => Unsent(d.key))
        BY <1>1, <2>1 DEF PlainInv, KeysTell
    <2> QED BY <1>1, <2>1, <2>2, <2>3, FreshUnsent, FormPlain
<1>3. CASE stored = NoDraft
    <2>1. visit.v = 0 /\ lastKey' = lastKey + 1 /\ stored' = NewDraft
        BY <1>3 DEF OpenForm, FreshKey, PlainInv, Settled
    <2>2. /\ NewDraft.status = "draft" /\ NewDraft.key = lastKey + 1 /\ stored.status = "none"
        BY <1>3 DEF NewDraft, NoDraft
    <2>3. ~InFlight /\ ~InFlight' /\ stored' # NoDraft /\ stored'.status # "synced"
        BY <2>1, <2>2 DEF InFlight, NoDraft
    <2>4. Following'
        BY <1>0, <1>1, <2>1, <2>2, <2>3 DEF Following
    <2>5. \A d \in {stored', form', timer'} : d.key <= lastKey' /\ (d.status = "draft" => Unsent(d.key))
        BY <1>1, <2>1, <2>2, FreshUnsent DEF PlainInv, KeysTell
    <2> QED BY <1>1, <2>1, <2>3, <2>4, <2>5, FreshUnsent, FormPlain
<1> QED BY <1>2, <1>3

\* What the inspector changes was read after the last attempt ended.
LEMMA Touched ==
    ASSUME Plain, PlainInv, MayTouch, form # NoDraft
    PROVE  /\ ~InFlight /\ ~reread /\ (form.sent = stored.sent \/ form.v > stored.v)
           /\ form.status \notin {"queued", "syncing"} /\ stored # NoDraft
BY DEF Plain, PlainInv, MayTouch, Following

\* What a change makes of the form.
LEMMA Edited ==
    ASSUME Good, Edit
    PROVE  /\ form \in Draft /\ form' \in Draft /\ timer' = form' /\ form'.v = edition + 1
           /\ form'.status = form.status /\ form'.key = form.key
           /\ form.status \notin {"none", "synced"} /\ form # NoDraft /\ MayTouch
           /\ edition' = edition + 1 /\ edition \in Nat
           /\ UNCHANGED <<stored, reread, loop, requests, visit, fixer, lastKey>>
<1>1. PICK files \in SUBSET Photos, sent \in SUBSET Photos :
        Persist([form EXCEPT !.v = edition + 1, !.files = files, !.sent = sent])
    BY DEF Edit
<1>2. form \in Draft /\ edition \in Nat
    BY BoundsAssumption DEF Good, FormOK, GoodDraft, CountersOK
<1>3. form.status \notin {"none", "synced"} /\ form # NoDraft
    BY DEF Edit, NoDraft
<1>4. /\ form' = [form EXCEPT !.v = edition + 1, !.files = files, !.sent = sent]
      /\ timer' = form'
    BY <1>1 DEF Persist
<1>0. edition + 1 \in Nat
    BY <1>2
<1>5. /\ form' \in Draft /\ form'.v = edition + 1 /\ form'.status = form.status /\ form'.key = form.key
    BY <1>0, <1>2, <1>4 DEF Draft
<1> QED BY <1>2, <1>3, <1>4, <1>5 DEF Edit, server

LEMMA EditPlain == ASSUME Plain, Good, PlainInv, Edit PROVE PlainInv'
<1>1. ~InFlight /\ ~reread /\ stored # NoDraft /\ form.status \in {"draft", "failed"}
    BY Edited, Touched DEF Draft
<1>2. stored.v \in Nat /\ form'.v > stored.v
    BY Edited DEF Good, StoreOK, GoodDraft, Complete, Draft
<1>3. Following'
    BY <1>1, <1>2, Edited DEF Following, InFlight
<1>4. \A e \in {stored', form', timer'} : e.key <= lastKey' /\ (e.status = "draft" => Unsent(e.key))
    BY Edited DEF PlainInv, KeysTell
<1> QED BY <1>1, <1>3, <1>4, Edited, FreshUnsent, FormPlain DEF InFlight

LEMMA AutosavePlain == ASSUME Good, PlainInv, Autosave PROVE PlainInv'
<1>1. /\ stored' = timer /\ timer' = NoDraft /\ timer # NoDraft
      /\ UNCHANGED <<form, reread, loop, requests, visit, fixer, lastKey>>
    BY DEF Autosave, server, counters
<1>2. ~InFlight /\ timer.status \in {"draft", "failed"}
      /\ (form.sent = timer.sent)
    BY <1>1 DEF PlainInv, Following
<1>6. ~InFlight'
    BY <1>1, <1>2 DEF InFlight
<1>3. Following'
    BY <1>1, <1>2, <1>6 DEF PlainInv, Following
<1>4. NoDraft.key = 0 /\ NoDraft.status = "none"
    BY DEF NoDraft
<1>5. \A e \in {stored', form', timer'} : e.key <= lastKey' /\ (e.status = "draft" => Unsent(e.key))
    BY <1>1, <1>4, FreshUnsent DEF PlainInv, KeysTell
<1> QED BY <1>1, <1>2, <1>3, <1>5, <1>6, FreshUnsent, FormPlain

\* A draft goes off under a key that nobody has seen, with the uploads the store
\* has or as a newer edition.
LEMMA RequeuePlain ==
    ASSUME Plain, Good, PlainInv, MayTouch, form.status \in {"draft", "failed"}, Requeue(form)
    PROVE  /\ ~InFlight /\ ~reread /\ stored'.status = "queued"
           /\ stored'.sent = stored.sent \/ stored'.v > stored.v
           /\ Unsent(stored'.key) /\ stored'.key <= lastKey'
           /\ lastKey' \in Nat /\ lastKey <= lastKey'
<1>1. form \in Draft /\ form # NoDraft
    BY DEF Good, FormOK, GoodDraft, NoDraft
<1>2. ~InFlight /\ ~reread /\ (form.sent = stored.sent \/ form.v > stored.v)
    BY <1>1, Touched
<1>3. CASE form.status = "failed"
    <2>1. lastKey' = lastKey + 1 /\ stored' = [form EXCEPT !.status = "queued", !.key = lastKey + 1]
        BY <1>3 DEF Requeue, FreshKey
    <2>2. stored'.status = "queued" /\ stored'.key = lastKey + 1 /\ stored'.sent = form.sent /\ stored'.v = form.v
        BY <1>1, <2>1 DEF Draft
    <2> QED BY <1>2, <2>1, <2>2, FreshUnsent
<1>4. CASE form.status = "draft"
    <2>1. lastKey' = lastKey /\ stored' = [form EXCEPT !.status = "queued"]
        BY <1>4 DEF Requeue
    <2>2. stored'.status = "queued" /\ stored'.key = form.key /\ stored'.sent = form.sent /\ stored'.v = form.v
        BY <1>1, <2>1 DEF Draft
    <2>3. Unsent(form.key) /\ form.key <= lastKey
        BY <1>4 DEF PlainInv, KeysTell
    <2> QED BY <1>2, <2>1, <2>2, <2>3, FreshUnsent
<1> QED BY <1>3, <1>4

LEMMA SubmitPlain == ASSUME Plain, Good, PlainInv, Submit PROVE PlainInv'
<1>1. form \in Draft /\ form.status \notin {"none", "synced"} /\ MayTouch /\ Requeue(form)
    BY DEF Submit, Good, FormOK, GoodDraft
<1>2. form # NoDraft
    BY <1>1 DEF NoDraft
<1>3. form.status \in {"draft", "failed"}
    BY <1>1, <1>2, Touched DEF Draft
<1>4. /\ form' = stored' /\ timer' = NoDraft
      /\ UNCHANGED <<reread, loop, requests, visit, fixer>>
    BY DEF Submit, server
<1>5. /\ ~InFlight /\ ~reread /\ stored'.status = "queued"
      /\ Unsent(stored'.key) /\ stored'.key <= lastKey'
      /\ lastKey' \in Nat /\ lastKey <= lastKey'
    BY <1>1, <1>3, RequeuePlain
<1>6. InFlight' /\ stored' # NoDraft
    BY <1>5 DEF InFlight, NoDraft
<1>7. Following'
    BY <1>4, <1>5, <1>6 DEF Following
<1>8. NoDraft.key = 0 /\ NoDraft.status = "none"
    BY DEF NoDraft
<1>9. \A e \in {stored', form', timer'} : e.key <= lastKey' /\ (e.status = "draft" => Unsent(e.key))
    BY <1>4, <1>5, <1>8
<1> QED BY <1>4, <1>5, <1>6, <1>7, <1>9, FormPlain

LEMMA RetrySyncPlain == ASSUME Plain, Good, PlainInv, RetrySync PROVE PlainInv'
<1>1. /\ timer' = NoDraft /\ form' = form /\ MayTouch
      /\ UNCHANGED <<reread, loop, requests, visit, fixer>>
    BY DEF RetrySync, server
<1>2. NoDraft.key = 0 /\ NoDraft.status = "none"
    BY DEF NoDraft
<1>3. CASE form.status = "failed" /\ Requeue(form)
    <2>1. /\ ~InFlight /\ ~reread /\ stored'.status = "queued"
          /\ Unsent(stored'.key) /\ stored'.key <= lastKey'
          /\ lastKey' \in Nat /\ lastKey <= lastKey'
        BY <1>1, <1>3, RequeuePlain
    <2>2. InFlight' /\ stored' # NoDraft
        BY <2>1, <1>2 DEF InFlight
    <2>3. Following'
        BY <1>1, <1>3, <2>2 DEF Following
    <2>4. form.key <= lastKey'
        BY <2>1, FreshUnsent DEF PlainInv, KeysTell
    <2>5. \A e \in {stored', form', timer'} : e.key <= lastKey' /\ (e.status = "draft" => Unsent(e.key))
        BY <1>1, <1>2, <1>3, <2>1, <2>4
    <2> QED BY <1>1, <2>1, <2>2, <2>3, <2>5, FormPlain
<1>4. CASE UNCHANGED <<stored, lastKey>>
    <2>1. Following'
        BY <1>1, <1>4 DEF PlainInv, Following, InFlight
    <2>2. \A e \in {stored', form', timer'} : e.key <= lastKey' /\ (e.status = "draft" => Unsent(e.key))
        BY <1>1, <1>2, <1>4, FreshUnsent DEF PlainInv, KeysTell
    <2> QED BY <1>1, <1>4, <2>1, <2>2, FreshUnsent, FormPlain
<1> QED BY <1>3, <1>4 DEF RetrySync

LEMMA ReopenForEditPlain == ASSUME Good, PlainInv, ReopenForEdit PROVE PlainInv'
<1> DEFINE d == [form EXCEPT !.status = "draft", !.key = lastKey + 1]
<1>1. form \in Draft /\ form.status = "synced"
    BY DEF ReopenForEdit, Good, FormOK, GoodDraft
<1>2. /\ form' = d /\ timer' = d /\ lastKey' = lastKey + 1
      /\ UNCHANGED <<stored, reread, loop, requests, visit, fixer>>
    BY DEF ReopenForEdit, Persist, FreshKey, server
<1>3. d.status = "draft" /\ d.key = lastKey + 1 /\ d.sent = form.sent
    BY <1>1 DEF Draft
<1> HIDE DEF d
<1>4. ~InFlight /\ form.sent = stored.sent /\ stored # NoDraft
    BY <1>1 DEF PlainInv, Following, NoDraft
<1>0. d # NoDraft
    BY <1>3 DEF NoDraft
<1>5. Following'
    BY <1>0, <1>2, <1>3, <1>4 DEF Following, InFlight
<1>6. \A e \in {stored', form', timer'} : e.key <= lastKey' /\ (e.status = "draft" => Unsent(e.key))
    BY <1>2, <1>3, FreshUnsent DEF PlainInv, KeysTell
<1> QED BY <1>2, <1>4, <1>5, <1>6, FreshUnsent, FormPlain

LEMMA RereadPlain == ASSUME Good, PlainInv, Reread PROVE PlainInv'
<1>1. reread /\ form' = stored /\ UNCHANGED <<stored, timer, loop, requests, visit, fixer, lastKey>>
    BY DEF Reread, server, counters
<1>2. Following'
    BY <1>1 DEF PlainInv, Following, InFlight
<1>3. \A e \in {stored', form', timer'} : e.key <= lastKey' /\ (e.status = "draft" => Unsent(e.key))
    BY <1>1, FreshUnsent DEF PlainInv, KeysTell
<1> QED BY <1>1, <1>2, <1>3, FreshUnsent, FormPlain

LEMMA CloseTabPlain == ASSUME Good, PlainInv, CloseTab PROVE PlainInv'
<1>1. /\ form' = NoDraft /\ timer' = NoDraft /\ requests' = {Orphaned(r) : r \in requests}
      /\ UNCHANGED <<stored, visit, fixer, lastKey>>
    BY DEF CloseTab, server, counters
<1>2. NoDraft.key = 0 /\ NoDraft.status = "none"
    BY DEF NoDraft
<1>3. \A l \in Loops : loop'[l].pc = "idle"
    BY DEF CloseTab, NoLoop
<1>4. \A q \in requests' : \E r \in requests : q = Orphaned(r) /\ q.by = {} /\ q.key = r.key /\ q.v = r.v
    BY <1>1 DEF Orphaned, Good, RequestsOK, GoodRequest, Request
<1>5. Flying'
    BY <1>3 DEF Flying
<1>6. Following'
    BY <1>1, <1>2 DEF Following, InFlight
<1>7. KeysTell'
    BY <1>1, <1>2, <1>4, FreshUnsent DEF PlainInv, KeysTell, Unsent, InFlight
<1>8. OneRequest'
    BY <1>1, <1>4 DEF PlainInv, OneRequest
<1>9. Settled' /\ NoCorrection'
    BY <1>1 DEF PlainInv, Settled, NoCorrection
<1> QED BY <1>5, <1>6, <1>7, <1>8, <1>9 DEF PlainInv

\* A loop takes a step with the draft in flight, and no draft gets a new key.
LEMMA FlightPlain ==
    ASSUME Good, PlainInv, InFlight, InFlight', UNCHANGED <<form, reread, timer, requests>>,
           UNCHANGED <<visit, fixer, lastKey>>,
           stored'.key = stored.key, stored'.v = stored.v, Flying'
    PROVE  PlainInv'
<1>0. stored' # NoDraft
    BY DEF InFlight, NoDraft
<1>1. Following'
    BY <1>0 DEF PlainInv, Following
<1>2. KeysTell'
    <2>1. stored'.status # "draft" /\ stored'.key <= lastKey'
        BY DEF InFlight, PlainInv, KeysTell
    <2> QED BY <2>1 DEF PlainInv, KeysTell, Unsent
<1>3. OneRequest'
    BY DEF PlainInv, OneRequest
<1>4. Settled' /\ NoCorrection'
    BY DEF PlainInv, Settled, NoCorrection, InFlight, NoDraft
<1> QED BY <1>1, <1>2, <1>3, <1>4 DEF PlainInv

\* There is no other loop.
LEMMA OnlyLoop ==
    ASSUME Plain, Good, NEW l \in Loops, NEW x, loop' = [loop EXCEPT ![l] = x]
    PROVE  \A m \in Loops : m = l /\ loop'[m] = x
BY DEF Plain, Good, LoopsOK

LEMMA LoopReadPlain ==
    ASSUME Plain, Good, PlainInv, NEW l \in Loops, LoopRead(l)
    PROVE  PlainInv'
<1> DEFINE x == [NoLoop EXCEPT !.pc = "read", !.d = stored]
<1>1. loop' = [loop EXCEPT ![l] = x] /\ InFlight
      /\ UNCHANGED <<stored, form, reread, timer, requests, visit, fixer, lastKey>>
    BY DEF LoopRead, ToSend, InFlight, server, counters
<1>2. x.pc = "read" /\ x.d = stored
    BY DEF NoLoop
<1> HIDE DEF x
<1>3. \A m \in Loops : m = l /\ loop'[m] = x
    BY <1>1, OnlyLoop
<1>4. Flying' /\ InFlight'
    BY <1>1, <1>2, <1>3 DEF Flying, InFlight
<1> QED BY <1>1, <1>4, FlightPlain

LEMMA LoopStartPlain ==
    ASSUME Plain, Good, PlainInv, NEW l \in Loops, LoopStart(l)
    PROVE  PlainInv'
<1> DEFINE d == [loop[l].d EXCEPT !.status = "syncing"]
           x == [pc |-> "upload", d |-> d, up |-> d]
<1>1. loop' = [loop EXCEPT ![l] = x] /\ stored' = d
      /\ UNCHANGED <<form, reread, timer, requests, visit, fixer, lastKey>>
    BY DEF LoopStart, server, counters
<1>2. InFlight /\ loop[l].d = stored /\ stored \in Draft
    BY DEF LoopStart, PlainInv, Flying, Good, StoreOK, GoodDraft
<1>3. d.status = "syncing" /\ d.key = stored.key /\ d.v = stored.v
    BY <1>2 DEF Draft
<1>4. x.pc = "upload" /\ x.d = d /\ x.up = d
    OBVIOUS
<1> HIDE DEF d, x
<1>5. \A m \in Loops : m = l /\ loop'[m] = x
    BY <1>1, OnlyLoop
<1>6. Flying' /\ InFlight'
    BY <1>1, <1>3, <1>4, <1>5 DEF Flying, InFlight
<1> QED BY <1>1, <1>2, <1>3, <1>6, FlightPlain

LEMMA UploadPhotoPlain ==
    ASSUME Plain, Good, PlainInv, NEW l \in Loops, UploadPhoto(l)
    PROVE  PlainInv'
<1>1. PICK photo \in loop[l].up.files :
        /\ loop' = [loop EXCEPT ![l].up = Uploaded(loop[l].up, photo)]
        /\ stored' = Uploaded(loop[l].up, photo)
        /\ UNCHANGED <<form, reread, timer, requests, visit, fixer, lastKey>>
    BY DEF UploadPhoto, server, counters
<1> DEFINE d == Uploaded(loop[l].up, photo)
           x == [loop[l] EXCEPT !.up = d]
<1>2. /\ InFlight /\ loop[l].up = stored /\ stored \in Draft /\ loop[l] \in Loop
      /\ loop[l].pc = "upload" /\ loop[l].d.key = stored.key /\ loop[l].d.v = stored.v
    BY DEF UploadPhoto, PlainInv, Flying, Good, StoreOK, GoodDraft, LoopsOK
<1>3. d.status = stored.status /\ d.key = stored.key /\ d.v = stored.v
    BY <1>2 DEF Draft, Uploaded
<1>4. loop' = [loop EXCEPT ![l] = x] /\ stored' = d
    BY <1>1
<1>7. x.pc = "upload" /\ x.d = loop[l].d /\ x.up = d
    BY <1>2 DEF Loop
<1> HIDE DEF d, x
<1>5. \A m \in Loops : m = l /\ loop'[m] = x
    BY <1>4, OnlyLoop
<1>6. Flying' /\ InFlight'
    BY <1>2, <1>3, <1>4, <1>5, <1>7 DEF Flying, InFlight
<1> QED BY <1>1, <1>2, <1>3, <1>4, <1>6, FlightPlain

\* What is posted is stored, and no other request is under way.
LEMMA PostChecklistPlain ==
    ASSUME Plain, Good, PlainInv, NEW l \in Loops, PostChecklist(l)
    PROVE  PlainInv'
<1> DEFINE d == loop[l].up
           x == [pc |-> "post", d |-> d, up |-> NoDraft]
           r == [pc |-> "sent", by |-> {l}, key |-> d.key, v |-> d.v, sent |-> d.sent]
<1>1. loop' = [loop EXCEPT ![l] = x] /\ requests = {} /\ requests' = {r} /\ d.files = {}
      /\ UNCHANGED <<stored, form, reread, timer, visit, fixer, lastKey>>
    BY DEF PostChecklist, Post, Plain, server, counters
<1>2. InFlight /\ d = stored
    BY DEF PostChecklist, PlainInv, Flying
<1>3. x.pc = "post" /\ x.d = d /\ r.key = d.key /\ r.v = d.v
    OBVIOUS
<1> HIDE DEF d, x, r
<1>0. \A m \in Loops : m = l /\ loop'[m] = x
    BY <1>1, OnlyLoop
<1>4. Flying' /\ InFlight'
    BY <1>0, <1>1, <1>2, <1>3 DEF Flying, InFlight
<1>5. Following'
    BY <1>1, <1>2 DEF PlainInv, Following, InFlight
<1>6. \A e \in {stored, form, timer} : e.status # "draft"
    BY <1>2 DEF PlainInv, Following, InFlight, NoDraft
<1>7. KeysTell'
    BY <1>1, <1>2, <1>3, <1>6 DEF PlainInv, KeysTell, InFlight
<1>8. OneRequest'
    BY <1>1, <1>2, <1>3 DEF OneRequest
<1>9. Settled' /\ NoCorrection'
    BY <1>1, <1>2 DEF PlainInv, Settled, NoCorrection, InFlight, NoDraft
<1> QED BY <1>4, <1>5, <1>7, <1>8, <1>9 DEF PlainInv

LEMMA SettlePlain ==
    ASSUME Plain, Good, PlainInv, NEW l \in Loops, NEW s \in {"queued", "synced", "failed"},
           loop[l].pc # "idle", Settle(l, s), s = "synced" => loop[l].pc = "ok"
    PROVE  PlainInv'
<1> DEFINE d == [loop[l].d EXCEPT !.status = s]
<1>1. /\ stored' = d /\ reread' = (form # NoDraft) /\ loop' = [loop EXCEPT ![l] = NoLoop]
      /\ requests' = {IF l \in r.by THEN Orphaned(r) ELSE r : r \in requests}
      /\ UNCHANGED <<form, timer, visit, fixer, lastKey>>
    BY DEF Settle, server, counters
<1>2. /\ InFlight /\ loop[l].d.key = stored.key /\ loop[l].d.v = stored.v
      /\ loop[l].d \in Draft /\ (s = "synced" => loop[l].d = stored)
    BY DEF PlainInv, Flying, Good, LoopsOK, Loop
<1>3. /\ d.status = s /\ d.key = stored.key /\ d.v = stored.v
      /\ s = "synced" => d.files = stored.files
    BY <1>2 DEF Draft
<1>4. NoLoop.pc = "idle"
    BY DEF NoLoop
<1>5. \A q \in requests' : \E r \in requests :
        q.key = r.key /\ q.v = r.v /\ q.by \subseteq r.by
        /\ q = (IF l \in r.by THEN Orphaned(r) ELSE r)
    BY <1>1 DEF Orphaned, Good, RequestsOK, GoodRequest, Request
<1> HIDE DEF d
<1>0. \A m \in Loops : loop'[m] = NoLoop
    BY <1>1, OnlyLoop
<1>6. Flying'
    BY <1>0, <1>4 DEF Flying
<1>7. Following'
    <2>1. timer' = NoDraft /\ form'.status \notin {"draft", "synced"}
        BY <1>1, <1>2 DEF PlainInv, Following
    <2>2. (form' = NoDraft => form'.status = "none") /\ stored' # NoDraft
        BY <1>1, <1>3 DEF NoDraft
    <2> QED BY <1>1, <2>1, <2>2 DEF Following
<1>8. KeysTell'
    <2>1. stored'.status # "draft" /\ stored'.key = stored.key /\ stored'.v = stored.v
        BY <1>1, <1>3
    <2>2. \A e \in {stored', form', timer'} : e.key <= lastKey' /\ (e.status = "draft" => Unsent(e.key)')
        BY <1>1, <1>5, <2>1 DEF PlainInv, KeysTell, Unsent
    <2>3. /\ visit'.key <= lastKey'
          /\ \A q \in requests' : /\ q.key <= lastKey'
                                  /\ visit'.key = q.key => visit'.v = q.v
                                  /\ q.key = stored'.key => q.v = stored'.v
          /\ visit'.key = stored'.key => visit'.v = stored'.v
        BY <1>1, <1>2, <1>5, <2>1 DEF PlainInv, KeysTell
    <2> QED BY <2>2, <2>3 DEF KeysTell
<1>9. OneRequest'
    BY <1>1, <1>3, <1>5 DEF PlainInv, OneRequest
<1>10. Settled'
    <2>1. stored' # NoDraft
        BY <1>1, <1>3 DEF NoDraft
    <2>2. ASSUME s = "synced"
          PROVE  visit'.v = stored'.v /\ requests' = {} /\ stored'.files = {}
        BY <1>1, <1>3, <2>2 DEF PlainInv, Flying
    <2> QED BY <1>1, <1>3, <2>1, <2>2 DEF Settled
<1>11. NoCorrection'
    BY <1>1 DEF PlainInv, NoCorrection
<1> QED BY <1>6, <1>7, <1>8, <1>9, <1>10, <1>11 DEF PlainInv

LEMMA SyncEndsPlain ==
    ASSUME Plain, Good, PlainInv, NEW l \in Loops,
           SyncAnswered(l) \/ SyncInterrupted(l) \/ SyncDropped(l)
    PROVE  PlainInv'
BY SettlePlain DEF SyncAnswered, SyncInterrupted, SyncDropped

\* The only request is answered, and the visit has what it brought or stays.
LEMMA AnswerPlain ==
    ASSUME Plain, Good, PlainInv, NEW r \in requests, NEW pc \in {"ok", "refused"},
           Answer(r, pc), UNCHANGED fixer,
           (visit'.key = visit.key /\ visit'.v = visit.v) \/ (visit'.key = r.key /\ visit'.v = r.v),
           pc = "ok" => visit'.v = r.v
    PROVE  PlainInv'
<1>1. /\ requests' = {} /\ UNCHANGED <<stored, form, reread, timer, lastKey>>
      /\ loop' = [l \in Loops |-> IF l \in r.by THEN [loop[l] EXCEPT !.pc = pc] ELSE loop[l]]
    BY DEF Answer, PlainInv, OneRequest, counters
<1>2. Flying'
    <2> SUFFICES ASSUME NEW l \in Loops
                 PROVE  /\ loop'[l].pc # "idle" =>
                            InFlight' /\ loop'[l].d.key = stored'.key /\ loop'[l].d.v = stored'.v
                        /\ loop'[l].pc \notin {"idle", "upload"} => loop'[l].d = stored'
                        /\ loop'[l].pc = "upload" => loop'[l].up = stored'
                        /\ loop'[l].pc \in {"post", "ok", "refused"} => stored'.files = {}
                        /\ loop'[l].pc = "ok" => visit'.v = stored'.v
        BY <1>1 DEF Flying
    <2>1. loop[l] \in Loop /\ loop[l].pc \notin {"ok", "refused"}
        BY DEF Good, LoopsOK, PlainInv, Flying
    <2>2. CASE l \in r.by
        <3>1. loop[l].pc = "post" /\ r.v = stored.v
            BY <2>1, <2>2 DEF Good, RequestsOK, AwaitedAfterPost, PlainInv, OneRequest
        <3>2. loop'[l].d = loop[l].d /\ loop'[l].pc = pc
            BY <1>1, <2>1, <2>2 DEF Loop
        <3> QED BY <1>1, <3>1, <3>2 DEF PlainInv, Flying, InFlight
    <2>3. CASE l \notin r.by
        BY <1>1, <2>1, <2>3 DEF PlainInv, Flying, InFlight
    <2> QED BY <2>2, <2>3
<1>3. Following'
    BY <1>1 DEF PlainInv, Following, InFlight
<1>4. KeysTell'
    BY <1>1 DEF PlainInv, KeysTell, Unsent, InFlight
<1>5. OneRequest'
    BY <1>1 DEF OneRequest
<1>6. Settled'
    BY <1>1 DEF PlainInv, Settled
<1>7. NoCorrection'
    BY DEF PlainInv, NoCorrection
<1> QED BY <1>2, <1>3, <1>4, <1>5, <1>6, <1>7 DEF PlainInv

LEMMA SyncVisitPlain ==
    ASSUME Plain, Good, PlainInv, NEW r \in requests, SyncVisitRead(r) \/ SyncVisitWrite(r)
    PROVE  PlainInv'
<1>0. visit \in Visit /\ r \in Request
    BY DEF Good, VisitOK, GoodVisit, RequestsOK, GoodRequest
<1>1. CASE SyncVisitWrite(r)
    <2>1. visit'.key = r.key /\ visit'.v = r.v
        BY <1>0, <1>1 DEF SyncVisitWrite, Visit
    <2> QED BY <1>1, <2>1, AnswerPlain DEF SyncVisitWrite
<1>2. CASE SyncVisitRead(r)
    <2>1. UNCHANGED <<visit, fixer>>
        BY <1>2 DEF SyncVisitRead, server
    <2>2. CASE visit.key = r.key /\ Answer(r, "ok")
        <3>1. visit'.v = r.v /\ visit'.key = r.key
            BY <2>1, <2>2 DEF PlainInv, KeysTell
        <3> QED BY <2>1, <2>2, <3>1, AnswerPlain
    <2>3. CASE Answer(r, "refused")
        BY <2>1, <2>3, AnswerPlain
    <2>4. CASE requests' = (requests \ {r}) \cup {[r EXCEPT !.pc = "checked"]}
               /\ UNCHANGED <<device, counters>>
        <3> DEFINE e == [r EXCEPT !.pc = "checked"]
        <3>1. requests' = {e} /\ e.key = r.key /\ e.v = r.v /\ e.by = r.by
            BY <1>0, <2>4 DEF PlainInv, OneRequest, Request
        <3> HIDE DEF e
        <3>2. UNCHANGED <<stored, form, reread, timer, loop, lastKey>>
            BY <2>4 DEF device, counters
        <3>3. Flying'
            BY <2>1, <3>1, <3>2 DEF PlainInv, Flying, InFlight
        <3>4. Following'
            BY <3>2 DEF PlainInv, Following, InFlight
        <3>5. KeysTell'
            BY <2>1, <3>1, <3>2 DEF PlainInv, KeysTell, Unsent, InFlight
        <3>6. OneRequest'
            BY <3>1, <3>2 DEF PlainInv, OneRequest
        <3>7. Settled' /\ NoCorrection'
            BY <2>1, <3>1, <3>2 DEF PlainInv, Settled, NoCorrection
        <3> QED BY <3>3, <3>4, <3>5, <3>6, <3>7 DEF PlainInv
    <2> QED BY <1>2, <2>2, <2>3, <2>4 DEF SyncVisitRead
<1> QED BY <1>1, <1>2

LEMMA ServerPlain ==
    ASSUME Plain, Good, PlainInv, Server
    PROVE  PlainInv'
<1>1. CASE \E r \in requests : Lost(r)
    <2>1. /\ requests' \subseteq requests
          /\ UNCHANGED <<stored, form, reread, timer, loop, visit, fixer, lastKey>>
        BY <1>1 DEF Lost, device, server, counters
    <2>2. Flying' /\ Following'
        BY <2>1 DEF PlainInv, Flying, Following, InFlight
    <2>3. KeysTell' /\ OneRequest'
        BY <2>1 DEF PlainInv, KeysTell, OneRequest, Unsent, InFlight
    <2>4. Settled' /\ NoCorrection'
        BY <2>1 DEF PlainInv, Settled, NoCorrection
    <2> QED BY <2>2, <2>3, <2>4 DEF PlainInv
<1>2. CASE ApproveVisit \/ \E p \in Leads : ScheduleRead(p) \/ ScheduleInsert(p)
    <2>1. visit'.key = visit.key /\ visit'.v = visit.v
        BY <1>2 DEF ApproveVisit, ScheduleRead, ScheduleInsert, Good, VisitOK, GoodVisit, Visit
    <2>2. UNCHANGED <<stored, form, reread, timer, loop, requests, fixer, lastKey>>
        BY <1>2 DEF ApproveVisit, ScheduleRead, ScheduleInsert, device, counters
    <2>3. Flying' /\ Following'
        BY <2>1, <2>2 DEF PlainInv, Flying, Following, InFlight
    <2>4. KeysTell' /\ OneRequest'
        BY <2>1, <2>2 DEF PlainInv, KeysTell, OneRequest, Unsent, InFlight
    <2>5. Settled' /\ NoCorrection'
        BY <2>1, <2>2 DEF PlainInv, Settled, NoCorrection
    <2> QED BY <2>3, <2>4, <2>5 DEF PlainInv
<1>3. ~ \E c \in Components : ResolveRead(c) \/ ResolveWrite(c)
    BY DEF Plain, ResolveRead, ResolveWrite, PlainInv, NoCorrection
<1> QED BY <1>1, <1>2, <1>3, SyncVisitPlain DEF Server

LEMMA InitPlain == Init => PlainInv
<1> SUFFICES ASSUME Init PROVE PlainInv
    OBVIOUS
<1>1. NoDraft.status = "none" /\ NoDraft.key = 0 /\ NoLoop.pc = "idle" /\ NoVisit.key = 0
      /\ NoVisit.v = 0 /\ NoFixer.pc = "idle"
    BY DEF NoDraft, NoLoop, NoVisit, NoFixer
<1>2. Flying /\ Following /\ OneRequest
    BY <1>1 DEF Init, Flying, Following, OneRequest, InFlight
<1>3. KeysTell /\ Settled /\ NoCorrection
    BY <1>1 DEF Init, KeysTell, Settled, NoCorrection, InFlight
<1> QED BY <1>2, <1>3 DEF PlainInv

LEMMA NextPlain == Plain /\ Good /\ PlainInv /\ [Next]_vars => PlainInv'
<1> SUFFICES ASSUME Plain, Good, PlainInv, [Next]_vars PROVE PlainInv'
    OBVIOUS
<1>1. CASE Inspector
    <2>1. ~OtherDevice
        BY DEF Plain, OtherDevice
    <2> QED BY <1>1, <2>1, OpenFormPlain, EditPlain, SubmitPlain, RetrySyncPlain, ReopenForEditPlain,
               RereadPlain, CloseTabPlain DEF Inspector
<1>2. CASE Autosave
    BY <1>2, AutosavePlain
<1>3. CASE Server
    BY <1>3, ServerPlain
<1>4. CASE \E l \in Loops : SyncLoop(l)
    BY <1>4, LoopReadPlain, LoopStartPlain, UploadPhotoPlain, PostChecklistPlain, SyncEndsPlain
       DEF SyncLoop
<1>5. CASE UNCHANGED vars
    BY <1>5 DEF vars, device, server, counters, PlainInv, Flying, Following, KeysTell, OneRequest,
       Settled, NoCorrection, Unsent, InFlight
<1> QED BY <1>1, <1>2, <1>3, <1>4, <1>5 DEF Next

\* Where one sync loop runs at a time and nobody touches the draft while it is
\* under way, "synced" on the device means that the server has this checklist
\* and these photos, tabs closed and answers lost included: a replay is told
\* from a retry by its key (syncOne, retrySync, reopenForEdit, syncVisit).
THEOREM SyncedIsSubmitted ==
    ASSUME Plain
    PROVE  Spec => []SyncedMeansSubmitted
<1>1. Init => Good /\ PlainInv
    BY InitGood, InitPlain
<1>2. (Good /\ PlainInv) /\ [Next]_vars => (Good /\ PlainInv)'
    BY NextGood, NextPlain
<1>3. Good /\ PlainInv => SyncedMeansSubmitted
    <2> SUFFICES ASSUME Good, PlainInv, stored.status = "synced"
                 PROVE  visit.v = stored.v /\ visit.sent = stored.sent
        BY DEF SyncedMeansSubmitted
    <2>1. stored.files \cup stored.sent = album[stored.v]
        BY DEF Good, StoreOK, GoodDraft, Complete
    <2>2. visit.v = stored.v /\ stored.files = {}
        BY DEF PlainInv, Settled
    <2> QED BY <2>1, <2>2 DEF Good, VisitOK, GoodVisit
<1> QED BY <1>1, <1>2, <1>3, PTL DEF Spec

\* A step of the form puts into the store the uploads the store has already, or
\* a newer edition.
LEMMA FormKeepsUploads ==
    ASSUME Plain, Good, PlainInv, Inspector \/ Autosave
    PROVE  stored.sent \subseteq stored'.sent \/ stored'.v > stored.v
<1>0. form \in Draft /\ stored \in Draft /\ ("touch" \notin Ops) /\ ~OtherDevice
    BY DEF Good, StoreOK, FormOK, GoodDraft, Plain, OtherDevice
<1>1. CASE OpenForm
    <2>1. CASE stored # NoDraft
        BY <1>1, <2>1 DEF OpenForm
    <2>2. CASE stored = NoDraft
        BY <2>2 DEF NoDraft
    <2> QED BY <2>1, <2>2
<1>2. ASSUME Requeue(form), MayTouch, form.status # "none"
      PROVE  stored.sent \subseteq stored'.sent \/ stored'.v > stored.v
    <2>1. form.sent = stored.sent \/ form.v > stored.v
        BY <1>2, Touched DEF NoDraft
    <2>2. stored'.sent = form.sent /\ stored'.v = form.v
        BY <1>0, <1>2 DEF Requeue, Draft
    <2> QED BY <2>1, <2>2
<1>3. CASE Submit
    BY <1>2, <1>3 DEF Submit
<1>4. CASE RetrySync
    BY <1>2, <1>4 DEF RetrySync
<1>5. CASE Autosave
    BY <1>5 DEF Autosave, PlainInv, Following
<1>6. CASE Edit \/ ReopenForEdit \/ Reread \/ CloseTab
    BY <1>6 DEF Edit, ReopenForEdit, Reread, CloseTab
<1> QED BY <1>0, <1>1, <1>3, <1>4, <1>5, <1>6 DEF Inspector

\* A step of the loop starts from the stored draft, and an upload adds to it;
\* only an interrupted batch goes back to what syncOne held.
LEMMA LoopKeepsUploads ==
    ASSUME Good, PlainInv, NEW l \in Loops, SyncLoop(l)
    PROVE  stored.sent \subseteq stored'.sent \/ BatchLost(l)
<1>1. /\ loop[l] \in Loop /\ stored \in Draft
      /\ loop[l].pc \notin {"idle", "upload"} => loop[l].d = stored
      /\ loop[l].pc = "upload" => loop[l].up = stored
    BY DEF Good, LoopsOK, StoreOK, GoodDraft, PlainInv, Flying
<1>3. CASE LoopRead(l) \/ PostChecklist(l)
    BY <1>3 DEF LoopRead, PostChecklist
<1>4. CASE LoopStart(l)
    BY <1>1, <1>4 DEF LoopStart, Draft
<1>5. CASE UploadPhoto(l)
    BY <1>1, <1>5 DEF UploadPhoto, Uploaded, Draft
<1>6. CASE SyncAnswered(l) \/ SyncInterrupted(l) \/ SyncDropped(l)
    <2>1. CASE BatchLost(l)
        BY <2>1
    <2>2. CASE ~BatchLost(l)
        <3>1. loop[l].d = stored
            BY <1>1, <1>6, <2>2 DEF BatchLost, SyncAnswered, SyncInterrupted, SyncDropped
        <3> QED BY <1>1, <1>6, <3>1 DEF SyncAnswered, SyncInterrupted, SyncDropped, Settle, Draft
    <2> QED BY <2>1, <2>2
<1> QED BY <1>3, <1>4, <1>5, <1>6 DEF SyncLoop

\* Under the same conditions an upload the store has recorded is forgotten in one
\* way only: its batch breaks off at a later photo, and the error handler of
\* syncOne puts back the draft from before the batch.  No autosave that fires
\* late, no retry, closed tab or failed POST does so.
THEOREM UploadsForgottenWithBatch ==
    ASSUME Plain
    PROVE  Spec => ForgottenWithBatch
<1>1. Init => Good /\ PlainInv
    BY InitGood, InitPlain
<1>2. (Good /\ PlainInv) /\ [Next]_vars => (Good /\ PlainInv)'
    BY NextGood, NextPlain
<1>3. (Good /\ PlainInv) /\ [Next]_vars
      => [\/ stored.sent \subseteq stored'.sent \/ OtherDevice
          \/ stored'.v > stored.v \/ \E l \in Loops : BatchLost(l)]_vars
    <2> SUFFICES ASSUME Good, PlainInv, Next
                 PROVE  \/ stored.sent \subseteq stored'.sent
                        \/ stored'.v > stored.v \/ \E l \in Loops : BatchLost(l)
        OBVIOUS
    <2>1. CASE Server
        BY <2>1 DEF Server, Lost, SyncVisitRead, SyncVisitWrite, Answer, ApproveVisit,
           ResolveRead, ResolveWrite, ScheduleRead, ScheduleInsert, device
    <2> QED BY <2>1, FormKeepsUploads, LoopKeepsUploads DEF Next
<1> QED BY <1>1, <1>2, <1>3, PTL DEF Spec, ForgottenWithBatch

---------------------------------------------------------------------------
(* Under the same conditions editions only climb from the form to the store, *)
(* from there to the requests and to the visit.                              *)

Climbing ==
    /\ visit.v <= stored.v /\ stored.v <= edition
    /\ \A r \in requests : visit.v <= r.v /\ r.v <= stored.v
    /\ form # NoDraft => stored.v <= form.v /\ form.v <= edition
    /\ timer # NoDraft => stored.v <= timer.v /\ timer.v <= form.v
    /\ form.status = "synced" => form.v = stored.v
    /\ timer # NoDraft /\ (reread \/ form.status = "synced") => timer.v = stored.v
    /\ visit.fixes = {}

LEMMA Editions ==
    ASSUME Good
    PROVE  /\ stored \in Draft /\ form \in Draft /\ timer \in Draft /\ visit \in Visit
           /\ stored.v \in Nat /\ form.v \in Nat /\ timer.v \in Nat /\ visit.v \in Nat
           /\ edition \in Nat
           /\ \A r \in requests : r \in Request /\ r.v \in Nat
           /\ NoDraft.v = 0 /\ NoDraft.status = "none"
<1>1. \A r \in requests : r \in Request /\ r.v \in Nat
    BY DEF Good, RequestsOK, GoodRequest, Request
<1>2. NoDraft.v = 0 /\ NoDraft.status = "none"
    BY DEF NoDraft
<1> QED BY <1>1, <1>2 DEF Good, FormOK, StoreOK, VisitOK, CountersOK, GoodDraft, GoodVisit, Draft, Visit

LEMMA OpenFormClimbs == ASSUME Good, PlainInv, Climbing, OpenForm PROVE Climbing'
<1>1. form = NoDraft /\ form' = stored' /\ UNCHANGED <<reread, timer, requests, visit, edition>>
    BY DEF OpenForm, server
<1>2. stored'.v = stored.v
    <2>1. CASE stored # NoDraft
        BY <2>1 DEF OpenForm
    <2>2. CASE stored = NoDraft
        <3>1. visit.v = 0 /\ stored' = NewDraft
            BY <2>2 DEF OpenForm, PlainInv, Settled
        <3> QED BY <2>2, <3>1 DEF NewDraft, NoDraft
    <2> QED BY <2>1, <2>2
<1>3. timer # NoDraft => timer.v = stored.v
    BY <1>1, Editions DEF Climbing
<1> QED BY <1>1, <1>2, <1>3, Editions DEF Climbing

LEMMA EditClimbs == ASSUME Plain, Good, PlainInv, Climbing, Edit PROVE Climbing'
<1>1. ~reread
    BY Edited, Touched
<1> QED BY <1>1, Edited, Editions DEF Climbing

LEMMA SubmitClimbs == ASSUME Plain, Good, PlainInv, Climbing, Submit \/ RetrySync PROVE Climbing'
<1>1. /\ timer' = NoDraft /\ UNCHANGED <<reread, requests, visit, edition>>
      /\ form.status \notin {"none", "synced"}
    BY DEF Submit, RetrySync, server
<1>2. form # NoDraft
    BY <1>1 DEF NoDraft
<1>3. CASE Requeue(form) /\ (form' = stored' \/ UNCHANGED form)
    <2>1. stored'.v = form.v /\ stored'.status = "queued"
        BY <1>3, Editions DEF Requeue, Draft
    <2>2. form'.v = form.v /\ form'.status # "synced"
        BY <1>1, <1>3, <2>1
    <2> QED BY <1>1, <1>2, <2>1, <2>2, Editions DEF Climbing
<1>4. CASE UNCHANGED <<stored, form>>
    BY <1>1, <1>4 DEF Climbing
<1> QED BY <1>3, <1>4 DEF Submit, RetrySync

LEMMA ReopenForEditClimbs == ASSUME Good, Climbing, ReopenForEdit PROVE Climbing'
<1> DEFINE d == [form EXCEPT !.status = "draft", !.key = lastKey + 1]
<1>1. /\ form' = d /\ timer' = d /\ form.status = "synced"
      /\ UNCHANGED <<stored, reread, requests, visit, edition>>
    BY DEF ReopenForEdit, Persist, server
<1>2. d.v = form.v /\ d.status = "draft" /\ form # NoDraft
    BY <1>1, Editions DEF Draft
<1> HIDE DEF d
<1> QED BY <1>1, <1>2, Editions DEF Climbing

LEMMA OtherFormClimbs ==
    ASSUME Good, Climbing, Reread \/ CloseTab \/ Autosave
    PROVE  Climbing'
<1>1. CASE Reread
    <2>1. reread /\ form' = stored /\ UNCHANGED <<stored, timer, requests, visit, edition>>
        BY <1>1 DEF Reread, server, counters
    <2> QED BY <2>1, Editions DEF Climbing
<1>2. CASE CloseTab
    <2>1. /\ form' = NoDraft /\ timer' = NoDraft /\ UNCHANGED <<stored, visit, edition>>
          /\ \A r \in requests' : \E s \in requests : r.v = s.v
        BY <1>2, Editions DEF CloseTab, server, counters, Orphaned, Request
    <2> QED BY <2>1, Editions DEF Climbing
<1>3. CASE Autosave
    <2>1. /\ timer # NoDraft /\ stored' = timer /\ timer' = NoDraft
          /\ UNCHANGED <<form, reread, requests, visit, edition>>
        BY <1>3 DEF Autosave, server, counters
    <2> QED BY <2>1, Editions DEF Climbing
<1> QED BY <1>1, <1>2, <1>3

LEMMA SyncLoopClimbs ==
    ASSUME Good, PlainInv, Climbing, NEW l \in Loops, SyncLoop(l)
    PROVE  Climbing'
<1>1. /\ loop[l] \in Loop /\ (loop[l].pc # "idle" => InFlight /\ loop[l].d.v = stored.v)
      /\ (loop[l].pc = "upload" => loop[l].up = stored)
      /\ (InFlight => timer = NoDraft /\ form.status # "synced")
    BY DEF Good, LoopsOK, PlainInv, Flying, Following
<1>2. CASE LoopRead(l)
    BY <1>2 DEF LoopRead, server, counters, Climbing
<1>3. CASE LoopStart(l) \/ UploadPhoto(l)
    <2>1. stored'.v = stored.v
        <3>1. loop[l].d \in Draft /\ loop[l].up \in Draft
            BY <1>1 DEF Loop
        <3>2. CASE LoopStart(l)
            BY <1>1, <3>1, <3>2 DEF LoopStart, Draft
        <3>3. CASE UploadPhoto(l)
            BY <1>1, <3>1, <3>3 DEF UploadPhoto, Uploaded, Draft
        <3> QED BY <1>3, <3>2, <3>3
    <2>2. UNCHANGED <<form, reread, timer, requests, visit, edition>>
        BY <1>3 DEF LoopStart, UploadPhoto, server, counters
    <2> QED BY <2>1, <2>2 DEF Climbing
<1>4. CASE PostChecklist(l)
    <2> DEFINE e == [pc |-> "sent", by |-> {l}, key |-> loop[l].up.key, v |-> loop[l].up.v, sent |-> loop[l].up.sent]
    <2>1. e.v = stored.v /\ requests' = requests \cup {e}
        BY <1>1, <1>4 DEF PostChecklist, Post
    <2> HIDE DEF e
    <2>2. UNCHANGED <<stored, form, reread, timer, visit, edition>>
        BY <1>4 DEF PostChecklist, server, counters
    <2> QED BY <2>1, <2>2, Editions DEF Climbing
<1>5. CASE SyncAnswered(l) \/ SyncInterrupted(l) \/ SyncDropped(l)
    <2>1. PICK st \in {"synced", "failed", "queued"} : loop[l].pc # "idle" /\ Settle(l, st)
        BY <1>5 DEF SyncAnswered, SyncInterrupted, SyncDropped
    <2>2. InFlight /\ loop[l].d.v = stored.v /\ loop[l].d \in Draft
        BY <1>1, <2>1 DEF Loop
    <2>3. stored'.v = stored.v /\ UNCHANGED <<form, timer, visit, edition>>
        BY <2>1, <2>2 DEF Settle, server, counters, Draft
    <2>4. \A r \in requests' : \E s \in requests : r.v = s.v
        BY <2>1, Editions DEF Settle, Orphaned, Request
    <2> QED BY <1>1, <2>2, <2>3, <2>4 DEF Climbing
<1> QED BY <1>2, <1>3, <1>4, <1>5 DEF SyncLoop

\* The server's answers take requests away, and a write takes over a request's
\* edition, of which there is one.
LEMMA ServerClimbs ==
    ASSUME Plain, Good, PlainInv, Climbing, Server
    PROVE  Climbing' /\ visit.v <= visit'.v /\ visit'.fixes = {}
           /\ ("approve" \notin Ops => visit'.approved = visit.approved)
<1>1. ~ \E c \in Components : ResolveRead(c) \/ ResolveWrite(c)
    BY DEF Plain, ResolveRead, ResolveWrite, PlainInv, NoCorrection
<1>2. ASSUME UNCHANGED <<stored, form, reread, timer, visit, edition>>,
             \A r \in requests' : \E s \in requests : r.v = s.v
      PROVE  Climbing' /\ visit.v <= visit'.v /\ visit'.fixes = {} /\ visit'.approved = visit.approved
    BY <1>2, Editions DEF Climbing
<1>3. ASSUME NEW r \in requests, Lost(r) \/ SyncVisitRead(r) \/ SyncVisitWrite(r)
      PROVE  Climbing' /\ visit.v <= visit'.v /\ visit'.fixes = {} /\ visit'.approved = visit.approved
    <2>1. UNCHANGED <<stored, form, reread, timer, edition>>
        BY <1>3 DEF Lost, SyncVisitRead, SyncVisitWrite, Answer, device, counters
    <2>2. CASE Lost(r) \/ SyncVisitRead(r)
        <3>1. UNCHANGED visit
            BY <2>2 DEF Lost, SyncVisitRead, server
        <3>2. [r EXCEPT !.pc = "checked"].v = r.v
            BY Editions DEF Request
        <3>3. \A s \in requests' : s \in requests \/ s = [r EXCEPT !.pc = "checked"]
            BY <2>2 DEF Lost, SyncVisitRead, Answer
        <3> QED BY <1>2, <2>1, <3>1, <3>2, <3>3
    <2>3. CASE SyncVisitWrite(r)
        <3>1. /\ visit'.v = r.v /\ visit'.fixes = {} /\ visit'.approved = visit.approved
              /\ requests' = {}
            BY <2>3, Editions DEF SyncVisitWrite, Answer, Visit, PlainInv, OneRequest
        <3> QED BY <2>1, <3>1, Editions DEF Climbing
    <2> QED BY <1>3, <2>2, <2>3
<1>4. CASE ApproveVisit
    <2>1. /\ visit'.v = visit.v /\ visit'.fixes = visit.fixes
          /\ UNCHANGED <<stored, form, reread, timer, requests, edition>> /\ "approve" \in Ops
        BY <1>4, Editions DEF ApproveVisit, device, counters, Visit
    <2> QED BY <2>1, Editions DEF Climbing
<1>5. CASE \E p \in Leads : ScheduleRead(p) \/ ScheduleInsert(p)
    BY <1>2, <1>5 DEF ScheduleRead, ScheduleInsert, device, counters
<1> QED BY <1>1, <1>3, <1>4, <1>5 DEF Server

LEMMA NextClimbs ==
    ASSUME Plain, Good, PlainInv, Climbing, [Next]_vars
    PROVE  /\ Climbing' /\ visit.v <= visit'.v
           /\ "approve" \notin Ops => visit'.approved = visit.approved
<1>1. CASE UNCHANGED vars
    BY <1>1, Editions DEF vars, device, server, counters, Climbing
<1>2. CASE Server
    BY <1>2, ServerClimbs
<1>3. CASE Inspector \/ Autosave \/ \E l \in Loops : SyncLoop(l)
    <2>1. UNCHANGED visit
        BY <1>3 DEF Inspector, SyncLoop, OpenForm, Edit, Submit, RetrySync, ReopenForEdit, Reread,
           CloseTab, OtherDevice, Autosave, LoopRead, LoopStart, UploadPhoto, PostChecklist,
           SyncAnswered, SyncInterrupted, SyncDropped, Settle, server
    <2>2. ~OtherDevice
        BY DEF Plain, OtherDevice
    <2>3. Climbing'
        BY <1>3, <2>2, OpenFormClimbs, EditClimbs, SubmitClimbs, ReopenForEditClimbs,
           OtherFormClimbs, SyncLoopClimbs DEF Inspector
    <2> QED BY <2>1, <2>3, Editions
<1> QED BY <1>1, <1>2, <1>3 DEF Next

\* Where one sync loop runs at a time, nobody touches the draft while it is under
\* way and no POST arrives late, the visit's row only advances until a lead
\* approves it: closed tabs, dropped connections, retries and reopened checklists
\* included, no older edition replaces a newer one (syncVisit).
THEOREM VisitAdvancesUnapproved ==
    ASSUME Plain, "approve" \notin Ops
    PROVE  Spec => VisitOnlyAdvances
<1> DEFINE J == Good /\ PlainInv /\ Climbing /\ ~visit.approved
<1>1. Init => J
    <2>1. Init => Climbing /\ ~visit.approved
        BY DEF Init, Climbing, NoDraft, NoVisit
    <2> QED BY <2>1, InitGood, InitPlain
<1>2. J /\ [Next]_vars => J'
    BY NextGood, NextPlain, NextClimbs
<1>3. J /\ [Next]_vars
      => [/\ visit.approved => visit'.v = visit.v /\ visit'.fixes = visit.fixes
          /\ visit'.v >= visit.v
          /\ visit'.v = visit.v => visit.fixes \subseteq visit'.fixes]_vars
    <2> SUFFICES ASSUME J, [Next]_vars PROVE visit'.v >= visit.v /\ visit.fixes = {}
        OBVIOUS
    <2>1. J'
        BY <1>2
    <2>2. visit.v <= visit'.v
        BY NextClimbs
    <2>3. visit.v \in Nat /\ visit'.v \in Nat
        BY <2>1 DEF Good, VisitOK, GoodVisit, Visit
    <2> QED BY <2>2, <2>3 DEF Climbing
<1> QED BY <1>1, <1>2, <1>3, PTL DEF Spec, VisitOnlyAdvances
============================================================================
