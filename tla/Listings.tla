------------------------------ MODULE Listings ------------------------------
(***************************************************************************)
(* The listing of one property for one semester, with the rooms it shows    *)
(* (module Rooms): OpsService.publishListing and what may come between its   *)
(* checks and its writes, the guards the database keeps, the landlord's KYC  *)
(* and strikes.                                                              *)
(*                                                                           *)
(* publishListing reads everything it decides on without a lock, and writes  *)
(* the listing last; the trigger on listings then looks again at the         *)
(* property and its visits, and shares the property's row.                   *)
(***************************************************************************)
EXTENDS Rooms

CONSTANTS
    StrikeLimit  \* strikes that suspend a landlord

ASSUME StrikesAssumption == StrikeLimit \in Nat

VARIABLES
    listing,  \* listings.status; none: no row
    landlord  \* clear: KYC verified and account active; and the strikes

vars == <<roomVars, listing, landlord>>

ListingStatus == {"none", "draft", "verified", "suspended"}
Landlord == [clear : BOOLEAN, strikes : 0 .. StrikeLimit]

TypeOK == RoomsTypeOK /\ listing \in ListingStatus /\ landlord \in Landlord

---------------------------------------------------------------------------
(* Publishing.                                                             *)

\* createDraftListing, the lead's and the landlord's, and the draft that
\* insertUnits makes sure of.
CreateDraftListing ==
    /\ "publish" \in Ops
    /\ listing = "none" /\ property.intent = "list"
    /\ listing' = "draft"
    /\ UNCHANGED <<roomVars, landlord>>

InventoryInReview == \E s \in SetIds : sets[s].status \in InReview

Publishable ==
    /\ property.intent = "list"
    /\ landlord.clear
    /\ "listed" \in passed
    /\ ~InventoryInReview

\* deleteRemovedUnits, a transaction of its own before an edited listing is
\* published again: rooms that nobody ever reserved are deleted, with their
\* beds.  (A reservation that gets in before the deletion makes it fail; one that
\* comes after it fails on its foreign key.)
DeleteRemovedUnits ==
    /\ "remove" \in Ops
    /\ listing = "verified"
    /\ \E r \in Rooms :
        /\ Live(r) /\ ~rooms[r].used
        /\ rooms' = [rooms EXCEPT ![r] = [NoRoom EXCEPT !.state = "archived"]]
        /\ stay' = [stay EXCEPT ![r] = NoStay]
        /\ sets' = [s \in SetIds |-> [sets[s] EXCEPT !.changes = {c \in @ : c[1] # r}]]
    /\ UNCHANGED <<property, spec, visits, req, locks, listing, landlord>>

PublishRead(p) ==
    /\ listing # "none" /\ Publishable
    /\ Begin(p, [NoRequest EXCEPT !.op = "publish", !.pc = "write"])
    /\ UNCHANGED <<table, visits, locks, listing, landlord>>

\* Slip: the trigger on listings is missing.
NoListingGuard == TRUE

\* enforce_listing_verification and enforce_listing_intent_on_publish.
ListingGuard == property.intent = "list" /\ "listed" \in passed

\* The rooms on the lead's form that are new are created, of a type of their
\* own; the lead has seen them.
PublishWrite(p) ==
    /\ req[p].op = "publish"
    /\ listing # "verified" => propertyLock = None
    /\ IF listing = "verified" \/ ListingGuard
       THEN /\ listing' = "verified"
            /\ \/ UNCHANGED <<rooms, visits>>
               \/ \E r \in Rooms, n \in 1 .. MaxBeds :
                    /\ CodeAvailable(r)
                    /\ rooms' = [rooms EXCEPT ![r] =
                         [NoRoom EXCEPT !.state = "live", !.capacity = n, !.beds = n]]
                    /\ passed' = passed \cup {r} /\ UNCHANGED awaiting
            /\ Finish(p) /\ UNCHANGED <<property, sets, stay, spec>>
       ELSE Refuse(p) /\ UNCHANGED listing
    /\ UNCHANGED landlord

---------------------------------------------------------------------------
(* The landlord's standing.                                                *)

\* setListingIntent of the staff also takes the listing down; the landlord's
\* is refused while the listing is up.
SwitchIntent(p) ==
    /\ SetListingIntent(p)
    /\ listing' = IF req[p].intent = "manage_only" /\ listing = "verified"
                  THEN "suspended" ELSE listing
    /\ UNCHANGED landlord

\* A lead decides on the KYC, a staff administrator suspends the account or
\* lets it back; its listings stay as they are.
DecideStanding ==
    /\ "standing" \in Ops
    /\ \E clear \in BOOLEAN : landlord' = [landlord EXCEPT !.clear = clear]
    /\ UNCHANGED <<roomVars, listing>>

\* The trigger on landlord_strikes runs with the lead's rights: the policies
\* let a lead update listings, but no row of users.
IssueStrike ==
    /\ "strike" \in Ops /\ landlord.strikes < StrikeLimit
    /\ landlord' = [landlord EXCEPT !.strikes = @ + 1]
    /\ listing' = IF landlord.strikes + 1 >= StrikeLimit /\ listing = "verified"
                  THEN "suspended" ELSE listing
    /\ UNCHANGED roomVars

---------------------------------------------------------------------------
Init ==
    /\ RoomsInit
    /\ listing = "none"
    /\ landlord = [clear |-> TRUE, strikes |-> 0]

Work(p) ==
    \/ RoomsWork(p) /\ UNCHANGED <<listing, landlord>>
    \/ SwitchIntent(p)
    \/ PublishWrite(p)

Calls(p) ==
    \/ (RoomsCalls(p) \/ Fail(p)) /\ UNCHANGED <<listing, landlord>>
    \/ PublishRead(p)

Around ==
    \/ RoomsAround /\ UNCHANGED <<listing, landlord>>
    \/ CreateDraftListing \/ DeleteRemovedUnits
    \/ DecideStanding \/ IssueStrike

Next == Around \/ \E p \in Reqs : Work(p) \/ Calls(p)

Spec == Init /\ [][Next]_vars

\* A request that has begun goes on; nobody has to make one.  Locks are granted
\* in the order they are asked for, so a waiting request is not passed over for
\* ever.
FairSpec == Spec /\ \A p \in Reqs : SF_vars(Work(p))

---------------------------------------------------------------------------
(* What publishing promises.                                               *)

\* A room that a landlord proposed is shown to students only after an approved
\* visit saw it: the way through manage-only, where no visit is asked for, or
\* through a set submitted before a switch, does not lead around it.
ShownRoomsWereSeen == listing = "verified" => \A r \in Rooms : Live(r) => r \in passed

\* A listing is up only on a property that is to be listed and was visited
\* since its last switch, whatever switches, visits and publishings cross.
ListedIsListable == listing = "verified" => property.intent = "list" /\ "listed" \in passed

\* Every request is answered, those in a deadlock over the property's row and
\* the change set's row included.
RequestsAnswered == \A p \in Reqs : []<>(req[p] = NoRequest)
============================================================================
