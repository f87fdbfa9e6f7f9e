--------------------------- MODULE ListingsProofs ---------------------------
(***************************************************************************)
(* For any rooms, change sets, requests and sizes: every value is well typed, *)
(* a room has the beds it says, a listing is up only on a property that is to *)
(* be listed and was visited, and every room it shows was seen by a visit.    *)
(*                                                                           *)
(* The inductive invariant says what the row locks are for: there is one open *)
(* change set (OneOpen), it does not change under the request that holds it   *)
(* (Holds), and the rooms it proposes are not there yet or are small          *)
(* (Fitting), so that applying it retires no bed that is reserved when the    *)
(* beds are looked for (BedsForAll).  A second one, SeenInv, stands on it and *)
(* says what the visits saw of the rooms and of the sets.                     *)
(***************************************************************************)
EXTENDS Listings, TLAPS

\* A room as it should be while its room type says n.
SafeRoom(room, n) ==
    /\ room.beds = room.capacity
    /\ room.state = "live" /\ room.typed => room.capacity = n
    /\ room.state = "none" => room.capacity = 0

\* A room the set proposes is not there yet, or is one that was declared; a
\* room whose size it changes is there.
Fitting(set) ==
    \A r \in Rooms :
        /\ <<r, "create">> \in set.changes => rooms[r].capacity <= 1
        /\ <<r, "update">> \in set.changes => rooms[r].state # "none"

\* Whoever holds a bed, or is about to, has one that is not retired, but those
\* whose bed was retired under them.
BedsForAll ==
    /\ stay \in [Rooms -> Stay]
    /\ \A r \in Rooms : stay[r].coming + stay[r].taken <= rooms[r].beds

OneOpen == \A s, t \in OpenSets : s = t
ClosedEmpty == \A s \in SetIds : sets[s].status = "closed" => sets[s] = ClosedSet

TableOK ==
    /\ sets \in [SetIds -> ChangeSet] /\ rooms \in [Rooms -> Room] /\ spec \in 0 .. MaxBeds
    /\ \A r \in Rooms : SafeRoom(rooms[r], spec)
    /\ BedsForAll
    /\ OneOpen /\ ClosedEmpty
    /\ \A s \in SetIds : Fitting(sets[s])

RestOK ==
    /\ property \in Property
    /\ passed \subseteq Things /\ awaiting \subseteq Things
    /\ listing \in ListingStatus /\ landlord \in Landlord

LocksOK ==
    /\ req \in [Reqs -> Request]
    /\ propertyLock \in Reqs \cup {None} /\ setLock \in Reqs \cup {None}

Reviewing == {"submit", "cancel", "approve"}

\* What a request knows of the rows, by the step it has reached.
Knows(q) ==
    /\ q.op \in Reviewing \cup {"edit"} => q.set \in SetIds
    /\ q.op \in {"create", "update", "archive", "edit"} => q.room \in Rooms
    /\ q.op = "update" => rooms[q.room].state # "none"

\* What it holds.
Holds(p) ==
    /\ req[p].op \in Staging /\ req[p].pc = "write" =>
            req[p].set \in SetIds /\ setLock = p /\ OpenSets \subseteq {req[p].set}
    /\ req[p].op \in Reviewing /\ req[p].pc \in {"property", "write"} =>
            setLock = p /\ req[p].set \in OpenSets

HoldsInv == \A p \in Reqs : Knows(req[p]) /\ Holds(p)

Inv == TableOK /\ RestOK /\ LocksOK /\ HoldsInv

\* No room is forgotten.
StatesKept == \A r \in Rooms : rooms[r].state # "none" => rooms'[r].state # "none"

---------------------------------------------------------------------------
(* What the steps have in common.                                          *)

LEMMA InvTyped == Inv => TypeOK /\ BedsMatchCapacity
<1> SUFFICES ASSUME Inv PROVE TypeOK /\ BedsMatchCapacity
    OBVIOUS
<1>1. TypeOK
    BY DEF Inv, TableOK, BedsForAll, RestOK, LocksOK, TypeOK, RoomsTypeOK
<1>2. \A r \in Rooms : stay[r].taken <= rooms[r].beds
    BY DEF Inv, TableOK, BedsForAll, Stay, Room
<1> QED BY <1>1, <1>2 DEF Inv, TableOK, BedsMatchCapacity, SafeRoom, Live

LEMMA SameTable ==
    ASSUME TableOK, UNCHANGED <<sets, rooms, stay, spec>>
    PROVE  TableOK' /\ StatesKept /\ OpenSets' = OpenSets
BY DEF TableOK, BedsForAll, StatesKept, OpenSets, OneOpen, ClosedEmpty, Fitting

\* A request that is answered takes nothing away from the others, unless it
\* opens or closes a set under their lock.
LEMMA Answering ==
    ASSUME LocksOK, HoldsInv, StatesKept, NEW p \in Reqs, Finish(p),
           setLock \in Reqs \ {p} => OpenSets' = OpenSets
    PROVE  LocksOK' /\ HoldsInv'
<1>1. NoRequest \in Request
    BY BedsAssumption DEF NoRequest, Request
<1>2. LocksOK'
    BY <1>1 DEF LocksOK, Finish
<1>3. ASSUME NEW q \in Reqs PROVE Knows(req[q])' /\ Holds(q)'
    <2>1. CASE q = p
        <3>1. req'[q].op = "none"
            BY <2>1 DEF LocksOK, Finish, NoRequest
        <3> QED BY <3>1 DEF Knows, Holds, Staging, Reviewing
    <2>2. CASE q # p
        <3>1. req'[q] = req[q]
            BY <2>2 DEF LocksOK, Finish
        <3>2. setLock = q => setLock' = q
            BY <2>2 DEF Finish
        <3>3. Knows(req[q])'
            BY <3>1 DEF Knows, HoldsInv, StatesKept
        <3>4. Holds(q)'
            BY <3>1, <3>2, <2>2 DEF Holds, HoldsInv
        <3> QED BY <3>3, <3>4
    <2> QED BY <2>1, <2>2
<1> QED BY <1>2, <1>3 DEF HoldsInv

\* So does a step of nobody's.
LEMMA Aside ==
    ASSUME LocksOK, HoldsInv, StatesKept, UNCHANGED <<req, locks>>, OpenSets' = OpenSets
    PROVE  LocksOK' /\ HoldsInv'
<1>1. LocksOK'
    BY DEF LocksOK, locks
<1>2. ASSUME NEW q \in Reqs PROVE Knows(req[q])' /\ Holds(q)'
    <2>1. Knows(req[q])'
        BY DEF Knows, HoldsInv, StatesKept
    <2>2. Holds(q)'
        BY DEF Holds, HoldsInv, locks
    <2> QED BY <2>1, <2>2
<1> QED BY <1>1, <1>2 DEF HoldsInv

\* A request goes one step on and may take the set's row.
LEMMA Stepping ==
    ASSUME LocksOK, HoldsInv, UNCHANGED <<sets, rooms>>,
           NEW p \in Reqs, NEW q \in Request, req' = [req EXCEPT ![p] = q],
           propertyLock' \in {propertyLock, p},
           \/ UNCHANGED setLock
           \/ SetFree(p) /\ setLock' = p,
           Knows(q),
           q.op \in Staging /\ q.pc = "write" =>
              q.set \in SetIds /\ setLock' = p /\ OpenSets \subseteq {q.set},
           q.op \in Reviewing /\ q.pc \in {"property", "write"} =>
              setLock' = p /\ q.set \in OpenSets
    PROVE  LocksOK' /\ HoldsInv'
<1>1. LocksOK'
    BY DEF LocksOK
<1>2. OpenSets' = OpenSets
    BY DEF OpenSets
<1>3. ASSUME NEW o \in Reqs PROVE Knows(req[o])' /\ Holds(o)'
    <2>1. CASE o = p
        <3>1. req'[o] = q
            BY <2>1 DEF LocksOK
        <3>2. Knows(req[o])'
            BY <3>1 DEF Knows
        <3>3. Holds(o)'
            BY <3>1, <2>1, <1>2 DEF Holds
        <3> QED BY <3>2, <3>3
    <2>2. CASE o # p
        <3>1. req'[o] = req[o]
            BY <2>2 DEF LocksOK
        <3>2. setLock = o => setLock' = o
            BY <2>2, RoomsAssumption DEF SetFree
        <3>3. Knows(req[o])'
            BY <3>1 DEF Knows, HoldsInv
        <3>4. Holds(o)'
            BY <3>1, <3>2, <1>2 DEF Holds, HoldsInv
        <3> QED BY <3>3, <3>4
    <2> QED BY <2>1, <2>2
<1> QED BY <1>1, <1>3 DEF HoldsInv

LEMMA Refusing ==
    ASSUME Inv, NEW p \in Reqs, Refuse(p), UNCHANGED <<listing, landlord>>
    PROVE  Inv'
<1>1. TableOK' /\ StatesKept /\ OpenSets' = OpenSets
    BY SameTable DEF Inv, Refuse, table
<1>2. LocksOK' /\ HoldsInv'
    BY <1>1, Answering DEF Inv, Refuse
<1>3. RestOK'
    BY DEF Inv, RestOK, Refuse, table, visits
<1> QED BY <1>1, <1>2, <1>3 DEF Inv

---------------------------------------------------------------------------
(* Applying a change set.                                                  *)

\* A room goes over to the new capacity of its type, bed by bed.
LEMMA Resized ==
    ASSUME NEW room \in Room, NEW n \in 0 .. MaxBeds, room.beds = room.capacity
    PROVE  /\ Resize(room, n) = [room EXCEPT !.beds = n, !.capacity = n]
           /\ Resize(room, n) \in Room
<1>1. /\ room.beds \in Nat /\ n \in Nat /\ (room.beds + n) - room.capacity = n
    BY BedsAssumption DEF Room
<1>2. Resize(room, n) = [room EXCEPT !.beds = n, !.capacity = n]
    BY <1>1 DEF Resize
<1>3. [room EXCEPT !.beds = n, !.capacity = n] \in Room
    BY <1>1 DEF Room
<1> QED BY <1>2, <1>3

\* A smaller capacity leaves the beds that are taken.
LEMMA Spared ==
    ASSUME TableOK, NEW r \in Rooms, NEW n \in Nat, Resizable(r, n)
    PROVE  stay[r].taken <= n
<1>1. /\ rooms[r].beds \in Nat /\ stay[r].taken \in Nat
      /\ rooms[r].beds = rooms[r].capacity
    BY DEF TableOK, BedsForAll, SafeRoom, Room, Stay
<1> QED BY <1>1 DEF Resizable

LEMMA Applied ==
    ASSUME TableOK, NEW set \in ChangeSet, Fitting(set), Applicable(set), NEW r \in Rooms
    PROVE  /\ ApplyUnitChanges(set, r) \in Room
           /\ SafeRoom(ApplyUnitChanges(set, r), NewSpec(set))
           /\ stay[r].taken <= ApplyUnitChanges(set, r).beds
           /\ rooms[r].state # "none" => ApplyUnitChanges(set, r).state # "none"
<1> DEFINE n == NewSpec(set)
           typed == ApplyRoomTypeVersion(r, n)
           made == IF <<r, "create">> \in set.changes THEN Create(typed, n) ELSE typed
           moved == IF <<r, "update">> \in set.changes
                    THEN Resize([made EXCEPT !.typed = TRUE], n) ELSE made
           Good(room) == /\ room \in Room /\ SafeRoom(room, n)
                         /\ stay[r].taken <= room.beds
                         /\ rooms[r].state # "none" => room.state # "none"
<1>1. n \in 0 .. MaxBeds /\ n \in Nat
    BY BedsAssumption DEF NewSpec, TableOK, ChangeSet
<1>2. rooms[r] \in Room /\ SafeRoom(rooms[r], spec)
    BY DEF TableOK
<1>3. /\ stay[r].taken \in Nat /\ stay[r].taken <= rooms[r].beds
    BY <1>2 DEF TableOK, BedsForAll, Stay, Room
<1>4. Good(typed)
    <2>1. CASE Live(r) /\ rooms[r].typed
        <3>1. stay[r].taken <= n
            BY <1>1, <2>1, Spared DEF Applicable
        <3>2. typed = [rooms[r] EXCEPT !.beds = n, !.capacity = n] /\ typed \in Room
            BY <1>1, <1>2, <2>1, Resized DEF SafeRoom, ApplyRoomTypeVersion
        <3> HIDE DEF n, typed
        <3> QED BY <1>1, <1>2, <2>1, <3>1, <3>2 DEF SafeRoom, Room, Live
    <2>2. CASE ~(Live(r) /\ rooms[r].typed)
        <3>1. typed = rooms[r]
            BY <2>2 DEF ApplyRoomTypeVersion
        <3> HIDE DEF typed, n
        <3> QED BY <1>2, <1>3, <2>2, <3>1 DEF SafeRoom, Live
    <2> QED BY <2>1, <2>2
<1>5. Good(made)
    <2>1. CASE <<r, "create">> \in set.changes
        <3>1. n > 0 /\ rooms[r].capacity <= 1
            BY <2>1 DEF Applicable, Fitting
        <3>2. stay[r].taken <= 1
            BY <1>2, <1>3, <3>1 DEF SafeRoom, Room
        <3>3. made = Create(typed, n)
            BY <2>1
        <3> HIDE DEF n, typed, made
        <3>4. /\ made.state = "live" /\ made.capacity = n /\ made.beds = n /\ made \in Room
            <4>1. typed \in Room /\ n \in Nat /\ n \in 0 .. MaxBeds
                BY <1>1, <1>4
            <4>2. made = [typed EXCEPT !.state = "live", !.typed = TRUE, !.capacity = n,
                                       !.beds = n]
                BY <3>3 DEF Create
            <4> QED BY <4>1, <4>2 DEF Room
        <3>5. stay[r].taken <= n
            BY <1>1, <1>3, <3>1, <3>2
        <3> QED BY <3>4, <3>5 DEF SafeRoom
    <2>2. CASE <<r, "create">> \notin set.changes
        BY <1>4, <2>2
    <2> QED BY <2>1, <2>2
<1>6. Good(moved)
    <2>1. CASE <<r, "update">> \in set.changes
        <3>1. rooms[r].state # "none" /\ stay[r].taken <= n
            BY <1>1, <2>1, Spared DEF Applicable, Fitting
        <3>2. moved = Resize([made EXCEPT !.typed = TRUE], n)
            BY <2>1
        <3> HIDE DEF n, typed, made, moved
        <3> DEFINE it == [made EXCEPT !.typed = TRUE]
        <3>3. /\ it \in Room /\ it.beds = made.beds /\ it.capacity = made.capacity
              /\ it.state = made.state
            BY <1>5 DEF Room
        <3>4. moved = [it EXCEPT !.beds = n, !.capacity = n] /\ moved \in Room
            <4>1. moved = Resize(it, n)
                BY <3>2
            <4>2. it.beds = it.capacity
                BY <1>5, <3>3 DEF SafeRoom
            <4> HIDE DEF it
            <4> QED BY <1>1, <3>3, <4>1, <4>2, Resized
        <3>5. moved.beds = n /\ moved.capacity = n /\ moved.state # "none"
            BY <1>5, <3>1, <3>3, <3>4 DEF Room
        <3> QED BY <3>1, <3>4, <3>5 DEF SafeRoom
    <2>2. CASE <<r, "update">> \notin set.changes
        BY <1>5, <2>2
    <2> QED BY <2>1, <2>2
<1>7. ApplyUnitChanges(set, r) =
        IF <<r, "archive">> \in set.changes THEN [moved EXCEPT !.state = "archived"] ELSE moved
    BY DEF ApplyUnitChanges
<1> HIDE DEF moved, n
<1>8. [moved EXCEPT !.state = "archived"] \in Room
      /\ SafeRoom([moved EXCEPT !.state = "archived"], n)
      /\ [moved EXCEPT !.state = "archived"].beds = moved.beds
      /\ [moved EXCEPT !.state = "archived"].state # "none"
    BY <1>6 DEF Room, SafeRoom
<1> QED BY <1>6, <1>7, <1>8 DEF n

\* A claim on its way that finds no bed left is one whose bed was retired.
LEMMA Retiring ==
    ASSUME TableOK, rooms' \in [Rooms -> Room], Retire(rooms'),
           \A r \in Rooms : stay[r].taken <= rooms'[r].beds
    PROVE  BedsForAll'
<1>1. PICK hit \in [Rooms -> 0 .. MaxClaims] :
        /\ \A r \in Rooms : hit[r] \in Hits(r, rooms'[r].beds)
        /\ stay' = [r \in Rooms |-> [stay[r] EXCEPT !.coming = @ - hit[r],
                                                    !.comingRetired = @ + hit[r]]]
    BY DEF Retire
<1>2. ASSUME NEW r \in Rooms
      PROVE  stay'[r] \in Stay /\ stay'[r].coming + stay'[r].taken <= rooms'[r].beds
    <2> DEFINE old == stay[r]
               new == stay'[r]
               h == hit[r]
               beds == rooms'[r].beds
    <2>1. /\ old \in Stay /\ beds \in Nat /\ old.taken <= beds
          /\ h \in 0 .. old.coming
          /\ h < old.coming => old.taken + old.coming <= h + beds
        BY <1>1 DEF TableOK, BedsForAll, Room, Hits
    <2>2. new = [old EXCEPT !.coming = @ - h, !.comingRetired = @ + h]
        BY <1>1
    <2> HIDE DEF old, new, h, beds
    <2>3. /\ old.coming \in Nat /\ old.taken \in Nat /\ old.comingRetired \in Nat
          /\ old.takenRetired \in Nat /\ h \in Nat /\ h <= old.coming
        BY <2>1 DEF Stay
    <2>4. /\ new.coming = old.coming - h /\ new.taken = old.taken /\ new \in Stay
        <3> DEFINE coming == old.coming - h
                   gone == old.comingRetired + h
        <3>1. coming \in Nat /\ gone \in Nat
            BY <2>3
        <3>2. new = [old EXCEPT !.coming = coming, !.comingRetired = gone]
            BY <2>2
        <3> HIDE DEF coming, gone
        <3>3. new.coming = coming /\ new.taken = old.taken /\ new \in Stay
            BY <2>1, <3>1, <3>2 DEF Stay
        <3> QED BY <3>3 DEF coming
    <2>5. new.coming + new.taken <= beds
        BY <2>1, <2>3, <2>4
    <2> QED BY <2>4, <2>5 DEF new, beds
<1>3. stay' \in [Rooms -> Stay]
    BY <1>1, <1>2
<1> QED BY <1>2, <1>3 DEF BedsForAll

LEMMA DeclaredRight ==
    /\ DeclaredRooms \subseteq Rooms
    /\ \A r \in DeclaredRooms : rooms[r].state = "none"
    /\ DeclaredRoom \in Room /\ \A n \in 0 .. MaxBeds : SafeRoom(DeclaredRoom, n)
<1>1. DeclaredRooms \subseteq Rooms /\ \A r \in DeclaredRooms : rooms[r].state = "none"
    BY RoomsAssumption DEF DeclaredRooms
<1>2. 0 \in 0 .. MaxBeds /\ 1 \in 0 .. MaxBeds
    BY BedsAssumption
<1>3. DeclaredRoom \in Room /\ \A n \in 0 .. MaxBeds : SafeRoom(DeclaredRoom, n)
    <2>1. NoRoom \in Room /\ ~NoRoom.typed
        BY <1>2 DEF NoRoom, Room
    <2>2. /\ DeclaredRoom \in Room /\ ~DeclaredRoom.typed
          /\ DeclaredRoom.state = "live" /\ DeclaredRoom.capacity = 1 /\ DeclaredRoom.beds = 1
        <3> HIDE DEF NoRoom
        <3> QED BY <1>2, <2>1 DEF DeclaredRoom, Room
    <2> QED BY <2>2 DEF SafeRoom
<1> QED BY <1>1, <1>3

\* No bed is taken in a room that is not there, and a room that was declared
\* has one bed.
LEMMA NobodyIn ==
    ASSUME TableOK, NEW r \in Rooms, rooms[r].state = "none"
    PROVE  /\ stay[r].coming = 0 /\ stay[r].taken = 0
           /\ stay[r].taken <= DeclaredRoom.beds
<1>1. /\ stay[r].coming \in Nat /\ stay[r].taken \in Nat
      /\ stay[r].coming + stay[r].taken <= 0
    BY DEF TableOK, BedsForAll, SafeRoom, Stay
<1>2. DeclaredRoom.beds = 1
    BY DEF DeclaredRoom, NoRoom
<1> QED BY <1>1, <1>2

\* The set that is open is applied and closed; a property that is approved may
\* get its declared rooms with it.
LEMMA Applying ==
    ASSUME Inv, NEW s \in SetIds, NEW set \in ChangeSet, Fitting(set), Applicable(set),
           OpenSets \subseteq {s}, NEW D \in SUBSET DeclaredRooms,
           rooms' = [r \in Rooms |-> IF r \in D THEN DeclaredRoom
                                     ELSE ApplyUnitChanges(set, r)],
           Retire(rooms'), spec' = NewSpec(set), sets' = [sets EXCEPT ![s] = ClosedSet]
    PROVE  TableOK' /\ StatesKept
<1>0. TableOK
    BY DEF Inv
<1>1. \A r \in Rooms : /\ rooms'[r] \in Room /\ SafeRoom(rooms'[r], spec')
                       /\ stay[r].taken <= rooms'[r].beds
                       /\ rooms[r].state # "none" => rooms'[r].state # "none"
    <2> SUFFICES ASSUME NEW r \in Rooms
        PROVE  /\ rooms'[r] \in Room /\ SafeRoom(rooms'[r], spec')
               /\ stay[r].taken <= rooms'[r].beds
               /\ rooms[r].state # "none" => rooms'[r].state # "none"
        OBVIOUS
    <2>1. spec' \in 0 .. MaxBeds
        BY <1>0 DEF NewSpec, TableOK, ChangeSet
    <2>2. CASE r \in D
        <3>1. rooms'[r] = DeclaredRoom /\ rooms[r].state = "none"
            BY <2>2, DeclaredRight
        <3>2. DeclaredRoom.state = "live"
            BY DEF DeclaredRoom, NoRoom
        <3> QED BY <1>0, <2>1, <3>1, <3>2, DeclaredRight, NobodyIn
    <2>3. CASE r \notin D
        BY <1>0, <2>3, Applied
    <2> QED BY <2>2, <2>3
<1>2. rooms' \in [Rooms -> Room]
    BY <1>1
<1>3. spec' \in 0 .. MaxBeds
    BY <1>0 DEF NewSpec, TableOK, ChangeSet
<1>4. ClosedSet \in ChangeSet
    BY BedsAssumption DEF ClosedSet, ChangeSet
<1>5. sets' \in [SetIds -> ChangeSet]
    BY <1>0, <1>4 DEF TableOK
<1>6. \A t \in SetIds : sets'[t] = ClosedSet
    <2> SUFFICES ASSUME NEW t \in SetIds, t # s PROVE sets'[t] = ClosedSet
        BY <1>0 DEF TableOK
    <2>1. sets'[t] = sets[t] /\ sets[t] \in ChangeSet /\ t \notin OpenSets
        BY <1>0 DEF TableOK
    <2>2. sets[t].status = "closed"
        BY <2>1 DEF OpenSets, ChangeSet
    <2> QED BY <1>0, <2>1, <2>2 DEF TableOK, ClosedEmpty
<1>7. OneOpen' /\ ClosedEmpty'
    BY <1>6 DEF OneOpen, ClosedEmpty, OpenSets, ClosedSet, Open, InReview, Editable
<1>8. \A t \in SetIds : Fitting(sets[t])'
    <2>1. ClosedSet.changes = {}
        BY DEF ClosedSet
    <2> QED BY <1>6, <2>1 DEF Fitting
<1>9. StatesKept
    BY <1>1 DEF StatesKept
<1>10. BedsForAll'
    BY <1>0, <1>1, <1>2, Retiring
<1> QED BY <1>1, <1>2, <1>3, <1>5, <1>7, <1>8, <1>9, <1>10 DEF TableOK

LEMMA ApplyingSet ==
    ASSUME Inv, NEW s \in SetIds, NEW set \in ChangeSet, Fitting(set), Applicable(set),
           OpenSets \subseteq {s}, ApplyChangeSet(s, set)
    PROVE  TableOK' /\ StatesKept
<1> DEFINE D == {}
<1>1. rooms' = [r \in Rooms |-> IF r \in D THEN DeclaredRoom ELSE ApplyUnitChanges(set, r)]
      /\ D \in SUBSET DeclaredRooms
    BY DEF ApplyChangeSet
<1> HIDE DEF D
<1> QED BY <1>1, Applying DEF ApplyChangeSet

\* A set is written, and stays the only one.
LEMMA Writing ==
    ASSUME Inv, NEW s \in SetIds, NEW set \in ChangeSet, Fitting(set), set.status \in Open,
           OpenSets \subseteq {s}, sets' = [sets EXCEPT ![s] = set], UNCHANGED <<rooms, stay, spec>>
    PROVE  TableOK' /\ StatesKept
<1>0. TableOK
    BY DEF Inv
<1>1. sets' \in [SetIds -> ChangeSet] /\ sets'[s] = set
      /\ \A t \in SetIds \ {s} : sets'[t] = sets[t]
    BY <1>0 DEF TableOK
<1>2. OpenSets' \subseteq {s}
    BY <1>1 DEF OpenSets
<1>3. OneOpen'
    BY <1>2 DEF OneOpen
<1>4. set.status # "closed"
    BY DEF Open, InReview, Editable
<1>5. ClosedEmpty'
    BY <1>0, <1>1, <1>4 DEF TableOK, ClosedEmpty
<1>6. \A t \in SetIds : Fitting(sets[t])'
    BY <1>0, <1>1 DEF TableOK, Fitting
<1>7. StatesKept
    BY DEF StatesKept
<1>8. BedsForAll'
    BY <1>0 DEF TableOK, BedsForAll
<1> QED BY <1>0, <1>1, <1>3, <1>5, <1>6, <1>7, <1>8 DEF TableOK

\* A step that closes nobody's set, or closes the set of its own request.
LEMMA OpenIsMine ==
    ASSUME Inv, NEW s \in OpenSets
    PROVE  OpenSets \subseteq {s} /\ s \in SetIds
BY DEF Inv, TableOK, OneOpen, OpenSets

---------------------------------------------------------------------------
(* Requests begin.                                                         *)

LEMMA EmptyRequest == NoRequest \in Request
BY BedsAssumption DEF NoRequest, Request

LEMMA Beginning ==
    ASSUME Inv, NEW p \in Reqs, NEW q \in Request, Begin(p, q),
           UNCHANGED <<table, visits, setLock, listing, landlord>>,
           propertyLock' \in {propertyLock, p}, Knows(q),
           q.op \in Staging \cup Reviewing => q.pc = "set"
    PROVE  Inv'
<1>1. TableOK'
    BY SameTable DEF Inv, table
<1>2. LocksOK' /\ HoldsInv'
    BY Stepping DEF Inv, Begin, table
<1>3. RestOK'
    BY DEF Inv, RestOK, table, visits
<1> QED BY <1>1, <1>2, <1>3 DEF Inv

LEMMA Calling ==
    ASSUME Inv, NEW p \in Reqs, Calls(p)
    PROVE  Inv'
<1>1. CASE RoomsCalls(p) /\ UNCHANGED <<listing, landlord>>
    <2>1. CASE TypeBegin(p)
        <3>1. PICK n \in 1 .. MaxBeds :
                Begin(p, [NoRequest EXCEPT !.op = "type", !.pc = "set", !.capacity = n])
            BY <2>1 DEF TypeBegin
        <3> DEFINE q == [NoRequest EXCEPT !.op = "type", !.pc = "set", !.capacity = n]
        <3>2. q \in Request
            <4>1. n \in 0 .. MaxBeds
                BY BedsAssumption
            <4> QED BY <4>1, EmptyRequest DEF Request
        <3>3. q.op = "type" /\ q.pc = "set"
            BY EmptyRequest DEF Request
        <3>4. Knows(q)
            BY <3>3 DEF Knows, Reviewing
        <3> HIDE DEF q
        <3> QED BY <1>1, <2>1, <3>1, <3>2, <3>3, <3>4, Beginning DEF TypeBegin, q
    <2>2. CASE CreateBegin(p) \/ ArchiveBegin(p)
        <3>1. PICK r \in Rooms, op \in {"create", "archive"} :
                Begin(p, [NoRequest EXCEPT !.op = op, !.pc = "set", !.room = r])
            BY <2>2 DEF CreateBegin, ArchiveBegin
        <3> DEFINE q == [NoRequest EXCEPT !.op = op, !.pc = "set", !.room = r]
        <3>2. q \in Request
            BY EmptyRequest DEF Request
        <3>3. q.op = op /\ q.pc = "set" /\ q.room = r
            BY EmptyRequest DEF Request
        <3>4. Knows(q)
            BY <3>3 DEF Knows, Reviewing
        <3>5. UNCHANGED <<table, visits, locks>>
            BY <2>2 DEF CreateBegin, ArchiveBegin
        <3> HIDE DEF q
        <3> QED BY <1>1, <3>1, <3>2, <3>3, <3>4, <3>5, Beginning DEF locks, q
    <2>3. CASE UpdateBegin(p)
        <3>1. PICK r \in Rooms :
                Live(r) /\ Begin(p, [NoRequest EXCEPT !.op = "update", !.pc = "set", !.room = r])
            BY <2>3 DEF UpdateBegin
        <3> DEFINE q == [NoRequest EXCEPT !.op = "update", !.pc = "set", !.room = r]
        <3>2. q \in Request
            BY EmptyRequest DEF Request
        <3>3. q.op = "update" /\ q.pc = "set" /\ q.room = r
            BY EmptyRequest DEF Request
        <3>4. Knows(q)
            BY <3>1, <3>3 DEF Knows, Reviewing, Live
        <3> HIDE DEF q
        <3> QED BY <1>1, <2>3, <3>1, <3>2, <3>3, <3>4, Beginning DEF UpdateBegin, locks, q
    <2>4. CASE EditBegin(p)
        <3>1. PICK s \in SetIds, r \in Rooms :
                Begin(p, [NoRequest EXCEPT !.op = "edit", !.pc = "write", !.set = s, !.room = r])
            BY <2>4 DEF EditBegin
        <3> DEFINE q == [NoRequest EXCEPT !.op = "edit", !.pc = "write", !.set = s, !.room = r]
        <3>2. q \in Request
            BY EmptyRequest DEF Request
        <3>3. q.op = "edit" /\ q.set = s /\ q.room = r
            BY EmptyRequest DEF Request
        <3>4. Knows(q)
            BY <3>3 DEF Knows, Reviewing
        <3> HIDE DEF q
        <3>5. q.op \notin Staging \cup Reviewing
            BY <3>3 DEF Staging, Reviewing
        <3> QED BY <1>1, <2>4, <3>1, <3>2, <3>4, <3>5, Beginning DEF EditBegin, locks, q
    <2>5. CASE SetBegin(p)
        <3>1. PICK s \in SetIds, op \in Reviewing :
                Begin(p, [NoRequest EXCEPT !.op = op, !.pc = "set", !.set = s])
            BY <2>5 DEF SetBegin, Reviewing
        <3> DEFINE q == [NoRequest EXCEPT !.op = op, !.pc = "set", !.set = s]
        <3>2. q \in Request
            BY EmptyRequest DEF Request, Reviewing
        <3>3. q.op = op /\ q.pc = "set" /\ q.set = s
            BY EmptyRequest DEF Request
        <3>4. Knows(q)
            BY <3>3 DEF Knows, Reviewing
        <3> HIDE DEF q
        <3> QED BY <1>1, <2>5, <3>1, <3>2, <3>3, <3>4, Beginning DEF SetBegin, locks, q
    <2>6. CASE ApproveManagedBegin(p)
        <3> DEFINE q == [NoRequest EXCEPT !.op = "approveManaged", !.pc = "set"]
        <3>2. q \in Request
            BY EmptyRequest DEF Request
        <3>3. q.op = "approveManaged"
            BY EmptyRequest DEF Request
        <3>4. Knows(q) /\ q.op \notin Staging \cup Reviewing
            BY <3>3 DEF Knows, Reviewing, Staging
        <3>5. Begin(p, q)
            BY <2>6 DEF ApproveManagedBegin
        <3> HIDE DEF q
        <3> QED BY <1>1, <2>6, <3>2, <3>4, <3>5, Beginning DEF ApproveManagedBegin
    <2>7. CASE IntentBegin(p)
        <3>1. PICK to \in {"list", "manage_only"} :
                Begin(p, [NoRequest EXCEPT !.op = "intent", !.pc = "set", !.intent = to])
            BY <2>7 DEF IntentBegin
        <3> DEFINE q == [NoRequest EXCEPT !.op = "intent", !.pc = "set", !.intent = to]
        <3>2. q \in Request
            BY EmptyRequest DEF Request
        <3>3. q.op = "intent"
            BY EmptyRequest DEF Request
        <3>4. Knows(q) /\ q.op \notin Staging \cup Reviewing
            BY <3>3 DEF Knows, Reviewing, Staging
        <3> HIDE DEF q
        <3> QED BY <1>1, <2>7, <3>1, <3>2, <3>4, Beginning DEF IntentBegin, q
    <2> QED BY <1>1, <2>1, <2>2, <2>3, <2>4, <2>5, <2>6, <2>7 DEF RoomsCalls
<1>2. CASE Fail(p) /\ UNCHANGED <<listing, landlord>>
    BY <1>2, Refusing DEF Fail
<1>3. CASE PublishRead(p)
    <2> DEFINE q == [NoRequest EXCEPT !.op = "publish", !.pc = "write"]
    <2>2. q \in Request
        BY EmptyRequest DEF Request
    <2>3. q.op = "publish"
        BY EmptyRequest DEF Request
    <2>4. Knows(q) /\ q.op \notin Staging \cup Reviewing
        BY <2>3 DEF Knows, Reviewing, Staging
    <2>5. Begin(p, q)
        BY <1>3 DEF PublishRead
    <2> HIDE DEF q
    <2> QED BY <1>3, <2>2, <2>4, <2>5, Beginning DEF PublishRead, locks
<1> QED BY <1>1, <1>2, <1>3 DEF Calls

---------------------------------------------------------------------------
(* Requests go on.                                                         *)

LEMMA Ending ==
    ASSUME Inv, NEW p \in Reqs, Finish(p), TableOK', StatesKept, RestOK',
           setLock \in Reqs \ {p} => OpenSets' = OpenSets
    PROVE  Inv'
BY Answering DEF Inv

LEMMA Stamped ==
    ASSUME RestOK, NEW things, Stamp(things), property' \in Property,
           UNCHANGED <<listing, landlord>>
    PROVE  RestOK'
BY DEF RestOK, Stamp

\* The set a request holds is its own.
LEMMA Mine ==
    ASSUME Inv, NEW p \in Reqs, req[p].pc = "write", req[p].op \in Staging \cup Reviewing
    PROVE  /\ req[p].set \in SetIds /\ OpenSets \subseteq {req[p].set} /\ setLock = p
           /\ req[p].op \in Reviewing => req[p].set \in OpenSets
<1>1. Knows(req[p]) /\ Holds(p)
    BY DEF Inv, HoldsInv
<1>2. CASE req[p].op \in Staging
    BY <1>1, <1>2 DEF Holds, Staging, Reviewing
<1>3. CASE req[p].op \in Reviewing
    BY <1>1, <1>3, OpenIsMine DEF Holds, Knows
<1> QED BY <1>2, <1>3

LEMMA GetOrCreateDraftStep ==
    ASSUME Inv, NEW p \in Reqs, GetOrCreateDraft(p), UNCHANGED <<listing, landlord>>
    PROVE  Inv'
<1>1. CASE Refuse(p)
    BY <1>1, Refusing
<1>2. CASE ~Refuse(p)
    <2>1. PICK s \in SetIds :
            /\ OpenSets # {} => sets[s].status \in Editable
            /\ req' = [req EXCEPT ![p].pc = "write", ![p].set = s, ![p].managed = Managed]
        BY <1>2 DEF GetOrCreateDraft
    <2> DEFINE q == [req[p] EXCEPT !.pc = "write", !.set = s, !.managed = Managed]
    <2>2. req[p] \in Request /\ Knows(req[p]) /\ req[p].op \in Staging
        BY DEF Inv, LocksOK, HoldsInv, GetOrCreateDraft
    <2>3. Managed \in BOOLEAN
        BY DEF Managed
    <2>4. /\ q \in Request /\ q.op = req[p].op /\ q.pc = "write" /\ q.set = s
          /\ q.room = req[p].room
        BY <2>2, <2>3 DEF Request
    <2>5. req' = [req EXCEPT ![p] = q]
        BY <2>1, <2>2 DEF Inv, LocksOK
    <2>6. OpenSets \subseteq {s}
        <3>1. CASE OpenSets = {}
            BY <3>1
        <3>2. CASE OpenSets # {}
            BY <2>1, <3>2, OpenIsMine DEF OpenSets, Open
        <3> QED BY <3>1, <3>2
    <2> HIDE DEF q
    <2>7. Knows(q)
        BY <2>2, <2>4 DEF Knows, Reviewing, Staging
    <2>8. q.op \in Staging /\ q.op \notin Reviewing
        BY <2>2, <2>4 DEF Reviewing, Staging
    <2>9. UNCHANGED <<table, visits, propertyLock>> /\ SetFree(p) /\ setLock' = p
        BY <1>2 DEF GetOrCreateDraft
    <2>10. LocksOK' /\ HoldsInv'
        BY <2>4, <2>5, <2>6, <2>7, <2>8, <2>9, Stepping DEF Inv, table
    <2>11. TableOK'
        BY <2>9, SameTable DEF Inv, table
    <2>12. RestOK'
        BY <2>9 DEF Inv, RestOK, table, visits
    <2> QED BY <2>10, <2>11, <2>12 DEF Inv
<1> QED BY <1>1, <1>2

LEMMA LockSetStep ==
    ASSUME Inv, NEW p \in Reqs, LockSet(p), UNCHANGED <<listing, landlord>>
    PROVE  Inv'
<1>1. CASE sets[req[p].set].status \notin Expected(req[p].op)
    BY <1>1, Refusing DEF LockSet
<1>2. CASE sets[req[p].set].status \in Expected(req[p].op)
    <2> DEFINE q == [req[p] EXCEPT !.pc = "property"]
    <2>1. /\ SetFree(p) /\ setLock' = p /\ req' = [req EXCEPT ![p].pc = "property"]
          /\ UNCHANGED <<table, visits, propertyLock>> /\ req[p].op \in Reviewing
        BY <1>2 DEF LockSet, Reviewing
    <2>2. req[p] \in Request /\ Knows(req[p])
        BY DEF Inv, LocksOK, HoldsInv
    <2>3. /\ q \in Request /\ q.op = req[p].op /\ q.pc = "property" /\ q.set = req[p].set
          /\ q.room = req[p].room
        BY <2>2 DEF Request
    <2>4. req' = [req EXCEPT ![p] = q]
        BY <2>1, <2>2 DEF Inv, LocksOK
    <2> HIDE DEF q
    <2>5. q.set \in OpenSets
        BY <1>2, <2>1, <2>2, <2>3 DEF Expected, OpenSets, Open, Knows
    <2>6. Knows(q)
        BY <2>2, <2>3 DEF Knows
    <2>7. LocksOK' /\ HoldsInv'
        BY <2>1, <2>3, <2>4, <2>5, <2>6, Stepping DEF Inv, table
    <2>8. TableOK'
        BY <2>1, SameTable DEF Inv, table
    <2>9. RestOK'
        BY <2>1 DEF Inv, RestOK, table, visits
    <2> QED BY <2>7, <2>8, <2>9 DEF Inv
<1> QED BY <1>1, <1>2

LEMMA LockPropertyStep ==
    ASSUME Inv, NEW p \in Reqs, LockProperty(p), UNCHANGED <<listing, landlord>>
    PROVE  Inv'
<1> DEFINE q == [req[p] EXCEPT !.pc = "write"]
<1>1. /\ req' = [req EXCEPT ![p].pc = "write"] /\ propertyLock' = p
      /\ UNCHANGED <<table, visits, setLock>> /\ req[p].op \in Reviewing
      /\ req[p].pc = "property"
    BY DEF LockProperty, Reviewing
<1>2. req[p] \in Request /\ Knows(req[p]) /\ Holds(p)
    BY DEF Inv, LocksOK, HoldsInv
<1>3. /\ q \in Request /\ q.op = req[p].op /\ q.pc = "write" /\ q.set = req[p].set
      /\ q.room = req[p].room
    BY <1>2 DEF Request
<1>4. req' = [req EXCEPT ![p] = q]
    BY <1>1, <1>2 DEF Inv, LocksOK
<1> HIDE DEF q
<1>5. q.set \in OpenSets /\ setLock = p
    BY <1>1, <1>2, <1>3 DEF Holds
<1>6. Knows(q) /\ q.op \notin Staging
    BY <1>1, <1>2, <1>3 DEF Knows, Reviewing, Staging
<1>7. LocksOK' /\ HoldsInv'
    BY <1>1, <1>3, <1>4, <1>5, <1>6, Stepping DEF Inv, table
<1>8. TableOK'
    BY <1>1, SameTable DEF Inv, table
<1>9. RestOK'
    BY <1>1 DEF Inv, RestOK, table, visits
<1> QED BY <1>7, <1>8, <1>9 DEF Inv

\* What a request stages is a set like the others, and fits.
LEMMA StagedFits ==
    ASSUME Inv, NEW p \in Reqs, req[p].op \in Staging, req[p].set \in SetIds,
           req[p].op = "create" => CodeAvailable(req[p].room)
    PROVE  LET set == WithChange(sets[req[p].set], req[p])
           IN  set \in ChangeSet /\ Fitting(set) /\ set.status = "draft"
<1> DEFINE q == req[p]
           old == sets[q.set]
           set == WithChange(old, q)
<1>1. q \in Request /\ Knows(q) /\ old \in ChangeSet /\ Fitting(old)
    BY DEF Inv, LocksOK, HoldsInv, TableOK
<1>2. /\ set.status = "draft" /\ set.capacity = IF q.op = "type" THEN q.capacity ELSE old.capacity
      /\ DOMAIN set = {"status", "changes", "capacity"}
      /\ set = [status |-> set.status, changes |-> set.changes, capacity |-> set.capacity]
    BY DEF WithChange
<1>3. set.changes \subseteq old.changes \cup (IF q.op = "type" THEN {} ELSE {<<q.room, q.op>>})
    BY DEF WithChange, Staging
<1> HIDE DEF set
<1>4. q.op # "type" => q.room \in Rooms /\ q.op \in {"create", "update", "archive"}
    BY <1>1 DEF Knows, Staging
<1>5. set.changes \in SUBSET (Rooms \X {"create", "update", "archive"})
    <2> HIDE DEF q, old
    <2> QED BY <1>1, <1>3, <1>4 DEF ChangeSet
<1>6. set.capacity \in 0 .. MaxBeds
    <2> HIDE DEF q, old
    <2> QED BY <1>1, <1>2 DEF Request, ChangeSet
<1>7. set \in ChangeSet
    BY <1>2, <1>5, <1>6 DEF ChangeSet, Open, Editable
<1>8. q.op = "create" => rooms[q.room].capacity <= 1
    BY <1>4 DEF CodeAvailable, Inv, TableOK, SafeRoom
<1>9. q.op = "update" => rooms[q.room].state # "none"
    BY <1>1 DEF Knows
<1>10. Fitting(set)
    <2> SUFFICES ASSUME NEW r \in Rooms
        PROVE  /\ <<r, "create">> \in set.changes => rooms[r].capacity <= 1
               /\ <<r, "update">> \in set.changes => rooms[r].state # "none"
        BY DEF Fitting
    <2> HIDE DEF q, old
    <2>1. CASE q.op = "type"
        BY <1>1, <1>3, <2>1 DEF Fitting
    <2>2. CASE q.op # "type"
        <3>1. set.changes \subseteq old.changes \cup {<<q.room, q.op>>}
            BY <1>3, <2>2
        <3>2. <<r, "create">> \in set.changes =>
                <<r, "create">> \in old.changes \/ (r = q.room /\ q.op = "create")
            BY <3>1
        <3>3. <<r, "update">> \in set.changes =>
                <<r, "update">> \in old.changes \/ (r = q.room /\ q.op = "update")
            BY <3>1
        <3> QED BY <1>1, <1>8, <1>9, <3>2, <3>3 DEF Fitting
    <2> QED BY <2>1, <2>2
<1> QED BY <1>2, <1>7, <1>10 DEF set

LEMMA StageWriteStep ==
    ASSUME Inv, NEW p \in Reqs, StageWrite(p), UNCHANGED <<listing, landlord>>
    PROVE  Inv'
<1> DEFINE q == req[p]
           set == WithChange(sets[q.set], q)
<1>0. q.op \in Staging /\ q.pc = "write"
    BY DEF StageWrite
<1>1. q.set \in SetIds /\ OpenSets \subseteq {q.set} /\ setLock = p
    BY <1>0, Mine
<1>2. CASE Refuse(p)
    BY <1>2, Refusing
<1>3. CASE ~Refuse(p)
    <2>1. PICK managed \in BOOLEAN :
            /\ q.op = "create" => CodeAvailable(q.room)
            /\ managed => Applicable(set)
            /\ IF managed THEN ApplyChangeSet(q.set, set)
               ELSE sets' = [sets EXCEPT ![q.set] = set] /\ UNCHANGED <<rooms, stay, spec>>
            /\ Stamp(IF q.op = "create" THEN {q.room} ELSE {})
            /\ Finish(p) /\ UNCHANGED property
        <3>1. q.managed \in BOOLEAN /\ Managed \in BOOLEAN
            BY DEF Inv, LocksOK, Request, Managed
        <3> QED BY <1>3, <3>1 DEF StageWrite
    <2>2. set \in ChangeSet /\ Fitting(set) /\ set.status \in Open
        BY <1>0, <1>1, <2>1, StagedFits DEF Open, Editable
    <2> HIDE DEF set
    <2>3. TableOK' /\ StatesKept
        BY <1>1, <2>1, <2>2, ApplyingSet, Writing
    <2>4. RestOK'
        BY <2>1, Stamped DEF Inv, RestOK
    <2> QED BY <1>1, <2>1, <2>3, <2>4, Ending
<1> QED BY <1>2, <1>3

\* A set somebody refers to a change of is open.
LEMMA ChangedIsOpen ==
    ASSUME Inv, NEW s \in SetIds, sets[s].changes # {}
    PROVE  s \in OpenSets
<1>1. sets[s] \in ChangeSet /\ (sets[s].status = "closed" => sets[s] = ClosedSet)
    BY DEF Inv, TableOK, ClosedEmpty
<1> QED BY <1>1 DEF ChangeSet, ClosedSet, OpenSets

\* The sets are changed in place.
LEMMA InPlace ==
    ASSUME Inv, NEW s \in OpenSets, NEW set \in ChangeSet, Fitting(set), set.status \in Open,
           sets' = [sets EXCEPT ![s] = set], UNCHANGED <<rooms, stay, spec>>
    PROVE  TableOK' /\ StatesKept /\ OpenSets' = OpenSets
<1>1. OpenSets \subseteq {s} /\ s \in SetIds
    BY OpenIsMine
<1>2. OpenSets' = OpenSets
    BY <1>1 DEF OpenSets, Inv, TableOK
<1> QED BY <1>1, <1>2, Writing

LEMMA EditWriteStep ==
    ASSUME Inv, NEW p \in Reqs, EditWrite(p), UNCHANGED <<listing, landlord>>
    PROVE  Inv'
<1>1. CASE Refuse(p)
    BY <1>1, Refusing
<1>2. CASE ~Refuse(p)
    <2> DEFINE q == req[p]
               s == q.set
               Edited(r) == [sets[s] EXCEPT !.changes =
                                (@ \ {<<q.room, "create">>}) \cup {<<r, "create">>}]
    <2>1. PICK r \in Rooms :
            /\ <<q.room, "create">> \in sets[s].changes /\ CodeAvailable(r)
            /\ \/ SetFree(p) /\ Applicable(Edited(r)) /\ ApplyChangeSet(s, Edited(r))
               \/ sets' = [sets EXCEPT ![s] = Edited(r)] /\ UNCHANGED <<rooms, stay, spec>>
            /\ Stamp({r})
            /\ Finish(p) /\ UNCHANGED property
        BY <1>2 DEF EditWrite
    <2>2. s \in SetIds
        BY DEF EditWrite, Inv, HoldsInv, Knows
    <2>3. s \in OpenSets
        BY <2>1, <2>2, ChangedIsOpen
    <2> DEFINE set == Edited(r)
    <2>4. sets[s] \in ChangeSet /\ Fitting(sets[s]) /\ sets[s].status \in Open
        BY <2>2, <2>3 DEF Inv, TableOK, OpenSets
    <2>5. /\ set \in ChangeSet /\ set.status = sets[s].status
          /\ set.changes = (sets[s].changes \ {<<q.room, "create">>}) \cup {<<r, "create">>}
        BY <2>4 DEF ChangeSet
    <2>6. rooms[r].capacity = 0
        BY <2>1 DEF CodeAvailable, Inv, TableOK, SafeRoom
    <2>7. Fitting(set)
        <3> SUFFICES ASSUME NEW room \in Rooms
            PROVE  /\ <<room, "create">> \in set.changes => rooms[room].capacity <= 1
                   /\ <<room, "update">> \in set.changes => rooms[room].state # "none"
            BY DEF Fitting
        <3> HIDE DEF set
        <3> QED BY <2>4, <2>5, <2>6 DEF Fitting
    <2>8. /\ Stamp({r}) /\ Finish(p) /\ UNCHANGED property
          /\ \/ SetFree(p) /\ Applicable(set) /\ ApplyChangeSet(s, set)
             \/ sets' = [sets EXCEPT ![s] = set] /\ UNCHANGED <<rooms, stay, spec>>
        BY <2>1
    <2> HIDE DEF set, q, s
    <2>9. RestOK'
        BY <2>8, Stamped DEF Inv, RestOK
    <2>10. CASE SetFree(p) /\ Applicable(set) /\ ApplyChangeSet(s, set)
        <3>1. TableOK' /\ StatesKept
            BY <2>2, <2>3, <2>5, <2>7, <2>10, OpenIsMine, ApplyingSet
        <3> QED BY <2>8, <2>9, <2>10, <3>1, Ending, RoomsAssumption DEF SetFree
    <2>11. CASE sets' = [sets EXCEPT ![s] = set] /\ UNCHANGED <<rooms, stay, spec>>
        <3>1. TableOK' /\ StatesKept /\ OpenSets' = OpenSets
            BY <2>3, <2>4, <2>5, <2>7, <2>11, InPlace
        <3> QED BY <2>8, <2>9, <3>1, Ending
    <2> QED BY <2>8, <2>10, <2>11
<1> QED BY <1>1, <1>2

\* A set goes on to another status, its changes as they are.
LEMMA Restated ==
    ASSUME Inv, NEW s \in OpenSets, NEW status \in Open
    PROVE  LET set == [sets[s] EXCEPT !.status = status]
           IN  set \in ChangeSet /\ Fitting(set) /\ set.status \in Open
<1>1. sets[s] \in ChangeSet /\ Fitting(sets[s])
    BY DEF Inv, TableOK, OpenSets
<1> DEFINE set == [sets[s] EXCEPT !.status = status]
<1>2. set \in ChangeSet /\ set.status = status /\ set.changes = sets[s].changes
    BY <1>1 DEF ChangeSet
<1> HIDE DEF set
<1>3. Fitting(set)
    BY <1>1, <1>2 DEF Fitting
<1> QED BY <1>2, <1>3 DEF set

LEMMA SubmitStep ==
    ASSUME Inv, NEW p \in Reqs, Submit(p), UNCHANGED <<listing, landlord>>
    PROVE  Inv'
<1>1. CASE Refuse(p)
    BY <1>1, Refusing
<1>2. CASE ~Refuse(p)
    <2> DEFINE s == req[p].set
    <2>1. PICK status \in Open :
            /\ sets' = [sets EXCEPT ![s].status = status]
            /\ Stamp({"submitted"}) /\ Finish(p) /\ UNCHANGED <<property, rooms, stay, spec>>
        BY <1>2 DEF Submit, Open, InReview
    <2>2. s \in OpenSets
        BY Mine DEF Submit, SetWrites, Reviewing
    <2> DEFINE set == [sets[s] EXCEPT !.status = status]
    <2>3. set \in ChangeSet /\ Fitting(set) /\ set.status \in Open
        BY <2>2, Restated
    <2>4. sets' = [sets EXCEPT ![s] = set]
        BY <2>1, <2>2 DEF Inv, TableOK, OpenSets
    <2> HIDE DEF set, s
    <2>5. TableOK' /\ StatesKept /\ OpenSets' = OpenSets
        BY <2>1, <2>2, <2>3, <2>4, InPlace
    <2>6. RestOK'
        BY <2>1, Stamped DEF Inv, RestOK
    <2> QED BY <2>1, <2>5, <2>6, Ending
<1> QED BY <1>1, <1>2

\* The only open set is closed.
LEMMA Closing ==
    ASSUME Inv, NEW s \in OpenSets, sets' = [sets EXCEPT ![s] = ClosedSet],
           UNCHANGED <<rooms, stay, spec>>
    PROVE  TableOK' /\ StatesKept
<1>1. OpenSets \subseteq {s} /\ s \in SetIds
    BY OpenIsMine
<1>2. ClosedSet \in ChangeSet /\ ClosedSet.changes = {} /\ ClosedSet.status \notin Open
    BY BedsAssumption DEF ClosedSet, ChangeSet, Open, InReview, Editable
<1>3. /\ sets' \in [SetIds -> ChangeSet] /\ sets'[s] = ClosedSet
      /\ \A t \in SetIds \ {s} : sets'[t] = sets[t]
    BY <1>1, <1>2 DEF Inv, TableOK
<1>4. OneOpen'
    BY <1>1, <1>2, <1>3 DEF OneOpen, OpenSets
<1>5. ClosedEmpty'
    BY <1>3 DEF Inv, TableOK, ClosedEmpty
<1>6. \A t \in SetIds : Fitting(sets[t])'
    BY <1>2, <1>3 DEF Inv, TableOK, Fitting
<1>7. StatesKept /\ BedsForAll'
    BY DEF StatesKept, BedsForAll, Inv, TableOK
<1> QED BY <1>3, <1>4, <1>5, <1>6, <1>7 DEF Inv, TableOK

LEMMA CancelStep ==
    ASSUME Inv, NEW p \in Reqs, Cancel(p), UNCHANGED <<listing, landlord>>
    PROVE  Inv'
<1>1. req[p].set \in OpenSets /\ setLock = p
    BY Mine DEF Cancel, SetWrites, Reviewing
<1>2. TableOK' /\ StatesKept
    BY <1>1, Closing DEF Cancel
<1>3. RestOK'
    BY DEF Cancel, Inv, RestOK, visits
<1> QED BY <1>1, <1>2, <1>3, Ending DEF Cancel

LEMMA ApproveStep ==
    ASSUME Inv, NEW p \in Reqs, Approve(p), UNCHANGED <<listing, landlord>>
    PROVE  Inv'
<1>1. CASE Refuse(p)
    BY <1>1, Refusing
<1>2. CASE ~Refuse(p)
    <2> DEFINE s == req[p].set
    <2>1. /\ Applicable(sets[s]) /\ ApplyChangeSet(s, sets[s]) /\ Finish(p)
          /\ UNCHANGED <<property, visits>>
        BY <1>2 DEF Approve
    <2>2. s \in SetIds /\ OpenSets \subseteq {s} /\ setLock = p
        BY Mine DEF Approve, SetWrites, Reviewing
    <2>3. sets[s] \in ChangeSet /\ Fitting(sets[s])
        BY <2>2 DEF Inv, TableOK
    <2>4. TableOK' /\ StatesKept
        BY <2>1, <2>2, <2>3, ApplyingSet
    <2>5. RestOK'
        BY <2>1 DEF Inv, RestOK, visits
    <2> QED BY <2>1, <2>2, <2>4, <2>5, Ending
<1> QED BY <1>1, <1>2

LEMMA ApproveManagedStep ==
    ASSUME Inv, NEW p \in Reqs, ApproveManaged(p), UNCHANGED <<listing, landlord>>
    PROVE  Inv'
<1>1. CASE Refuse(p)
    BY <1>1, Refusing
<1>2. CASE ~Refuse(p)
    <2> DEFINE waiting == {s \in OpenSets : sets[s].status # "rejected"}
    <2>1. property \in Property /\ [property EXCEPT !.review = "approved"] \in Property
        BY DEF Inv, RestOK, Property
    <2>2. Stamp(DeclaredRooms) /\ Finish(p) /\ property' \in Property
        BY <1>2, <2>1 DEF ApproveManaged
    <2>3. RestOK'
        BY <2>2, Stamped DEF Inv
    <2>4. CASE /\ rooms' = [r \in Rooms |-> IF r \in DeclaredRooms THEN DeclaredRoom ELSE rooms[r]]
               /\ UNCHANGED <<sets, stay, spec>>
        <3>1. \A r \in Rooms : /\ rooms'[r] \in Room /\ SafeRoom(rooms'[r], spec)
                               /\ rooms[r].state # "none" => rooms'[r].state # "none"
                               /\ rooms[r].capacity <= 1 => rooms'[r].capacity <= 1
            <4>1. DeclaredRoom.state = "live" /\ DeclaredRoom.capacity <= 1
                BY DEF DeclaredRoom, NoRoom
            <4> QED BY <2>4, <4>1, DeclaredRight DEF Inv, TableOK
        <3>2. rooms' \in [Rooms -> Room]
            BY <2>4, <3>1
        <3>3. OpenSets' = OpenSets /\ OneOpen' /\ ClosedEmpty'
            BY <2>4 DEF OpenSets, OneOpen, ClosedEmpty, Inv, TableOK
        <3>4. \A s \in SetIds : Fitting(sets[s])'
            BY <2>4, <3>1 DEF Fitting, Inv, TableOK
        <3>5. BedsForAll'
            <4>1. ASSUME NEW r \in Rooms
                  PROVE  stay'[r].coming + stay'[r].taken <= rooms'[r].beds
                <5>1. CASE r \in DeclaredRooms
                    <6>1. rooms[r].state = "none" /\ rooms'[r].beds = 1
                        BY <2>4, <5>1, DeclaredRight DEF DeclaredRoom, NoRoom
                    <6>2. stay[r].coming = 0 /\ stay[r].taken = 0
                        BY <6>1, NobodyIn DEF Inv
                    <6> QED BY <2>4, <6>1, <6>2
                <5>2. CASE r \notin DeclaredRooms
                    BY <2>4, <5>2 DEF Inv, TableOK, BedsForAll
                <5> QED BY <5>1, <5>2
            <4> QED BY <2>4, <4>1 DEF Inv, TableOK, BedsForAll
        <3>6. TableOK' /\ StatesKept
            BY <2>4, <3>1, <3>2, <3>3, <3>4, <3>5 DEF Inv, TableOK, StatesKept
        <3> QED BY <2>2, <2>3, <3>3, <3>6, Ending
    <2>5. CASE /\ SetFree(p)
               /\ \E s \in waiting :
                    /\ Applicable(sets[s])
                    /\ rooms' = [r \in Rooms |-> IF r \in DeclaredRooms THEN DeclaredRoom
                                                 ELSE ApplyUnitChanges(sets[s], r)]
                    /\ Retire(rooms')
                    /\ spec' = NewSpec(sets[s]) /\ sets' = [sets EXCEPT ![s] = ClosedSet]
        <3>1. PICK s \in OpenSets :
                /\ Applicable(sets[s])
                /\ rooms' = [r \in Rooms |-> IF r \in DeclaredRooms THEN DeclaredRoom
                                             ELSE ApplyUnitChanges(sets[s], r)]
                /\ Retire(rooms')
                /\ spec' = NewSpec(sets[s]) /\ sets' = [sets EXCEPT ![s] = ClosedSet]
            BY <2>5
        <3>2. s \in SetIds /\ OpenSets \subseteq {s} /\ sets[s] \in ChangeSet /\ Fitting(sets[s])
            BY OpenIsMine DEF Inv, TableOK
        <3>3. TableOK' /\ StatesKept
            BY <3>1, <3>2, Applying
        <3> QED BY <2>2, <2>3, <2>5, <3>3, Ending, RoomsAssumption DEF SetFree
    <2> QED BY <1>2, <2>4, <2>5 DEF ApproveManaged
<1> QED BY <1>1, <1>2

\* Sets that keep their changes and stay open, or closed.
LEMMA Relabelled ==
    ASSUME Inv, sets' \in [SetIds -> ChangeSet], UNCHANGED <<rooms, stay, spec>>,
           \A s \in SetIds :
            /\ sets'[s].changes \subseteq sets[s].changes
            /\ sets[s].status \in Open <=> sets'[s].status \in Open
            /\ sets[s] = ClosedSet => sets'[s] = ClosedSet
    PROVE  TableOK' /\ StatesKept /\ OpenSets' = OpenSets
<1>1. OpenSets' = OpenSets
    BY DEF OpenSets
<1>2. OneOpen'
    BY <1>1 DEF OneOpen, Inv, TableOK
<1>3. ClosedEmpty'
    <2> SUFFICES ASSUME NEW s \in SetIds, sets'[s].status = "closed" PROVE sets'[s] = ClosedSet
        BY DEF ClosedEmpty
    <2>1. sets[s].status \notin Open /\ sets[s] \in ChangeSet
        BY DEF Open, InReview, Editable, Inv, TableOK
    <2>2. sets[s].status = "closed"
        BY <2>1 DEF ChangeSet
    <2> QED BY <2>2 DEF Inv, TableOK, ClosedEmpty
<1>4. \A s \in SetIds : Fitting(sets[s])'
    BY DEF Fitting, Inv, TableOK
<1>5. StatesKept /\ BedsForAll'
    BY DEF StatesKept, BedsForAll, Inv, TableOK
<1> QED BY <1>1, <1>2, <1>3, <1>4, <1>5 DEF Inv, TableOK

LEMMA SwitchIntentStep ==
    ASSUME Inv, NEW p \in Reqs, SwitchIntent(p)
    PROVE  Inv'
<1> DEFINE to == req[p].intent
<1>1. to \in {"list", "manage_only"} /\ property \in Property
    BY DEF Inv, LocksOK, RestOK, Request
<1>2. property' \in Property
    BY <1>1 DEF SwitchIntent, SetListingIntent, Property
<1>3. Finish(p) /\ UNCHANGED <<rooms, stay, spec>>
    BY DEF SwitchIntent, SetListingIntent
<1>4. passed' \subseteq passed /\ awaiting' \subseteq awaiting
    BY DEF SwitchIntent, SetListingIntent, Stamp, visits
<1>5. listing' \in ListingStatus /\ UNCHANGED landlord
    BY DEF SwitchIntent, Inv, RestOK, ListingStatus
<1>6. RestOK'
    BY <1>2, <1>4, <1>5 DEF Inv, RestOK
<1>7. TableOK' /\ StatesKept /\ OpenSets' = OpenSets
    <2>1. CASE UNCHANGED sets
        BY <1>3, <2>1, SameTable DEF Inv
    <2>2. CASE sets' = DropVisitRequirement
        <3>1. \A s \in SetIds :
                /\ sets'[s] \in ChangeSet /\ sets'[s].changes \subseteq sets[s].changes
                /\ sets[s].status \in Open <=> sets'[s].status \in Open
                /\ sets[s] = ClosedSet => sets'[s] = ClosedSet
            <4> SUFFICES ASSUME NEW s \in SetIds
                PROVE /\ sets'[s] \in ChangeSet /\ sets'[s].changes \subseteq sets[s].changes
                      /\ sets[s].status \in Open <=> sets'[s].status \in Open
                      /\ sets[s] = ClosedSet => sets'[s] = ClosedSet
                OBVIOUS
            <4>1. sets[s] \in ChangeSet
                BY DEF Inv, TableOK
            <4>2. CASE sets[s].status = "visit_required"
                <5>1. sets'[s] = [sets[s] EXCEPT !.status = "pending_review"]
                    BY <2>2, <4>2 DEF DropVisitRequirement
                <5> QED BY <4>1, <4>2, <5>1 DEF ChangeSet, Open, InReview, ClosedSet
            <4>3. CASE sets[s].status # "visit_required"
                BY <2>2, <4>1, <4>3 DEF DropVisitRequirement
            <4> QED BY <4>2, <4>3
        <3>2. sets' \in [SetIds -> ChangeSet]
            BY <2>2, <3>1 DEF DropVisitRequirement
        <3> QED BY <1>3, <3>1, <3>2, Relabelled
    <2> QED BY <2>1, <2>2 DEF SwitchIntent, SetListingIntent
<1> QED BY <1>3, <1>6, <1>7, Ending

\* A room that nobody proposed is added, of a type of its own.
LEMMA PublishWriteStep ==
    ASSUME Inv, NEW p \in Reqs, PublishWrite(p)
    PROVE  Inv'
<1>1. CASE Refuse(p) /\ UNCHANGED <<listing, landlord>>
    BY <1>1, Refusing
<1>2. CASE ~(Refuse(p) /\ UNCHANGED <<listing, landlord>>)
    <2>1. /\ listing' = "verified" /\ Finish(p) /\ UNCHANGED <<property, sets, stay, spec, landlord>>
          /\ \/ UNCHANGED <<rooms, visits>>
             \/ \E r \in Rooms, n \in 1 .. MaxBeds :
                 /\ CodeAvailable(r)
                 /\ rooms' = [rooms EXCEPT ![r] =
                      [NoRoom EXCEPT !.state = "live", !.capacity = n, !.beds = n]]
                 /\ passed' = passed \cup {r} /\ UNCHANGED awaiting
        BY <1>2 DEF PublishWrite
    <2>2. passed' \subseteq Things /\ awaiting' \subseteq Things
        BY <2>1 DEF Inv, RestOK, visits, Things
    <2>3. RestOK'
        BY <2>1, <2>2 DEF Inv, RestOK, ListingStatus
    <2>4. OpenSets' = OpenSets
        BY <2>1 DEF OpenSets
    <2>5. CASE UNCHANGED <<rooms, visits>>
        <3>1. TableOK' /\ StatesKept
            BY <2>1, <2>5, SameTable DEF Inv
        <3> QED BY <2>1, <2>3, <2>4, <3>1, Ending
    <2>6. CASE ~UNCHANGED <<rooms, visits>>
        <3>1. PICK r \in Rooms, n \in 1 .. MaxBeds :
                /\ CodeAvailable(r)
                /\ rooms' = [rooms EXCEPT ![r] =
                      [NoRoom EXCEPT !.state = "live", !.capacity = n, !.beds = n]]
            BY <2>1, <2>6
        <3> DEFINE new == [NoRoom EXCEPT !.state = "live", !.capacity = n, !.beds = n]
        <3>2. n \in 0 .. MaxBeds /\ n \in Nat /\ 0 \in 0 .. MaxBeds
            BY BedsAssumption
        <3>3. NoRoom \in Room /\ ~NoRoom.typed
            BY <3>2 DEF NoRoom, Room
        <3>4. /\ new \in Room /\ ~new.typed /\ new.state = "live"
              /\ new.capacity = n /\ new.beds = n
            BY <3>2, <3>3 DEF Room
        <3> HIDE DEF new
        <3>5. SafeRoom(new, spec) /\ new.state # "none"
            BY <3>2, <3>4 DEF SafeRoom
        <3>6. /\ rooms' \in [Rooms -> Room] /\ rooms'[r] = new
              /\ \A o \in Rooms \ {r} : rooms'[o] = rooms[o]
            BY <3>1, <3>4 DEF Inv, TableOK, new
        <3>7. \A o \in Rooms : SafeRoom(rooms'[o], spec)
            BY <3>5, <3>6 DEF Inv, TableOK
        <3>8. StatesKept
            BY <3>5, <3>6 DEF StatesKept
        <3>9. OneOpen' /\ ClosedEmpty'
            BY <2>1, <2>4 DEF OneOpen, ClosedEmpty, Inv, TableOK
        <3>10. ASSUME NEW s \in SetIds PROVE Fitting(sets[s])'
            <4>1. <<r, "create">> \notin sets[s].changes
                BY <3>1, ChangedIsOpen DEF CodeAvailable, Staged
            <4> QED BY <2>1, <3>5, <3>6, <4>1 DEF Fitting, Inv, TableOK
        <3>12. BedsForAll'
            <4>1. stay[r].coming = 0 /\ stay[r].taken = 0
                BY <3>1, NobodyIn DEF CodeAvailable, Inv
            <4>2. rooms'[r].beds \in Nat /\ stay' = stay
                BY <2>1, <3>2, <3>4, <3>6
            <4>3. \A o \in Rooms : stay[o].coming + stay[o].taken <= rooms'[o].beds
                BY <3>6, <4>1, <4>2 DEF Inv, TableOK, BedsForAll
            <4> QED BY <4>2, <4>3 DEF Inv, TableOK, BedsForAll
        <3>11. TableOK'
            BY <2>1, <3>6, <3>7, <3>9, <3>10, <3>12 DEF Inv, TableOK
        <3> QED BY <2>1, <2>3, <2>4, <3>8, <3>11, Ending
    <2> QED BY <2>5, <2>6
<1> QED BY <1>1, <1>2

LEMMA Working ==
    ASSUME Inv, NEW p \in Reqs, Work(p)
    PROVE  Inv'
<1>1. CASE RoomsWork(p) /\ UNCHANGED <<listing, landlord>>
    <2>1. CASE DeadlockVictim(p)
        BY <1>1, <2>1, Refusing DEF DeadlockVictim
    <2> QED BY <1>1, <2>1, GetOrCreateDraftStep, StageWriteStep, EditWriteStep, LockSetStep,
               LockPropertyStep, SubmitStep, CancelStep, ApproveStep, ApproveManagedStep
            DEF RoomsWork
<1> QED BY <1>1, SwitchIntentStep, PublishWriteStep DEF Work

---------------------------------------------------------------------------
(* What goes on around the requests.                                       *)

\* One set is changed with no request that holds it, or with one that does not
\* mind.
LEMMA SetAside ==
    ASSUME Inv, NEW s \in OpenSets, NEW set \in ChangeSet, Fitting(set), set.status \in Open,
           sets' = [sets EXCEPT ![s] = set],
           UNCHANGED <<property, rooms, stay, spec, visits, req, locks, listing, landlord>>
    PROVE  Inv'
<1>1. TableOK' /\ StatesKept /\ OpenSets' = OpenSets
    BY InPlace
<1>2. LocksOK' /\ HoldsInv'
    BY <1>1, Aside DEF Inv
<1>3. RestOK'
    BY DEF Inv, RestOK, visits
<1> QED BY <1>1, <1>2, <1>3 DEF Inv

LEMMA DiscardStep ==
    ASSUME Inv, Discard, UNCHANGED <<listing, landlord>>
    PROVE  Inv'
<1>1. PICK s \in SetIds, r \in Rooms :
        /\ sets[s].status \in Editable
        /\ sets' = [sets EXCEPT ![s].changes = @ \ {<<r, "create">>}]
    BY DEF Discard
<1> DEFINE set == [sets[s] EXCEPT !.changes = @ \ {<<r, "create">>}]
<1>2. s \in OpenSets /\ sets[s] \in ChangeSet /\ Fitting(sets[s]) /\ sets[s].status \in Open
    BY <1>1 DEF OpenSets, Open, Inv, TableOK
<1>3. set \in ChangeSet /\ set.status = sets[s].status /\ set.changes \subseteq sets[s].changes
    BY <1>2 DEF ChangeSet
<1>4. sets' = [sets EXCEPT ![s] = set]
    BY <1>1, <1>2 DEF Inv, TableOK
<1> HIDE DEF set
<1>5. Fitting(set)
    BY <1>2, <1>3 DEF Fitting
<1> QED BY <1>2, <1>3, <1>4, <1>5, SetAside DEF Discard

LEMMA RejectStep ==
    ASSUME Inv, Reject, UNCHANGED <<listing, landlord>>
    PROVE  Inv'
<1>1. PICK s \in SetIds :
        sets[s].status \in InReview /\ sets' = [sets EXCEPT ![s].status = "rejected"]
    BY DEF Reject
<1> DEFINE set == [sets[s] EXCEPT !.status = "rejected"]
<1>2. s \in OpenSets
    BY <1>1 DEF OpenSets, Open
<1>3. set \in ChangeSet /\ Fitting(set) /\ set.status \in Open
    BY <1>2, Restated DEF Open, Editable
<1>4. sets' = [sets EXCEPT ![s] = set]
    BY <1>1, <1>2 DEF Inv, TableOK
<1> HIDE DEF set
<1> QED BY <1>2, <1>3, <1>4, SetAside DEF Reject

\* The property, its visits, the listing and the landlord are written without
\* touching rooms or sets.
LEMMA TableAside ==
    ASSUME Inv, UNCHANGED <<sets, rooms, stay, spec, req, locks>>, RestOK'
    PROVE  Inv'
<1>1. TableOK' /\ StatesKept /\ OpenSets' = OpenSets
    BY SameTable DEF Inv
<1> QED BY <1>1, Aside DEF Inv

LEMMA VisitSteps ==
    ASSUME Inv, CompleteVisit \/ ApproveVisit \/ RejectManaged, UNCHANGED <<listing, landlord>>
    PROVE  Inv'
<1>1. property' \in Property
    BY DEF Inv, RestOK, Property, CompleteVisit, ApproveVisit, RejectManaged, table
<1>2. passed' \subseteq Things /\ awaiting' \subseteq Things
    BY DEF Inv, RestOK, CompleteVisit, ApproveVisit, RejectManaged, visits, Things
<1>3. RestOK'
    BY <1>1, <1>2 DEF Inv, RestOK
<1>4. UNCHANGED <<sets, rooms, stay, spec, req, locks>>
    BY DEF CompleteVisit, ApproveVisit, RejectManaged, table
<1> QED BY <1>3, <1>4, TableAside

\* One room changes with its reservations, and proposals for it may be dropped.
LEMMA RoomAside ==
    ASSUME Inv, NEW r \in Rooms, NEW new \in Room, NEW it \in Stay, SafeRoom(new, spec),
           rooms' = [rooms EXCEPT ![r] = new], new.capacity <= rooms[r].capacity,
           stay' = [stay EXCEPT ![r] = it], it.coming + it.taken <= new.beds,
           rooms[r].state # "none" => new.state # "none",
           UNCHANGED <<property, spec, visits, req, locks, listing, landlord>>,
           UNCHANGED sets \/ sets' = [s \in SetIds |->
                                [sets[s] EXCEPT !.changes = {c \in @ : c[1] # r}]]
    PROVE  Inv'
<1>1. /\ rooms' \in [Rooms -> Room] /\ rooms'[r] = new
      /\ \A o \in Rooms \ {r} : rooms'[o] = rooms[o]
    BY DEF Inv, TableOK
<1>2. StatesKept /\ \A o \in Rooms : SafeRoom(rooms'[o], spec)
    BY <1>1 DEF StatesKept, Inv, TableOK
<1>3. \A s \in SetIds :
        /\ sets'[s] \in ChangeSet /\ sets'[s].changes \subseteq sets[s].changes
        /\ sets'[s].status = sets[s].status /\ (sets[s] = ClosedSet => sets'[s] = ClosedSet)
    <2> SUFFICES ASSUME NEW s \in SetIds
        PROVE /\ sets'[s] \in ChangeSet /\ sets'[s].changes \subseteq sets[s].changes
              /\ sets'[s].status = sets[s].status /\ (sets[s] = ClosedSet => sets'[s] = ClosedSet)
        OBVIOUS
    <2>1. sets[s] \in ChangeSet
        BY DEF Inv, TableOK
    <2>2. CASE UNCHANGED sets
        BY <2>1, <2>2
    <2>3. CASE sets' = [t \in SetIds |-> [sets[t] EXCEPT !.changes = {c \in @ : c[1] # r}]]
        <3>1. sets'[s] = [sets[s] EXCEPT !.changes = {c \in sets[s].changes : c[1] # r}]
            BY <2>3
        <3>2. /\ sets'[s] \in ChangeSet /\ sets'[s].changes \subseteq sets[s].changes
              /\ sets'[s].status = sets[s].status /\ sets'[s].capacity = sets[s].capacity
            BY <2>1, <3>1 DEF ChangeSet
        <3>3. ASSUME sets[s] = ClosedSet PROVE sets'[s] = ClosedSet
            <4>1. sets'[s].changes = {} /\ sets'[s].status = "closed" /\ sets'[s].capacity = 0
                BY <3>2, <3>3 DEF ClosedSet
            <4> QED BY <3>2, <4>1 DEF ChangeSet, ClosedSet
        <3> QED BY <3>2, <3>3
    <2> QED BY <2>2, <2>3
<1>4. sets' \in [SetIds -> ChangeSet]
    <2>1. CASE UNCHANGED sets
        BY <2>1 DEF Inv, TableOK
    <2>2. CASE ~UNCHANGED sets
        BY <1>3, <2>2
    <2> QED BY <2>1, <2>2
<1>5. OpenSets' = OpenSets
    BY <1>3 DEF OpenSets
<1>6. OneOpen' /\ ClosedEmpty'
    BY <1>3, <1>5 DEF OneOpen, ClosedEmpty, Inv, TableOK
<1>7. ASSUME NEW s \in SetIds PROVE Fitting(sets[s])'
    <2>1. Fitting(sets[s]) /\ sets'[s].changes \subseteq sets[s].changes
        BY <1>3 DEF Inv, TableOK
    <2>2. \A o \in Rooms : /\ rooms[o].capacity <= 1 => rooms'[o].capacity <= 1
                           /\ rooms[o].state # "none" => rooms'[o].state # "none"
        BY <1>1, BedsAssumption DEF Inv, TableOK, Room
    <2> QED BY <2>1, <2>2 DEF Fitting
<1>11. BedsForAll'
    BY <1>1 DEF Inv, TableOK, BedsForAll
<1>8. TableOK'
    BY <1>1, <1>2, <1>4, <1>6, <1>7, <1>11 DEF Inv, TableOK
<1>9. LocksOK' /\ HoldsInv'
    BY <1>2, <1>5, Aside DEF Inv
<1>10. RestOK'
    BY DEF Inv, RestOK, visits
<1> QED BY <1>8, <1>9, <1>10 DEF Inv

LEMMA StaySteps ==
    ASSUME Inv, NEW r \in Rooms, ClaimBed(r) \/ TakeBed(r) \/ LeaveBed(r),
           UNCHANGED <<listing, landlord>>
    PROVE  Inv'
<1> DEFINE old == stay[r]
           room == rooms[r]
           used == [room EXCEPT !.used = TRUE]
<1>1. /\ rooms \in [Rooms -> Room] /\ stay \in [Rooms -> Stay]
      /\ room \in Room /\ SafeRoom(room, spec) /\ old.coming + old.taken <= room.beds
      /\ old.coming \in Nat /\ old.taken \in Nat /\ old.comingRetired \in Nat
      /\ old.takenRetired \in Nat /\ room.beds \in Nat /\ room.capacity \in Nat
    BY BedsAssumption DEF Inv, TableOK, BedsForAll, Stay, Room
<1>2. rooms = [rooms EXCEPT ![r] = room]
    BY <1>1
<1>3. /\ used \in Room /\ used.beds = room.beds /\ used.capacity = room.capacity
      /\ used.state = room.state /\ used.typed = room.typed
    BY <1>1 DEF Room
<1>4. SafeRoom(used, spec)
    BY <1>1, <1>3 DEF SafeRoom
<1>5. CASE ClaimBed(r)
    <2> DEFINE it == [old EXCEPT !.coming = @ + 1]
    <2>1. it \in Stay /\ it.coming + it.taken <= room.beds
        BY <1>1, <1>5 DEF ClaimBed, Stay
    <2>2. stay' = [stay EXCEPT ![r] = it]
        BY <1>1, <1>5 DEF ClaimBed
    <2>3. UNCHANGED <<property, sets, rooms, spec, visits, req, locks>>
        BY <1>5 DEF ClaimBed
    <2>6. rooms' = [rooms EXCEPT ![r] = room] /\ room.capacity <= rooms[r].capacity
        BY <1>1, <1>2, <2>3
    <2> HIDE DEF it, used, room
    <2> QED BY <1>1, <2>1, <2>2, <2>3, <2>6, RoomAside DEF room
<1>6. CASE TakeBed(r)
    <2>1. PICK it \in Stay : stay' = [stay EXCEPT ![r] = it] /\ it.coming + it.taken <= room.beds
        <3>1. CASE /\ old.coming > 0
                   /\ stay' = [stay EXCEPT ![r].coming = @ - 1, ![r].taken = @ + 1]
            <4> DEFINE it == [old EXCEPT !.coming = @ - 1, !.taken = @ + 1]
            <4>1. it \in Stay /\ it.coming + it.taken <= room.beds
                BY <1>1, <3>1 DEF Stay
            <4>2. stay' = [stay EXCEPT ![r] = it]
                BY <1>1, <3>1
            <4> HIDE DEF it
            <4> QED BY <4>1, <4>2
        <3>2. CASE /\ old.comingRetired > 0
                   /\ stay' = [stay EXCEPT ![r].comingRetired = @ - 1,
                                           ![r].takenRetired = @ + 1]
            <4> DEFINE it == [old EXCEPT !.comingRetired = @ - 1, !.takenRetired = @ + 1]
            <4>1. it \in Stay /\ it.coming + it.taken <= room.beds
                BY <1>1, <3>2 DEF Stay
            <4>2. stay' = [stay EXCEPT ![r] = it]
                BY <1>1, <3>2
            <4> HIDE DEF it
            <4> QED BY <4>1, <4>2
        <3> QED BY <1>6, <3>1, <3>2 DEF TakeBed
    <2>2. rooms' = [rooms EXCEPT ![r] = used]
        BY <1>1, <1>6 DEF TakeBed
    <2>3. UNCHANGED <<property, sets, spec, visits, req, locks>>
        BY <1>6 DEF TakeBed
    <2>4. used.capacity <= rooms[r].capacity /\ (rooms[r].state # "none" => used.state # "none")
        BY <1>1, <1>3
    <2> HIDE DEF used
    <2> QED BY <1>3, <1>4, <2>1, <2>2, <2>3, <2>4, RoomAside
<1>7. CASE LeaveBed(r)
    <2>1. PICK kind \in DOMAIN NoStay : old[kind] > 0 /\ stay' = [stay EXCEPT ![r][kind] = @ - 1]
        BY <1>7 DEF LeaveBed
    <2> DEFINE it == [old EXCEPT ![kind] = @ - 1]
    <2>2. kind \in {"coming", "taken", "comingRetired", "takenRetired"}
        BY DEF NoStay
    <2>3. it \in Stay /\ it.coming + it.taken <= room.beds
        BY <1>1, <2>1, <2>2 DEF Stay
    <2>4. stay' = [stay EXCEPT ![r] = it]
        BY <1>1, <2>1
    <2>5. UNCHANGED <<property, sets, rooms, spec, visits, req, locks>>
        BY <1>7 DEF LeaveBed
    <2>6. rooms' = [rooms EXCEPT ![r] = room] /\ room.capacity <= rooms[r].capacity
        BY <1>1, <1>2, <2>5
    <2> HIDE DEF it, used, room
    <2> QED BY <1>1, <2>3, <2>4, <2>5, <2>6, RoomAside DEF room
<1> QED BY <1>5, <1>6, <1>7

LEMMA DeletionStep ==
    ASSUME Inv, DeleteRemovedUnits
    PROVE  Inv'
<1>1. PICK r \in Rooms :
        /\ rooms' = [rooms EXCEPT ![r] = [NoRoom EXCEPT !.state = "archived"]]
        /\ stay' = [stay EXCEPT ![r] = NoStay]
        /\ sets' = [s \in SetIds |-> [sets[s] EXCEPT !.changes = {c \in @ : c[1] # r}]]
    BY DEF DeleteRemovedUnits
<1> DEFINE new == [NoRoom EXCEPT !.state = "archived"]
<1>2. /\ new \in Room /\ new.state = "archived" /\ new.capacity = 0 /\ new.beds = 0
    <2>1. 0 \in 0 .. MaxBeds /\ NoRoom \in Room /\ NoRoom.capacity = 0 /\ NoRoom.beds = 0
        BY BedsAssumption DEF NoRoom, Room
    <2> HIDE DEF NoRoom
    <2> QED BY <2>1 DEF Room
<1>3. NoStay \in Stay /\ NoStay.coming + NoStay.taken <= new.beds
    BY <1>2 DEF NoStay, Stay
<1>4. rooms' = [rooms EXCEPT ![r] = new]
    BY <1>1
<1> HIDE DEF new
<1>5. SafeRoom(new, spec)
    BY <1>2 DEF SafeRoom
<1>6. rooms[r].capacity >= 0
    BY BedsAssumption DEF Inv, TableOK, Room
<1> QED BY <1>1, <1>2, <1>3, <1>4, <1>5, <1>6, RoomAside DEF DeleteRemovedUnits

LEMMA StandingSteps ==
    ASSUME Inv, CreateDraftListing \/ DecideStanding \/ IssueStrike
    PROVE  Inv'
<1>1. UNCHANGED roomVars
    BY DEF CreateDraftListing, DecideStanding, IssueStrike
<1>2. listing' \in ListingStatus
    BY DEF CreateDraftListing, DecideStanding, IssueStrike, ListingStatus, Inv, RestOK
<1>3. landlord' \in Landlord
    BY StrikesAssumption
    DEF CreateDraftListing, DecideStanding, IssueStrike, Landlord, Inv, RestOK
<1>4. RestOK'
    BY <1>1, <1>2, <1>3 DEF Inv, RestOK, roomVars, table, visits
<1> QED BY <1>1, <1>4, TableAside DEF roomVars, table

---------------------------------------------------------------------------
(* The theorems.                                                           *)

LEMMA InitInv == Init => Inv
<1> SUFFICES ASSUME Init PROVE Inv
    OBVIOUS
<1>1. 0 \in 0 .. MaxBeds
    BY BedsAssumption
<1>2. NoRoom \in Room /\ SafeRoom(NoRoom, 0)
    BY <1>1 DEF NoRoom, Room, SafeRoom
<1>3. ClosedSet \in ChangeSet /\ ClosedSet.status = "closed" /\ ClosedSet.changes = {}
    BY <1>1 DEF ClosedSet, ChangeSet
<1>4. OpenSets = {}
    BY <1>3 DEF Init, RoomsInit, OpenSets, Open, InReview, Editable
<1>9. BedsForAll
    <2>1. NoStay \in Stay /\ NoStay.coming + NoStay.taken <= NoRoom.beds
        BY DEF NoStay, Stay, NoRoom
    <2> QED BY <2>1 DEF Init, RoomsInit, BedsForAll
<1>5. TableOK
    BY <1>1, <1>2, <1>3, <1>4, <1>9 DEF Init, RoomsInit, TableOK, OneOpen, ClosedEmpty, Fitting
<1>6. RestOK
    BY StrikesAssumption DEF Init, RoomsInit, RestOK, Property, ListingStatus, Landlord
<1>7. LocksOK
    BY EmptyRequest DEF Init, RoomsInit, LocksOK
<1>8. HoldsInv
    <2>1. NoRequest.op = "none"
        BY DEF NoRequest
    <2> QED BY <2>1 DEF Init, RoomsInit, HoldsInv, Knows, Holds, Staging, Reviewing
<1> QED BY <1>5, <1>6, <1>7, <1>8 DEF Inv

LEMMA NextInv == Inv /\ [Next]_vars => Inv'
<1> SUFFICES ASSUME Inv, [Next]_vars PROVE Inv'
    OBVIOUS
<1>1. CASE RoomsAround /\ UNCHANGED <<listing, landlord>>
    BY <1>1, DiscardStep, RejectStep, VisitSteps, StaySteps DEF RoomsAround
<1>2. CASE CreateDraftListing \/ DeleteRemovedUnits \/ DecideStanding \/ IssueStrike
    BY <1>2, DeletionStep, StandingSteps
<1>3. ASSUME NEW p \in Reqs, Work(p) \/ Calls(p) PROVE Inv'
    BY <1>3, Working, Calling
<1>4. CASE UNCHANGED vars
    <2>1. RestOK'
        BY <1>4 DEF Inv, RestOK, vars, roomVars, table, visits
    <2> QED BY <1>4, <2>1, TableAside DEF vars, roomVars, table
<1> QED BY <1>1, <1>2, <1>3, <1>4 DEF Next, Around

\* Every reachable state is well typed.
THEOREM TypeCorrect == Spec => []TypeOK
<1>1. Spec => []Inv
    BY InitInv, NextInv, PTL DEF Spec
<1> QED BY <1>1, InvTyped, PTL

\* However change sets, their reviews, the approval of a managed property and
\* the students cross, a room has as many beds as it says, which is what its room
\* type says, and no bed is retired that was reserved when the beds were looked
\* for (RoomManagementService.resizeBeds and what calls it).  A reservation that
\* commits after that look may keep a retired bed: nothing in the code stops it.
THEOREM RoomsKeepTheirBeds == Spec => []BedsMatchCapacity
<1>1. Spec => []Inv
    BY InitInv, NextInv, PTL DEF Spec
<1> QED BY <1>1, InvTyped, PTL

\* Only a return to listing asks for another visit of what is listed.
LEMMA NextListable == Inv /\ ListedIsListable /\ [Next]_vars => ListedIsListable'
<1> SUFFICES ASSUME Inv, ListedIsListable, [Next]_vars PROVE ListedIsListable'
    OBVIOUS
<1>0. "listed" \notin Rooms
    BY RoomsAssumption
<1>1. CASE RoomsAround /\ UNCHANGED <<listing, landlord>>
    <2>1. property' = property \/ property' = [property EXCEPT !.review = "rejected"]
        BY <1>1 DEF RoomsAround, Discard, Reject, RejectManaged, CompleteVisit, ApproveVisit,
                    ClaimBed, TakeBed, LeaveBed, table
    <2>2. property'.intent = property.intent
        BY <2>1 DEF Inv, RestOK, Property
    <2>3. passed \subseteq passed'
        BY <1>1 DEF RoomsAround, Discard, Reject, RejectManaged, CompleteVisit, ApproveVisit,
                    ClaimBed, TakeBed, LeaveBed, visits
    <2> QED BY <1>1, <2>2, <2>3 DEF ListedIsListable
<1>2. CASE CreateDraftListing \/ DeleteRemovedUnits \/ DecideStanding \/ IssueStrike
    <2>1. UNCHANGED <<property, passed>> /\ (listing' = "verified" => listing = "verified")
        BY <1>2 DEF CreateDraftListing, DeleteRemovedUnits, DecideStanding, IssueStrike,
                    roomVars, table, visits
    <2> QED BY <2>1 DEF ListedIsListable
<1>3. ASSUME NEW p \in Reqs, RoomsWork(p) \/ RoomsCalls(p) \/ Fail(p),
             UNCHANGED <<listing, landlord>>
      PROVE  ListedIsListable'
    <2>1. property'.intent = property.intent
        BY <1>3 DEF RoomsWork, RoomsCalls, GetOrCreateDraft, StageWrite, EditWrite, LockSet,
            LockProperty, Submit, Cancel, Approve, ApproveManaged, DeadlockVictim, TypeBegin,
            CreateBegin, UpdateBegin, ArchiveBegin, EditBegin, SetBegin, ApproveManagedBegin,
            IntentBegin, Fail, Refuse, table, Inv, RestOK, Property
    <2>2. "listed" \in passed => "listed" \in passed'
        <3>1. CASE UNCHANGED visits
            BY <3>1 DEF visits
        <3>2. CASE ~UNCHANGED visits
            <4>1. \/ StageWrite(p) \/ EditWrite(p) \/ Submit(p) \/ ApproveManaged(p)
                BY <1>3, <3>2 DEF RoomsWork, RoomsCalls, GetOrCreateDraft, LockSet,
                    LockProperty, Cancel, Approve, DeadlockVictim, TypeBegin, CreateBegin,
                    UpdateBegin, ArchiveBegin, EditBegin, SetBegin, ApproveManagedBegin,
                    IntentBegin, Fail, Refuse
            <4>2. CASE StageWrite(p)
                <5>1. Stamp(IF req[p].op = "create" THEN {req[p].room} ELSE {})
                    BY <3>2, <4>2 DEF StageWrite, Refuse
                <5>2. req[p].op = "create" => req[p].room \in Rooms
                    BY DEF Inv, HoldsInv, Knows
                <5> QED BY <1>0, <5>1, <5>2 DEF Stamp
            <4>3. CASE EditWrite(p)
                BY <1>0, <3>2, <4>3 DEF EditWrite, Refuse, Stamp
            <4>4. CASE Submit(p)
                BY <3>2, <4>4 DEF Submit, Refuse, Stamp
            <4>5. CASE ApproveManaged(p)
                BY <1>0, <3>2, <4>5, DeclaredRight DEF ApproveManaged, Refuse, Stamp
            <4> QED BY <4>1, <4>2, <4>3, <4>4, <4>5
        <3> QED BY <3>1, <3>2
    <2> QED BY <1>3, <2>1, <2>2 DEF ListedIsListable
<1>4. ASSUME NEW p \in Reqs, SwitchIntent(p) PROVE ListedIsListable'
    <2>1. property'.intent = req[p].intent /\ req[p].intent \in {"list", "manage_only"}
        BY <1>4 DEF SwitchIntent, SetListingIntent, Inv, RestOK, LocksOK, Property, Request
    <2>2. CASE req[p].intent = "manage_only"
        BY <1>4, <2>2 DEF SwitchIntent, ListedIsListable
    <2>3. CASE req[p].intent = "list"
        <3>1. listing' = listing
            BY <1>4, <2>3 DEF SwitchIntent
        <3>2. property.intent = "list" => UNCHANGED visits
            BY <1>4, <2>3 DEF SwitchIntent, SetListingIntent
        <3> QED BY <2>1, <2>3, <3>1, <3>2 DEF ListedIsListable, visits
    <2> QED BY <2>1, <2>2, <2>3
<1>5. ASSUME NEW p \in Reqs, PublishWrite(p) PROVE ListedIsListable'
    <2>1. CASE Refuse(p) /\ UNCHANGED listing
        BY <2>1 DEF Refuse, ListedIsListable, table, visits
    <2>2. CASE ~(Refuse(p) /\ UNCHANGED listing)
        <3>1. property' = property /\ passed \subseteq passed'
              /\ (listing = "verified" \/ ListingGuard)
            BY <1>5, <2>2 DEF PublishWrite, visits
        <3> QED BY <3>1 DEF ListedIsListable, ListingGuard
    <2> QED BY <2>1, <2>2
<1>6. ASSUME NEW p \in Reqs, PublishRead(p) PROVE ListedIsListable'
    BY <1>6 DEF PublishRead, ListedIsListable, table, visits
<1>7. CASE UNCHANGED vars
    BY <1>7 DEF vars, roomVars, table, visits, ListedIsListable
<1> QED BY <1>1, <1>2, <1>3, <1>4, <1>5, <1>6, <1>7 DEF Next, Around, Work, Calls

\* However publishing, visits and the switch between managing and listing
\* cross, a listing is up only on a property that is to be listed and was
\* visited since its last switch (publishListing and the triggers behind it).
THEOREM ListingsAreListable == Spec => []ListedIsListable
<1>1. Init => Inv /\ ListedIsListable
    BY InitInv DEF Init, ListedIsListable
<1>2. (Inv /\ ListedIsListable) /\ [Next]_vars => (Inv /\ ListedIsListable)'
    BY NextInv, NextListable
<1> QED BY <1>1, <1>2, PTL DEF Spec

---------------------------------------------------------------------------
(* What a visit has seen.                                                  *)
(*                                                                         *)
(* A room comes to be shown by one of several ways: a set that was visited *)
(* as submitted, a set or a room applied at once while the property is     *)
(* managed, the declared rooms of a property that is approved, the form of *)
(* a lead.  The invariant says what each of them knows of the visits that  *)
(* are or will be approved: either they saw the room (Covers), or none was *)
(* made yet (Unseen), so that the next one will see it.                     *)

Marks == {"listed", "submitted"}
Unseen(mark) == mark \notin passed \cup awaiting

\* Whoever saw what the mark stands for saw room r.
Covers(mark, r) ==
    /\ mark \in passed => r \in passed
    /\ mark \in awaiting => r \in passed \cup awaiting

\* What a visit has to be completed after before the set may add its rooms.
Mark(s) == IF sets[s].status = "visit_required" THEN "submitted" ELSE "listed"

Adds(s, r) == <<r, "create">> \in sets[s].changes
OnList == property.intent = "list"

\* On a property to be listed, the visit of what is listed saw every room.
LiveSeen == OnList => \A r \in Rooms : Live(r) => Covers("listed", r)

\* The visit that lets a set in review pass saw the rooms it adds.
ReviewedSeen ==
    OnList => \A s \in SetIds, r \in Rooms :
        sets[s].status \in InReview /\ Adds(s, r) => Covers(Mark(s), r)

\* Only on a property to be listed does a set wait for a visit.
VisitsOnList == \A s \in SetIds : sets[s].status = "visit_required" => OnList

\* A request that may still add a room at once, or rename one in review, began
\* when no visit was made yet; the set it approves is in review; who switches
\* or approves the property holds it.
Careful(p) ==
    LET q == req[p]
    IN  /\ q.op \in Staging /\ q.pc = "write" /\ q.managed /\ OnList => Unseen("listed")
        /\ q.op = "edit" /\ OnList /\ sets[q.set].status \in InReview
             /\ (\E r \in Rooms : Adds(q.set, r)) => Unseen(Mark(q.set))
        /\ q.op = "approve" /\ q.pc \in {"property", "write"} => sets[q.set].status \in InReview
        /\ q.op \in {"approveManaged", "intent"} => propertyLock = p
        /\ q.op = "approveManaged" => ~OnList

SeenInv == LiveSeen /\ ReviewedSeen /\ VisitsOnList /\ \A p \in Reqs : Careful(p)

\* What most steps have in common: no visit is made, what is live or proposed
\* stays seen, a room is new only where the visits saw it, and a set gets into
\* review or changes there only where no visit saw it yet.
Faded == \A m \in Marks : Unseen(m) => Unseen(m)'
KnownKept == \A r \in Rooms, m \in Marks :
                Live(r) \/ Staged(r) => (Covers(m, r) => Covers(m, r)')
LiveKnown == \A r \in Rooms : Live(r)' => Live(r) \/ Covers("listed", r)'
ReviewsKnown ==
    \A s \in SetIds : sets'[s].status \in InReview =>
        \/ \A r \in Rooms : ~Adds(s, r)'
        \/ Unseen(Mark(s))'
        \/ sets'[s].status = sets[s].status /\ \A r \in Rooms : Adds(s, r)' => Adds(s, r)
SeenStep == OnList' => OnList /\ Faded /\ KnownKept /\ LiveKnown /\ ReviewsKnown

StaysReviewed(q) == setLock = q => \A s \in SetIds :
                        sets[s].status \in InReview => sets'[s].status \in InReview

LEMMA TableSeen ==
    ASSUME SeenInv, SeenStep
    PROVE  LiveSeen' /\ ReviewedSeen'
<1>1. LiveSeen'
    BY DEF SeenInv, LiveSeen, SeenStep, KnownKept, LiveKnown, Marks
<1>2. ReviewedSeen'
    <2> SUFFICES ASSUME OnList', NEW s \in SetIds, NEW r \in Rooms,
                        sets'[s].status \in InReview, Adds(s, r)'
                 PROVE  Covers(Mark(s), r)'
        BY DEF ReviewedSeen
    <2>1. CASE Unseen(Mark(s))'
        BY <2>1 DEF Unseen, Covers
    <2>2. CASE ~Unseen(Mark(s))'
        <3>1. sets'[s].status = sets[s].status /\ Adds(s, r)
            BY <2>2 DEF SeenStep, ReviewsKnown
        <3>2. Mark(s)' = Mark(s) /\ Mark(s) \in Marks
            BY <3>1 DEF Mark, Marks
        <3>3. Covers(Mark(s), r) /\ Staged(r)
            BY <3>1 DEF SeenInv, ReviewedSeen, SeenStep, Staged, OpenSets, Open, Adds
        <3>4. \A m \in Marks : Covers(m, r) => Covers(m, r)'
            BY <3>3 DEF SeenStep, KnownKept
        <3>5. ASSUME NEW m \in Marks, m = Mark(s) PROVE Covers(Mark(s), r)'
            BY <3>2, <3>3, <3>4, <3>5 DEF Covers
        <3> QED BY <3>2, <3>5
    <2> QED BY <2>1, <2>2
<1> QED BY <1>1, <1>2

\* The other requests find what they knew still true.
LEMMA OthersSeen ==
    ASSUME Inv, SeenInv, SeenStep, NEW q \in Reqs, req'[q] = req[q], StaysReviewed(q),
           propertyLock = q => propertyLock' = q
    PROVE  Careful(q)'
<1> DEFINE o == req[q]
<1>1. Careful(q) /\ Knows(o) /\ Holds(q)
    BY DEF SeenInv, Inv, HoldsInv
<1>2. (o.op \in Staging /\ o.pc = "write" /\ o.managed /\ OnList => Unseen("listed"))'
    BY <1>1 DEF Careful, SeenStep, Faded, Marks
<1>3. (o.op = "edit" /\ OnList /\ sets[o.set].status \in InReview
         /\ (\E r \in Rooms : Adds(o.set, r)) => Unseen(Mark(o.set)))'
    <2> SUFFICES ASSUME o.op = "edit", OnList', sets'[o.set].status \in InReview,
                        NEW r \in Rooms, Adds(o.set, r)'
                 PROVE  Unseen(Mark(o.set))'
        OBVIOUS
    <2>1. o.set \in SetIds
        BY <1>1 DEF Knows
    <2>2. CASE ~Unseen(Mark(o.set))'
        <3>1. sets'[o.set].status = sets[o.set].status /\ Adds(o.set, r)
            BY <2>1, <2>2 DEF SeenStep, ReviewsKnown
        <3>2. Unseen(Mark(o.set))
            BY <1>1, <3>1 DEF Careful, SeenStep
        <3>3. Mark(o.set)' = Mark(o.set) /\ Mark(o.set) \in Marks
            BY <3>1 DEF Mark, Marks
        <3>4. \A m \in Marks : Unseen(m) => Unseen(m)'
            BY DEF SeenStep, Faded
        <3> QED BY <3>2, <3>3, <3>4 DEF Unseen
    <2> QED BY <2>2
<1>4. (o.op = "approve" /\ o.pc \in {"property", "write"} => sets[o.set].status \in InReview)'
    BY <1>1 DEF Careful, Knows, Holds, Reviewing, StaysReviewed
<1>5. /\ o.op \in {"approveManaged", "intent"} => propertyLock' = q
      /\ o.op = "approveManaged" => ~OnList'
    BY <1>1 DEF Careful, SeenStep
<1> QED BY <1>2, <1>3, <1>4, <1>5 DEF Careful

\* A request is over.
LEMMA SeenEnds ==
    ASSUME Inv, SeenInv, SeenStep, VisitsOnList', NEW p \in Reqs, Finish(p),
           \A q \in Reqs \ {p} : StaysReviewed(q)
    PROVE  SeenInv'
<1>1. LiveSeen' /\ ReviewedSeen'
    BY TableSeen
<1>2. ASSUME NEW q \in Reqs PROVE Careful(q)'
    <2>1. CASE q = p
        <3>1. req'[q].op = "none"
            BY <2>1 DEF Inv, LocksOK, Finish, NoRequest
        <3> QED BY <3>1 DEF Careful, Staging
    <2>2. CASE q # p
        <3>1. req'[q] = req[q] /\ (propertyLock = q => propertyLock' = q)
            BY <2>2 DEF Inv, LocksOK, Finish
        <3> QED BY <2>2, <3>1, OthersSeen
    <2> QED BY <2>1, <2>2
<1> QED BY <1>1, <1>2 DEF SeenInv

\* A step of nobody's.
LEMMA SeenAside ==
    ASSUME Inv, SeenInv, SeenStep, VisitsOnList', UNCHANGED <<req, propertyLock>>,
           \A q \in Reqs : StaysReviewed(q)
    PROVE  SeenInv'
BY TableSeen, OthersSeen DEF SeenInv

LEMMA NothingSeen ==
    ASSUME SeenInv, UNCHANGED <<sets, rooms, visits>>, property'.intent = property.intent
    PROVE  SeenStep /\ VisitsOnList' /\ \A q \in Reqs : StaysReviewed(q)
<1>1. Faded /\ KnownKept
    BY DEF visits, Faded, KnownKept, Unseen, Covers
<1>2. LiveKnown /\ ReviewsKnown
    BY DEF LiveKnown, ReviewsKnown, Live, Adds
<1> QED BY <1>1, <1>2 DEF SeenStep, OnList, VisitsOnList, SeenInv, StaysReviewed

LEMMA SeenRefused ==
    ASSUME Inv, SeenInv, NEW p \in Reqs, Refuse(p)
    PROVE  SeenInv'
BY NothingSeen, SeenEnds DEF Refuse, table

\* A request begins or goes one step on, and nothing is written yet.
LEMMA SeenGoesOn ==
    ASSUME Inv, SeenInv, UNCHANGED table, UNCHANGED visits,
           NEW p \in Reqs, NEW q \in Request, req' = [req EXCEPT ![p] = q],
           propertyLock' = propertyLock \/ (PropertyFree(p) /\ propertyLock' = p),
           Careful(p)'
    PROVE  SeenInv'
<1>1. SeenStep /\ VisitsOnList' /\ \A o \in Reqs : StaysReviewed(o)
    BY NothingSeen DEF table
<1>2. LiveSeen' /\ ReviewedSeen'
    BY <1>1, TableSeen
<1>3. ASSUME NEW o \in Reqs, o # p PROVE Careful(o)'
    <2>1. req'[o] = req[o] /\ (propertyLock = o => propertyLock' = o)
        BY <1>3, RoomsAssumption DEF Inv, LocksOK, PropertyFree, PropertyShareable
    <2> QED BY <1>1, <2>1, OthersSeen
<1> QED BY <1>1, <1>2, <1>3 DEF SeenInv

\* What a request that begins knows.
LEMMA CarefulFirst ==
    ASSUME NEW p \in Reqs, req'[p].op \in Staging \cup Reviewing => req'[p].pc = "set",
           req'[p].op = "edit" => sets'[req'[p].set].status \in Editable,
           req'[p].op \in {"approveManaged", "intent"} => propertyLock' = p,
           req'[p].op = "approveManaged" => ~OnList'
    PROVE  Careful(p)'
BY DEF Careful, Reviewing, InReview, Editable

LEMMA SeenCalls ==
    ASSUME Inv, SeenInv, NEW p \in Reqs, Calls(p)
    PROVE  SeenInv'
<1>0. NoRequest \in Request /\ req \in [Reqs -> Request]
    BY EmptyRequest DEF Inv, LocksOK
<1>1. CASE Fail(p)
    BY <1>1, SeenRefused DEF Fail
<1>2. CASE TypeBegin(p)
    <2>1. PICK n \in 1 .. MaxBeds :
            req' = [req EXCEPT ![p] = [NoRequest EXCEPT !.op = "type", !.pc = "set",
                                                       !.capacity = n]]
        BY <1>2 DEF TypeBegin, Begin
    <2> DEFINE q == [NoRequest EXCEPT !.op = "type", !.pc = "set", !.capacity = n]
    <2>2. n \in 0 .. MaxBeds
        BY BedsAssumption
    <2>3. q \in Request /\ q.op = "type" /\ q.pc = "set" /\ req' = [req EXCEPT ![p] = q]
        BY <1>0, <2>1, <2>2 DEF Request
    <2> HIDE DEF q
    <2>4. Careful(p)'
        BY <1>0, <2>3, CarefulFirst
    <2> QED BY <1>2, <2>3, <2>4, SeenGoesOn DEF TypeBegin
<1>3. CASE CreateBegin(p) \/ UpdateBegin(p) \/ ArchiveBegin(p)
    <2>1. PICK r \in Rooms, op \in {"create", "update", "archive"} :
            req' = [req EXCEPT ![p] = [NoRequest EXCEPT !.op = op, !.pc = "set", !.room = r]]
        BY <1>3 DEF CreateBegin, UpdateBegin, ArchiveBegin, Begin
    <2> DEFINE q == [NoRequest EXCEPT !.op = op, !.pc = "set", !.room = r]
    <2>2. q \in Request /\ q.op = op /\ q.pc = "set" /\ req' = [req EXCEPT ![p] = q]
        BY <1>0, <2>1 DEF Request
    <2> HIDE DEF q
    <2>3. Careful(p)'
        BY <1>0, <2>2, CarefulFirst
    <2>4. UNCHANGED <<table, visits, locks>>
        BY <1>3 DEF CreateBegin, UpdateBegin, ArchiveBegin
    <2> QED BY <2>2, <2>3, <2>4, SeenGoesOn DEF locks
<1>4. CASE EditBegin(p)
    <2>1. PICK s \in SetIds, r \in Rooms :
            /\ sets[s].status \in Editable
            /\ req' = [req EXCEPT ![p] = [NoRequest EXCEPT !.op = "edit", !.pc = "write",
                                                       !.set = s, !.room = r]]
        BY <1>4 DEF EditBegin, Begin
    <2> DEFINE q == [NoRequest EXCEPT !.op = "edit", !.pc = "write", !.set = s, !.room = r]
    <2>2. q \in Request /\ q.op = "edit" /\ q.set = s /\ req' = [req EXCEPT ![p] = q]
        BY <1>0, <2>1 DEF Request
    <2> HIDE DEF q
    <2>3. UNCHANGED <<table, visits, locks>>
        BY <1>4 DEF EditBegin
    <2>4. Careful(p)'
        BY <1>0, <2>1, <2>2, <2>3, CarefulFirst DEF table, Staging, Reviewing
    <2> QED BY <2>2, <2>3, <2>4, SeenGoesOn DEF locks
<1>5. CASE SetBegin(p)
    <2>1. PICK s \in SetIds, op \in Reviewing :
            req' = [req EXCEPT ![p] = [NoRequest EXCEPT !.op = op, !.pc = "set", !.set = s]]
        BY <1>5 DEF SetBegin, Begin, Reviewing
    <2> DEFINE q == [NoRequest EXCEPT !.op = op, !.pc = "set", !.set = s]
    <2>2. q \in Request /\ q.op = op /\ q.pc = "set" /\ req' = [req EXCEPT ![p] = q]
        BY <1>0, <2>1 DEF Request, Reviewing
    <2> HIDE DEF q
    <2>3. Careful(p)'
        BY <1>0, <2>2, CarefulFirst DEF Reviewing
    <2> QED BY <1>5, <2>2, <2>3, SeenGoesOn DEF SetBegin, locks
<1>6. CASE ApproveManagedBegin(p)
    <2> DEFINE q == [NoRequest EXCEPT !.op = "approveManaged", !.pc = "set"]
    <2>1. q \in Request /\ q.op = "approveManaged" /\ req' = [req EXCEPT ![p] = q]
        BY <1>0, <1>6 DEF Request, ApproveManagedBegin, Begin
    <2> HIDE DEF q
    <2>2. ~OnList'
        BY <1>6 DEF ApproveManagedBegin, OnList, table
    <2>3. Careful(p)'
        BY <1>0, <1>6, <2>1, <2>2, CarefulFirst DEF ApproveManagedBegin, Staging, Reviewing
    <2> QED BY <1>6, <2>1, <2>3, SeenGoesOn DEF ApproveManagedBegin
<1>7. CASE IntentBegin(p)
    <2>1. PICK to \in {"list", "manage_only"} :
            req' = [req EXCEPT ![p] = [NoRequest EXCEPT !.op = "intent", !.pc = "set",
                                                       !.intent = to]]
        BY <1>7 DEF IntentBegin, Begin
    <2> DEFINE q == [NoRequest EXCEPT !.op = "intent", !.pc = "set", !.intent = to]
    <2>2. q \in Request /\ q.op = "intent" /\ req' = [req EXCEPT ![p] = q]
        BY <1>0, <2>1 DEF Request
    <2> HIDE DEF q
    <2>3. Careful(p)'
        BY <1>0, <1>7, <2>2, CarefulFirst DEF IntentBegin, Staging, Reviewing
    <2> QED BY <1>7, <2>2, <2>3, SeenGoesOn DEF IntentBegin
<1>8. CASE PublishRead(p)
    <2> DEFINE q == [NoRequest EXCEPT !.op = "publish", !.pc = "write"]
    <2>1. q \in Request /\ q.op = "publish" /\ req' = [req EXCEPT ![p] = q]
        BY <1>0, <1>8 DEF Request, PublishRead, Begin
    <2> HIDE DEF q
    <2>2. Careful(p)'
        BY <1>0, <2>1, CarefulFirst DEF Staging, Reviewing
    <2> QED BY <1>8, <2>1, <2>2, SeenGoesOn DEF PublishRead, locks
<1> QED BY <1>1, <1>2, <1>3, <1>4, <1>5, <1>6, <1>7, <1>8 DEF Calls, RoomsCalls

LEMMA SeenDraft ==
    ASSUME Inv, SeenInv, NEW p \in Reqs, GetOrCreateDraft(p)
    PROVE  SeenInv'
<1>1. CASE Refuse(p)
    BY <1>1, SeenRefused
<1>2. CASE ~Refuse(p)
    <2>1. PICK s \in SetIds :
            req' = [req EXCEPT ![p].pc = "write", ![p].set = s, ![p].managed = Managed]
        BY <1>2 DEF GetOrCreateDraft
    <2> DEFINE q == [req[p] EXCEPT !.pc = "write", !.set = s, !.managed = Managed]
    <2>2. req[p] \in Request /\ req[p].op \in Staging /\ Managed \in BOOLEAN
        BY DEF Inv, LocksOK, GetOrCreateDraft, Managed
    <2>3. q \in Request /\ q.op = req[p].op /\ q.managed = Managed
        BY <2>2 DEF Request
    <2>4. req' = [req EXCEPT ![p] = q]
        BY <2>1, <2>2 DEF Inv, LocksOK
    <2> HIDE DEF q
    <2>5. UNCHANGED <<table, visits, propertyLock>>
        BY <1>2 DEF GetOrCreateDraft
    <2>6. req'[p].op \in Staging /\ req'[p].managed = Managed
        BY <2>2, <2>3, <2>4 DEF Inv, LocksOK
    <2>7. Managed /\ OnList' => FALSE
        BY <2>5 DEF Managed, OnList, table
    <2>8. Careful(p)'
        BY <2>6, <2>7 DEF Careful, Staging
    <2> QED BY <2>3, <2>4, <2>5, <2>8, SeenGoesOn
<1> QED BY <1>1, <1>2

LEMMA SeenLocks ==
    ASSUME Inv, SeenInv, NEW p \in Reqs, LockSet(p) \/ LockProperty(p)
    PROVE  SeenInv'
<1>1. CASE Refuse(p)
    BY <1>1, SeenRefused
<1>2. CASE ~Refuse(p)
    <2>1. PICK pc \in {"property", "write"} : req' = [req EXCEPT ![p].pc = pc]
        BY <1>2 DEF LockSet, LockProperty
    <2> DEFINE q == [req[p] EXCEPT !.pc = pc]
    <2>2. req[p] \in Request /\ req[p].op \in Reviewing /\ Careful(p)
        BY DEF Inv, LocksOK, SeenInv, LockSet, LockProperty, Reviewing
    <2>3. q \in Request /\ q.op = req[p].op /\ q.set = req[p].set
        BY <2>2 DEF Request
    <2>4. req' = [req EXCEPT ![p] = q]
        BY <2>1, <2>2 DEF Inv, LocksOK
    <2> HIDE DEF q
    <2>5. UNCHANGED table /\ UNCHANGED visits
          /\ (propertyLock' = propertyLock \/ (PropertyFree(p) /\ propertyLock' = p))
        BY <1>2 DEF LockSet, LockProperty
    <2>6. req'[p].op = req[p].op /\ req'[p].set = req[p].set
        BY <2>3, <2>4 DEF Inv, LocksOK
    <2>7. req[p].op = "approve" => sets'[req[p].set].status \in InReview
        BY <1>2, <2>2, <2>5 DEF LockSet, LockProperty, Expected, Careful, table
    <2>8. Careful(p)'
        BY <2>2, <2>6, <2>7 DEF Careful, Staging, Reviewing
    <2> QED BY <2>3, <2>4, <2>5, <2>8, SeenGoesOn
<1> QED BY <1>1, <1>2

\* A visit that did not see a room takes nothing from those that were seen.
LEMMA StampSeen ==
    ASSUME NEW T, Stamp(T), \A r \in Rooms : Live(r) \/ Staged(r) => r \notin T
    PROVE  Faded /\ KnownKept
BY DEF Stamp, Faded, KnownKept, Unseen, Covers

\* Where no visit was made, none has missed a room.
LEMMA UnseenCovers ==
    ASSUME NEW m, Unseen(m), NEW r
    PROVE  Covers(m, r)
BY DEF Unseen, Covers

\* A set is closed, and no other set changes.
LEMMA SeenClosed ==
    ASSUME Inv, SeenInv, NEW s \in SetIds, sets' = [sets EXCEPT ![s] = ClosedSet],
           property'.intent = property.intent
    PROVE  ReviewsKnown /\ VisitsOnList'
<1>1. ClosedSet.status \notin InReview /\ ClosedSet.status # "visit_required"
    BY DEF ClosedSet, InReview
<1>2. sets'[s] = ClosedSet /\ \A t \in SetIds \ {s} : sets'[t] = sets[t]
    BY DEF Inv, TableOK
<1> QED BY <1>1, <1>2 DEF ReviewsKnown, VisitsOnList, SeenInv, OnList, Adds

\* What applying a set leaves live was live or is one of its rooms.
LEMMA AppliedLive ==
    ASSUME Inv, NEW set, NEW r \in Rooms, ApplyUnitChanges(set, r).state = "live"
    PROVE  Live(r) \/ <<r, "create">> \in set.changes
<1> DEFINE n == NewSpec(set)
           typed == ApplyRoomTypeVersion(r, n)
           made == IF <<r, "create">> \in set.changes THEN Create(typed, n) ELSE typed
           moved == IF <<r, "update">> \in set.changes
                    THEN Resize([made EXCEPT !.typed = TRUE], n) ELSE made
           Shaped(room) == room.state \in {"none", "live", "archived"}
                           /\ DOMAIN room = DOMAIN NoRoom
<1>1. rooms[r] \in Room
    BY DEF Inv, TableOK
<1>2. DOMAIN rooms[r] = DOMAIN NoRoom
    BY <1>1 DEF Room, NoRoom
<1> SUFFICES ASSUME <<r, "create">> \notin set.changes PROVE Live(r)
    OBVIOUS
<1>3. typed.state = rooms[r].state /\ DOMAIN typed = DOMAIN NoRoom
    BY <1>1, <1>2 DEF ApplyRoomTypeVersion, Resize, NoRoom
<1>4. made = typed
    OBVIOUS
<1> HIDE DEF n, typed
<1>5. moved.state = rooms[r].state /\ DOMAIN moved = DOMAIN NoRoom
    BY <1>3, <1>4 DEF Resize, NoRoom
<1>6. ApplyUnitChanges(set, r) =
        IF <<r, "archive">> \in set.changes THEN [moved EXCEPT !.state = "archived"] ELSE moved
    BY DEF ApplyUnitChanges, n, typed
<1> HIDE DEF moved
<1>7. ApplyUnitChanges(set, r).state = "live" => moved.state = "live"
    <2>1. CASE <<r, "archive">> \in set.changes
        <3>1. ApplyUnitChanges(set, r).state = "archived"
            BY <1>5, <1>6, <2>1 DEF NoRoom
        <3> QED BY <3>1
    <2>2. CASE <<r, "archive">> \notin set.changes
        BY <1>6, <2>2
    <2> QED BY <2>1, <2>2
<1> QED BY <1>5, <1>7 DEF Live

LEMMA SeenStage ==
    ASSUME Inv, SeenInv, NEW p \in Reqs, StageWrite(p)
    PROVE  SeenInv'
<1> DEFINE q == req[p]
           set == WithChange(sets[q.set], q)
           T == IF q.op = "create" THEN {q.room} ELSE {}
<1>0. q.op \in Staging /\ q.pc = "write"
    BY DEF StageWrite
<1>1. q.set \in SetIds /\ setLock = p /\ Careful(p)
    BY <1>0, Mine DEF SeenInv
<1>2. CASE Refuse(p)
    BY <1>2, SeenRefused
<1>3. CASE ~Refuse(p)
    <2>1. PICK managed \in {q.managed, Managed} :
            /\ q.op = "create" => CodeAvailable(q.room)
            /\ IF managed THEN ApplyChangeSet(q.set, set)
               ELSE sets' = [sets EXCEPT ![q.set] = set] /\ UNCHANGED <<rooms, spec>>
            /\ Stamp(T) /\ Finish(p) /\ UNCHANGED property
        BY <1>3 DEF StageWrite
    <2>2. Faded /\ KnownKept
        <3>1. \A r \in Rooms : Live(r) \/ Staged(r) => r \notin T
            BY <2>1 DEF CodeAvailable, Live
        <3> HIDE DEF T
        <3> QED BY <2>1, <3>1, StampSeen
    <2>3. property'.intent = property.intent /\ (OnList' => OnList)
        BY <2>1 DEF OnList
    <2>4. ReviewsKnown /\ VisitsOnList'
        <3>1. CASE sets' = [sets EXCEPT ![q.set] = ClosedSet]
            BY <1>1, <2>3, <3>1, SeenClosed
        <3>2. CASE sets' = [sets EXCEPT ![q.set] = set]
            <4>1. set.status = "draft"
                BY DEF WithChange
            <4> HIDE DEF set, q
            <4>2. sets'[q.set] = set /\ \A s \in SetIds \ {q.set} : sets'[s] = sets[s]
                BY <1>1, <3>2 DEF Inv, TableOK
            <4> QED BY <2>3, <4>1, <4>2
                    DEF ReviewsKnown, VisitsOnList, InReview, SeenInv, OnList, Adds
        <3> QED BY <2>1, <3>1, <3>2 DEF ApplyChangeSet
    <2>5. OnList' => LiveKnown
        <3>1. CASE ~managed
            BY <2>1, <3>1 DEF LiveKnown, Live
        <3>2. CASE managed
            <4>1. ASSUME OnList' PROVE Unseen("listed")'
                <5>1. ~Managed /\ q.managed /\ OnList
                    BY <2>3, <3>2, <4>1 DEF Managed, OnList
                <5> QED BY <1>0, <1>1, <2>2, <5>1 DEF Careful, Faded, Marks
            <4> QED BY <4>1 DEF LiveKnown, Unseen, Covers
        <3> QED BY <3>1, <3>2
    <2>6. \A o \in Reqs \ {p} : StaysReviewed(o)
        BY <1>1 DEF StaysReviewed
    <2> HIDE DEF q, set, T
    <2> QED BY <2>1, <2>2, <2>3, <2>4, <2>5, <2>6, SeenEnds DEF SeenStep
<1> QED BY <1>2, <1>3

LEMMA SeenEdit ==
    ASSUME Inv, SeenInv, NEW p \in Reqs, EditWrite(p)
    PROVE  SeenInv'
<1>1. CASE Refuse(p)
    BY <1>1, SeenRefused
<1>2. CASE ~Refuse(p)
    <2>0. PICK s \in SetIds, q \in Request : q = req[p] /\ s = q.set
        BY DEF EditWrite, Inv, LocksOK, HoldsInv, Knows
    <2> DEFINE Edited(r) == [sets[s] EXCEPT !.changes =
                                (@ \ {<<q.room, "create">>}) \cup {<<r, "create">>}]
    <2>1. PICK r \in Rooms :
            /\ q.op = "edit" /\ <<q.room, "create">> \in sets[s].changes /\ CodeAvailable(r)
            /\ \/ Managed /\ SetFree(p) /\ ApplyChangeSet(s, Edited(r))
               \/ sets' = [sets EXCEPT ![s] = Edited(r)] /\ UNCHANGED <<rooms, spec>>
            /\ Stamp({r})
            /\ Finish(p) /\ UNCHANGED property
        BY <1>2, <2>0 DEF EditWrite
    <2>2. q.room \in Rooms /\ Careful(p)
        BY <2>0, <2>1 DEF Inv, HoldsInv, Knows, SeenInv
    <2>3. Faded /\ KnownKept
        BY <2>1, StampSeen DEF CodeAvailable, Live
    <2>4. property'.intent = property.intent /\ (OnList' <=> OnList)
        BY <2>1 DEF OnList
    <2>5. CASE Managed /\ SetFree(p) /\ ApplyChangeSet(s, Edited(r))
        <3>1. sets' = [sets EXCEPT ![s] = ClosedSet]
            BY <2>5 DEF ApplyChangeSet
        <3>2. VisitsOnList'
            BY <2>2, <2>4, <3>1, SeenClosed
        <3>3. SeenStep
            BY <2>4, <2>5 DEF SeenStep, Managed, OnList
        <3>4. \A o \in Reqs \ {p} : StaysReviewed(o)
            BY <2>5, RoomsAssumption DEF StaysReviewed, SetFree
        <3> QED BY <2>1, <3>2, <3>3, <3>4, SeenEnds
    <2>6. CASE sets' = [sets EXCEPT ![s] = Edited(r)] /\ UNCHANGED <<rooms, spec>>
        <3>1. /\ sets'[s].status = sets[s].status
              /\ \A t \in SetIds \ {s} : sets'[t] = sets[t]
            BY <2>2, <2>6 DEF Inv, TableOK, ChangeSet
        <3>2. OnList' /\ sets[s].status \in InReview => Unseen(Mark(s))'
            <4> SUFFICES ASSUME OnList', sets[s].status \in InReview PROVE Unseen(Mark(s))'
                OBVIOUS
            <4>1. Unseen(Mark(s))
                BY <2>0, <2>1, <2>2, <2>4 DEF Careful, Adds
            <4>2. Mark(s)' = Mark(s) /\ Mark(s) \in Marks
                BY <2>1, <3>1 DEF Mark, Marks
            <4>3. \A m \in Marks : Unseen(m) => Unseen(m)'
                BY <2>3 DEF Faded
            <4> QED BY <4>1, <4>2, <4>3 DEF Unseen
        <3>3. OnList' => ReviewsKnown
            BY <3>1, <3>2 DEF ReviewsKnown, Adds
        <3>4. LiveKnown
            BY <2>6 DEF LiveKnown, Live
        <3>5. VisitsOnList'
            BY <2>4, <3>1 DEF VisitsOnList, SeenInv
        <3>6. \A o \in Reqs \ {p} : StaysReviewed(o)
            BY <3>1 DEF StaysReviewed
        <3> QED BY <2>1, <2>3, <2>4, <3>3, <3>4, <3>5, <3>6, SeenEnds DEF SeenStep
    <2> QED BY <2>1, <2>5, <2>6
<1> QED BY <1>1, <1>2

\* A set that adds rooms waits for a visit on a property to be listed, and the
\* visit has to come after it was submitted.
LEMMA SeenSubmit ==
    ASSUME Inv, SeenInv, NEW p \in Reqs, Submit(p)
    PROVE  SeenInv'
<1>1. CASE Refuse(p)
    BY <1>1, SeenRefused
<1>2. CASE ~Refuse(p)
    <2>2. PICK s \in SetIds : s = req[p].set /\ setLock = p
        BY Mine DEF Submit, SetWrites, Reviewing
    <2> DEFINE visit == RequiresVisit(sets[s])
    <2>1. /\ sets' = [sets EXCEPT ![s].status =
                        IF visit THEN "visit_required" ELSE "pending_review"]
          /\ Stamp({"submitted"}) /\ Finish(p) /\ UNCHANGED <<property, rooms, spec>>
        BY <1>2, <2>2 DEF Submit
    <2>3. /\ sets'[s].status = IF visit THEN "visit_required" ELSE "pending_review"
          /\ sets'[s].changes = sets[s].changes
          /\ \A t \in SetIds \ {s} : sets'[t] = sets[t]
        BY <2>1, <2>2 DEF Inv, TableOK, ChangeSet
    <2>4. Faded /\ KnownKept
        BY <2>1, StampSeen, RoomsAssumption
    <2>5. OnList' <=> OnList
        BY <2>1 DEF OnList
    <2>6. visit <=> OnList /\ \E r \in Rooms : Adds(s, r)
        BY DEF RequiresVisit, AddsRooms, OnList, Adds
    <2> HIDE DEF visit
    <2>7. OnList' => ReviewsKnown
        <3>1. CASE visit
            <4>1. Mark(s)' = "submitted"
                BY <2>3, <3>1 DEF Mark
            <4>2. Unseen(Mark(s))'
                BY <2>1, <4>1 DEF Unseen, Stamp
            <4> QED BY <2>3, <4>2 DEF ReviewsKnown, Adds
        <3>2. CASE ~visit
            <4>1. OnList => \A r \in Rooms : <<r, "create">> \notin sets'[s].changes
                BY <2>3, <2>6, <3>2 DEF Adds
            <4> QED BY <2>3, <2>5, <4>1 DEF ReviewsKnown, Adds
        <3> QED BY <3>1, <3>2
    <2>8. VisitsOnList'
        BY <2>3, <2>5, <2>6 DEF VisitsOnList, SeenInv
    <2>9. LiveKnown
        BY <2>1 DEF LiveKnown, Live
    <2>10. \A o \in Reqs \ {p} : StaysReviewed(o)
        BY <2>2 DEF StaysReviewed
    <2> QED BY <2>1, <2>4, <2>5, <2>7, <2>8, <2>9, <2>10, SeenEnds DEF SeenStep
<1> QED BY <1>1, <1>2

LEMMA SeenCancel ==
    ASSUME Inv, SeenInv, NEW p \in Reqs, Cancel(p)
    PROVE  SeenInv'
<1>1. PICK s \in SetIds : s = req[p].set /\ setLock = p
    BY Mine DEF Cancel, SetWrites, Reviewing
<1>2. /\ sets' = [sets EXCEPT ![s] = ClosedSet] /\ Finish(p)
      /\ UNCHANGED <<property, rooms, visits>>
    BY <1>1 DEF Cancel
<1>3. ReviewsKnown /\ VisitsOnList'
    BY <1>2, SeenClosed
<1>4. Faded /\ KnownKept /\ LiveKnown
    BY <1>2 DEF visits, Faded, KnownKept, LiveKnown, Unseen, Covers, Live
<1>5. OnList' => OnList
    BY <1>2 DEF OnList
<1>6. \A o \in Reqs \ {p} : StaysReviewed(o)
    BY <1>1 DEF StaysReviewed
<1> QED BY <1>2, <1>3, <1>4, <1>5, <1>6, SeenEnds DEF SeenStep

\* The visit that lets the set pass saw what it adds.
LEMMA SeenApprove ==
    ASSUME Inv, SeenInv, NEW p \in Reqs, Approve(p)
    PROVE  SeenInv'
<1>1. CASE Refuse(p)
    BY <1>1, SeenRefused
<1>2. CASE ~Refuse(p)
    <2>1. PICK s \in SetIds : s = req[p].set /\ setLock = p
        BY Mine DEF Approve, SetWrites, Reviewing
    <2>2. /\ sets[s].status = "visit_required" => "submitted" \in passed
          /\ ApplyChangeSet(s, sets[s]) /\ Finish(p) /\ UNCHANGED <<property, visits>>
        BY <1>2, <2>1 DEF Approve
    <2>3. sets[s].status \in InReview
        BY <2>1 DEF SeenInv, Careful, Approve, SetWrites
    <2>4. OnList' <=> OnList
        BY <2>2 DEF OnList
    <2>5. ReviewsKnown /\ VisitsOnList'
        BY <2>2, SeenClosed DEF ApplyChangeSet
    <2>6. Faded /\ KnownKept
        BY <2>2 DEF visits, Faded, KnownKept, Unseen, Covers
    <2>7. OnList => LiveKnown
        <3> SUFFICES ASSUME OnList, NEW r \in Rooms, Live(r)', ~Live(r)
                     PROVE  Covers("listed", r)'
            BY DEF LiveKnown
        <3>1. Adds(s, r)
            BY <2>2, AppliedLive DEF ApplyChangeSet, Live, Adds
        <3>2. Covers(Mark(s), r)
            BY <2>3, <3>1 DEF SeenInv, ReviewedSeen
        <3>3. Covers("listed", r)
            BY <2>2, <3>2 DEF Mark, Covers
        <3> QED BY <2>2, <3>3 DEF visits, Covers
    <2>8. \A o \in Reqs \ {p} : StaysReviewed(o)
        BY <2>1 DEF StaysReviewed
    <2> QED BY <2>2, <2>4, <2>5, <2>6, <2>7, <2>8, SeenEnds DEF SeenStep
<1> QED BY <1>1, <1>2

\* The property is not to be listed while its declared rooms are made.
LEMMA SeenManaged ==
    ASSUME Inv, SeenInv, NEW p \in Reqs, ApproveManaged(p)
    PROVE  SeenInv'
<1>1. CASE Refuse(p)
    BY <1>1, SeenRefused
<1>2. CASE ~Refuse(p)
    <2>1. Finish(p) /\ property' = [property EXCEPT !.review = "approved"]
        BY <1>2 DEF ApproveManaged
    <2>2. ~OnList
        BY DEF ApproveManaged, SeenInv, Careful
    <2>3. property'.intent = property.intent /\ ~OnList'
        BY <2>1, <2>2 DEF OnList, Inv, RestOK, Property
    <2>4. VisitsOnList' /\ \A o \in Reqs \ {p} : StaysReviewed(o)
        <3>1. CASE UNCHANGED sets
            BY <2>3, <3>1 DEF VisitsOnList, SeenInv, StaysReviewed, OnList
        <3>2. CASE ~UNCHANGED sets
            <4>1. PICK s \in SetIds : sets' = [sets EXCEPT ![s] = ClosedSet]
                BY <1>2, <3>2 DEF ApproveManaged, OpenSets
            <4>2. SetFree(p)
                BY <1>2, <3>2 DEF ApproveManaged
            <4>3. \A o \in Reqs \ {p} : StaysReviewed(o)
                BY <4>2, RoomsAssumption DEF StaysReviewed, SetFree
            <4> QED BY <2>3, <4>1, <4>3, SeenClosed
        <3> QED BY <3>1, <3>2
    <2> QED BY <2>1, <2>3, <2>4, SeenEnds DEF SeenStep
<1> QED BY <1>1, <1>2

\* A return to listing makes the visit of what is listed void; no set waits
\* for a visit then, and nobody else holds the property.
LEMMA SeenSwitch ==
    ASSUME Inv, SeenInv, NEW p \in Reqs, SwitchIntent(p)
    PROVE  SeenInv'
<1>1. PICK to \in {"list", "manage_only"} : to = req[p].intent
    BY DEF Inv, LocksOK, Request
<1>2. /\ Finish(p) /\ UNCHANGED <<rooms, spec>> /\ property'.intent = to
      /\ req[p].op = "intent"
    BY <1>1 DEF SwitchIntent, SetListingIntent, Inv, RestOK, Property
<1>3. CASE to = "manage_only"
    <2>1. ~OnList' /\ sets' = DropVisitRequirement
        BY <1>1, <1>2, <1>3 DEF OnList, SwitchIntent, SetListingIntent
    <2>2. \A s \in SetIds : /\ sets'[s].status # "visit_required"
                            /\ sets[s].status \in InReview => sets'[s].status \in InReview
        <3> SUFFICES ASSUME NEW s \in SetIds
            PROVE /\ sets'[s].status # "visit_required"
                  /\ sets[s].status \in InReview => sets'[s].status \in InReview
            OBVIOUS
        <3>1. sets[s] \in ChangeSet
            BY DEF Inv, TableOK
        <3>2. CASE sets[s].status = "visit_required"
            <4>1. sets'[s] = [sets[s] EXCEPT !.status = "pending_review"]
                BY <2>1, <3>2 DEF DropVisitRequirement
            <4> QED BY <3>1, <4>1 DEF ChangeSet, InReview
        <3>3. CASE sets[s].status # "visit_required"
            BY <2>1, <3>3 DEF DropVisitRequirement
        <3> QED BY <3>2, <3>3
    <2>3. VisitsOnList' /\ \A o \in Reqs : StaysReviewed(o)
        BY <2>2 DEF VisitsOnList, StaysReviewed
    <2> QED BY <1>2, <2>1, <2>3, SeenEnds DEF SeenStep
<1>4. CASE to = "list" /\ OnList
    <2>1. UNCHANGED <<sets, rooms, visits>> /\ property'.intent = property.intent
        BY <1>1, <1>2, <1>4 DEF SwitchIntent, SetListingIntent, OnList
    <2> QED BY <1>2, <2>1, NothingSeen, SeenEnds
<1>5. CASE to = "list" /\ ~OnList
    <2>1. UNCHANGED <<sets, rooms>> /\ Stamp({"listed"}) /\ OnList'
        BY <1>1, <1>2, <1>5 DEF SwitchIntent, SetListingIntent, OnList
    <2>2. Unseen("listed")' /\ \A s \in SetIds : sets'[s].status # "visit_required"
        BY <1>5, <2>1 DEF Stamp, Unseen, SeenInv, VisitsOnList
    <2>3. \A s \in SetIds : Unseen(Mark(s))'
        BY <2>2 DEF Mark, Unseen
    <2>4. LiveSeen' /\ ReviewedSeen' /\ VisitsOnList'
        BY <2>1, <2>2, <2>3 DEF LiveSeen, ReviewedSeen, VisitsOnList, Unseen, Covers
    <2>5. ASSUME NEW q \in Reqs PROVE Careful(q)'
        <3>1. CASE q = p
            <4>1. req'[q].op = "none"
                BY <1>2, <3>1 DEF Inv, LocksOK, Finish, NoRequest
            <4> QED BY <4>1 DEF Careful, Staging
        <3>2. CASE q # p
            <4>1. req'[q] = req[q] /\ Careful(q) /\ Careful(p) /\ Knows(req[q])
                BY <1>2, <3>2 DEF Inv, LocksOK, Finish, SeenInv, HoldsInv
            <4>2. req'[q].op \notin {"approveManaged", "intent"}
                BY <1>2, <3>2, <4>1 DEF Careful
            <4>3. req'[q].op = "edit" => req'[q].set \in SetIds
                BY <4>1 DEF Knows
            <4>4. req'[q].op = "edit" => Unseen(Mark(req[q].set))'
                <5> SUFFICES ASSUME req'[q].op = "edit", NEW s \in SetIds, s = req'[q].set
                             PROVE  Unseen(Mark(req[q].set))'
                    BY <4>3
                <5>1. Unseen(Mark(s))'
                    BY <2>3
                <5> QED BY <5>1 DEF Mark, Unseen
            <4>5. req'[q].op = "approve" /\ req'[q].pc \in {"property", "write"} =>
                    sets'[req'[q].set].status \in InReview
                BY <2>1, <4>1 DEF Careful
            <4> QED BY <2>2, <4>2, <4>4, <4>5 DEF Careful
        <3> QED BY <3>1, <3>2
    <2> QED BY <2>4, <2>5 DEF SeenInv
<1> QED BY <1>3, <1>4, <1>5

\* The room a lead adds with the listing was seen by that lead.
LEMMA SeenPublish ==
    ASSUME Inv, SeenInv, NEW p \in Reqs, PublishWrite(p)
    PROVE  SeenInv'
<1>1. CASE Refuse(p)
    BY <1>1, SeenRefused
<1>2. CASE ~Refuse(p)
    <2>1. /\ Finish(p) /\ UNCHANGED <<property, sets>>
          /\ \/ UNCHANGED <<rooms, visits>>
             \/ \E r \in Rooms : /\ \A o \in Rooms \ {r} : rooms'[o] = rooms[o]
                                /\ passed' = passed \cup {r} /\ awaiting' = awaiting
        BY <1>2 DEF PublishWrite, Inv, TableOK
    <2>2. CASE UNCHANGED <<rooms, visits>>
        BY <2>1, <2>2, NothingSeen, SeenEnds
    <2>3. CASE ~UNCHANGED <<rooms, visits>>
        <3>1. PICK r \in Rooms : /\ \A o \in Rooms \ {r} : rooms'[o] = rooms[o]
                                 /\ passed' = passed \cup {r} /\ awaiting' = awaiting
            BY <2>1, <2>3
        <3>2. Faded /\ KnownKept
            BY <3>1, RoomsAssumption DEF Faded, KnownKept, Unseen, Covers, Marks
        <3>3. LiveKnown
            BY <3>1 DEF LiveKnown, Live, Covers
        <3>4. ReviewsKnown /\ VisitsOnList' /\ (OnList' => OnList)
            BY <2>1 DEF ReviewsKnown, VisitsOnList, SeenInv, OnList, Adds
        <3>5. \A o \in Reqs : StaysReviewed(o)
            BY <2>1 DEF StaysReviewed
        <3> QED BY <2>1, <3>2, <3>3, <3>4, <3>5, SeenEnds DEF SeenStep
    <2> QED BY <2>2, <2>3
<1> QED BY <1>1, <1>2

\* Rooms and sets only lose something.
LEMMA SeenLoses ==
    ASSUME Inv, SeenInv, UNCHANGED visits, UNCHANGED <<req, propertyLock>>,
           property'.intent = property.intent,
           \A r \in Rooms : Live(r)' => Live(r),
           \A s \in SetIds :
            /\ sets'[s].status = sets[s].status
               \/ (sets'[s].status = "rejected" /\ setLock = None)
            /\ \A r \in Rooms : Adds(s, r)' => Adds(s, r)
    PROVE  SeenInv'
<1>1. Faded /\ KnownKept /\ LiveKnown
    BY DEF visits, Faded, KnownKept, LiveKnown, Unseen, Covers
<1>2. ReviewsKnown
    BY DEF ReviewsKnown, InReview
<1>3. VisitsOnList' /\ (OnList' => OnList)
    BY DEF VisitsOnList, SeenInv, OnList
<1>4. \A o \in Reqs : StaysReviewed(o)
    BY RoomsAssumption DEF StaysReviewed
<1> QED BY <1>1, <1>2, <1>3, <1>4, SeenAside DEF SeenStep

Staying == \E r \in Rooms : ClaimBed(r) \/ TakeBed(r) \/ LeaveBed(r)

LEMMA SeenAround ==
    ASSUME Inv, SeenInv,
           \/ Discard \/ Reject \/ RejectManaged \/ Staying
           \/ DeleteRemovedUnits \/ UNCHANGED roomVars
    PROVE  SeenInv'
<1>0. property \in Property /\ rooms \in [Rooms -> Room] /\ sets \in [SetIds -> ChangeSet]
    BY DEF Inv, RestOK, TableOK
<1>1. UNCHANGED visits /\ UNCHANGED <<req, propertyLock>>
    BY DEF Discard, Reject, RejectManaged, Staying, ClaimBed, TakeBed, LeaveBed, DeleteRemovedUnits, roomVars,
           locks
<1>2. property'.intent = property.intent
    BY <1>0 DEF Discard, Reject, RejectManaged, Staying, ClaimBed, TakeBed, LeaveBed, DeleteRemovedUnits,
                roomVars, table, Property
<1>3. ASSUME NEW r \in Rooms, Live(r)' PROVE Live(r)
    <2>1. CASE UNCHANGED rooms
        BY <1>3, <2>1 DEF Live
    <2>2. CASE ~UNCHANGED rooms
        <3>1. CASE Staying
            <4>1. PICK o \in Rooms : rooms' = [rooms EXCEPT ![o].used = TRUE]
                BY <2>2, <3>1 DEF Staying, ClaimBed, TakeBed, LeaveBed
            <4>2. rooms'[r].state = rooms[r].state
                BY <1>0, <4>1 DEF Room
            <4> QED BY <1>3, <4>2 DEF Live
        <3>2. CASE DeleteRemovedUnits
            <4>1. PICK o \in Rooms : rooms' = [rooms EXCEPT ![o] =
                                                [NoRoom EXCEPT !.state = "archived"]]
                BY <3>2 DEF DeleteRemovedUnits
            <4>2. [NoRoom EXCEPT !.state = "archived"].state = "archived"
                BY DEF NoRoom
            <4>3. rooms'[r].state \in {"archived", rooms[r].state}
                BY <1>0, <4>1, <4>2
            <4> QED BY <1>3, <4>3 DEF Live
        <3> QED BY <2>2, <3>1, <3>2 DEF Discard, Reject, RejectManaged, roomVars, table
    <2> QED BY <2>1, <2>2
<1>4. ASSUME NEW s \in SetIds
      PROVE  /\ sets'[s].status = sets[s].status
                \/ (sets'[s].status = "rejected" /\ setLock = None)
             /\ sets'[s].changes \subseteq sets[s].changes
    <2>1. sets[s] \in ChangeSet
        BY <1>0
    <2>2. CASE UNCHANGED sets
        BY <2>2
    <2>3. CASE Discard
        <3>1. PICK t \in SetIds, r \in Rooms :
                sets' = [sets EXCEPT ![t].changes = @ \ {<<r, "create">>}]
            BY <2>3 DEF Discard
        <3> QED BY <1>0, <2>1, <3>1 DEF ChangeSet
    <2>4. CASE Reject
        <3>1. PICK t \in SetIds : sets' = [sets EXCEPT ![t].status = "rejected"]
            BY <2>4 DEF Reject
        <3> QED BY <1>0, <2>1, <2>4, <3>1 DEF ChangeSet, Reject
    <2>5. CASE DeleteRemovedUnits
        <3>1. PICK r \in Rooms :
                sets' = [t \in SetIds |-> [sets[t] EXCEPT !.changes = {c \in @ : c[1] # r}]]
            BY <2>5 DEF DeleteRemovedUnits
        <3>2. sets'[s] = [sets[s] EXCEPT !.changes = {c \in sets[s].changes : c[1] # r}]
            BY <3>1
        <3> QED BY <2>1, <3>2 DEF ChangeSet
    <2> QED BY <2>2, <2>3, <2>4, <2>5 
            DEF RejectManaged, Staying, ClaimBed, TakeBed, LeaveBed, roomVars, table
<1>5. \A s \in SetIds, r \in Rooms : Adds(s, r)' => Adds(s, r)
    BY <1>4 DEF Adds
<1> QED BY <1>1, <1>2, <1>3, <1>4, <1>5, SeenLoses

\* A visit sees all there is and all that is proposed; no request spans it.
LEMMA SeenVisit ==
    ASSUME Inv, SeenInv, CompleteVisit \/ ApproveVisit
    PROVE  SeenInv'
<1>1. /\ UNCHANGED <<sets, rooms>> /\ req' = req /\ Quiet
      /\ property' = property
    BY DEF CompleteVisit, ApproveVisit, table
<1>2. ASSUME NEW m, NEW r \in Rooms, Covers(m, r), Live(r) \/ Staged(r) PROVE Covers(m, r)'
    BY <1>2 DEF CompleteVisit, ApproveVisit, Covers
<1>3. LiveSeen'
    BY <1>1, <1>2 DEF LiveSeen, SeenInv, OnList, Live
<1>4. ReviewedSeen'
    <2> SUFFICES ASSUME OnList', NEW s \in SetIds, NEW r \in Rooms,
                        sets'[s].status \in InReview, Adds(s, r)'
                 PROVE  Covers(Mark(s), r)'
        BY DEF ReviewedSeen
    <2>1. Covers(Mark(s), r) /\ Staged(r)
        BY <1>1 DEF SeenInv, ReviewedSeen, OnList, Adds, Staged, OpenSets, Open
    <2>2. PICK m : m = Mark(s) /\ m = Mark(s)'
        BY <1>1 DEF Mark
    <2>3. Covers(m, r)'
        BY <1>2, <2>1, <2>2 DEF Covers
    <2> QED BY <2>2, <2>3 DEF Covers
<1>5. VisitsOnList'
    BY <1>1 DEF VisitsOnList, SeenInv, OnList
<1>6. ASSUME NEW q \in Reqs PROVE Careful(q)'
    <2>1. req'[q].op = "none"
        BY <1>1 DEF Quiet, NoRequest
    <2> QED BY <2>1 DEF Careful, Staging
<1> QED BY <1>3, <1>4, <1>5, <1>6 DEF SeenInv

LEMMA NextSeen == Inv /\ SeenInv /\ [Next]_vars => SeenInv'
<1> SUFFICES ASSUME Inv, SeenInv, [Next]_vars PROVE SeenInv'
    OBVIOUS
<1>1. CASE Around
    <2>1. CASE CreateDraftListing \/ DecideStanding \/ IssueStrike
        BY <2>1, SeenAround DEF CreateDraftListing, DecideStanding, IssueStrike
    <2> QED BY <1>1, <2>1, SeenAround, SeenVisit DEF Around, RoomsAround, Staying
<1>2. ASSUME NEW p \in Reqs, Work(p) PROVE SeenInv'
    <2>1. CASE DeadlockVictim(p)
        BY <2>1, SeenRefused DEF DeadlockVictim
    <2> QED BY <1>2, <2>1, SeenDraft, SeenStage, SeenEdit, SeenLocks, SeenSubmit, SeenCancel,
               SeenApprove, SeenManaged, SeenSwitch, SeenPublish DEF Work, RoomsWork
<1>3. ASSUME NEW p \in Reqs, Calls(p) PROVE SeenInv'
    BY <1>3, SeenCalls
<1>4. CASE UNCHANGED vars
    BY <1>4, SeenAround DEF vars
<1> QED BY <1>1, <1>2, <1>3, <1>4 DEF Next

LEMMA InitSeen == Init => SeenInv
<1> SUFFICES ASSUME Init PROVE SeenInv
    OBVIOUS
<1>1. LiveSeen
    BY DEF Init, RoomsInit, LiveSeen, Live, NoRoom
<1>2. ReviewedSeen /\ VisitsOnList
    BY DEF Init, RoomsInit, ReviewedSeen, VisitsOnList, Adds, ClosedSet
<1>3. ASSUME NEW p \in Reqs PROVE Careful(p)
    <2>1. req[p].op = "none"
        BY DEF Init, RoomsInit, NoRequest
    <2> QED BY <2>1 DEF Careful, Staging
<1> QED BY <1>1, <1>2, <1>3 DEF SeenInv

\* Whatever a landlord proposes, renames and submits, whoever manages, lists,
\* switches or approves, and wherever the visits fall among all that: a room
\* that students are shown was seen by an approved visit (submitChangeSet,
\* approveChangeSet, applyIfManaged, setListingIntent, publishListing).
THEOREM ShownRoomsSeen == Spec => []ShownRoomsWereSeen
<1> DEFINE All == Inv /\ ListedIsListable /\ SeenInv
<1>1. Init => All
    BY InitInv, InitSeen DEF Init, ListedIsListable
<1>2. All /\ [Next]_vars => All'
    BY NextInv, NextListable, NextSeen
<1>3. All => ShownRoomsWereSeen
    BY DEF ListedIsListable, SeenInv, LiveSeen, OnList, Covers, ShownRoomsWereSeen
<1> QED BY <1>1, <1>2, <1>3, PTL DEF Spec
=============================================================================
