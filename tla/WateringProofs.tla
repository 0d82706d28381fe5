---------------------------- MODULE WateringProofs ----------------------------
(***************************************************************************)
(* What PlantStore promises, and what Watering promises on top of it, for  *)
(* any accounts, objects, texts, images and bounds.                        *)
(***************************************************************************)
EXTENDS Watering, TLAPS

-------------------------------------------------------------------------------
(* The plant store. *)


(* Whoever adds a plant has a uid, and a table has an owner. *)
UserKnown ==
  /\ loggedIn => uid \in Users
  /\ screen \in {"table", "add", "detail", "edit"} => uid \in Users /\ owner \in Users

(* A row that is not detached shows an object of the context. *)
RowsAlive == \A o \in Objects : cells[o] # None /\ o \notin invalid => ctx[o] # None

(* So does the plant that was handed to the detail and edit screens. *)
PlantAlive ==
  screen \in {"detail", "edit"} =>
    plant \in Objects /\ (plant \notin invalid => ctx[plant] # None)

(* Objects are detached, and the app crashes, only after a failure. *)
FailuresExplain == (invalid # {} => failures > 0) /\ TrapOnlyAfterFailure

(* A stored plant is in the context too, with the same owner. *)
StoreInContext ==
  \A o \in Objects : store[o] # None => ctx[o] # None /\ ctx[o].id = store[o].id

TypeInv == TypeOK /\ UserKnown /\ RowsAlive /\ PlantAlive

USE DEF clock

-------------------------------------------------------------------------------
(* The operators. *)

(* A cell shows a plant of the context, or there is no cell. *)
LEMMA CellOfType ==
  ASSUME NEW c \in Contexts, NEW u, NEW o \in Objects
  PROVE  /\ CellOf(c, u, o) \in Cell \cup {None}
         /\ CellOf(c, u, o) # None => c[o] # None
BY ConstantsAssumption DEF CellOf, Cell, Plant, Contexts

(* The three ways to fill the table give one cell or none per object. *)
LEMMA FetchType ==
  ASSUME NEW c \in Contexts, NEW u
  PROVE  performFetch(c, u) \in CellTables
BY CellOfType DEF performFetch, CellTables

LEMMA ChangeType ==
  ASSUME NEW c \in Contexts, NEW d \in Contexts, cells \in CellTables
  PROVE  didChangeObject(c, d) \in CellTables
BY CellOfType DEF didChangeObject, CellTables

LEMMA ReloadType ==
  ASSUME NEW c \in Contexts, NEW rows \in CellTables
  PROVE  reloadData(c, rows) \in CellTables
<1>1. BlankCell \in Cell
  BY DEF BlankCell, Cell, Texts, PickedImages
<1>2. ASSUME NEW o \in Objects
      PROVE  reloadData(c, rows)[o] \in Cell \cup {None}
  BY <1>1, CellOfType DEF reloadData
<1> QED BY <1>2 DEF reloadData, CellTables

(* The control gives a title that the model knows. *)
LEMMA SegmentType ==
  ASSUME NEW segment \in Segments
  PROVE  segControlString(segment) \in {Titles[i] : i \in Segments}
BY ConstantsAssumption DEF segControlString

(* A save, or a failure, keeps the types of what it writes. *)
LEMMA SaveType ==
  ASSUME TypeOK, ctx' \in Contexts, save
  PROVE  store' \in Contexts /\ failures' \in Nat
BY DEF TypeOK, save, Fail

-------------------------------------------------------------------------------
(* Type correctness. *)

LEMMA InitTypeInv == Init => TypeInv
<1> SUFFICES ASSUME Init PROVE TypeInv
  OBVIOUS
<1>1. ctx \in Contexts /\ store \in Contexts /\ cells \in CellTables
  BY DEF Init, Contexts, CellTables
<1>2. TypeOK
  BY <1>1 DEF Init, TypeOK, Screens
<1>3. UserKnown /\ RowsAlive /\ PlantAlive
  BY Zenon DEF Init, UserKnown, RowsAlive, PlantAlive
<1> QED BY <1>2, <1>3 DEF TypeInv

LEMMA NextTypeOK == TypeInv /\ [Next]_vars => TypeOK' /\ UserKnown'
<1> SUFFICES ASSUME TypeInv, [Next]_vars PROVE TypeOK' /\ UserKnown'
  OBVIOUS
<1> USE DEF TypeInv
<1>0. ctx \in Contexts /\ store \in Contexts /\ cells \in CellTables
  BY DEF TypeOK
<1>1. CASE Launch
  <2>1. CASE loggedIn /\ ShowTable(uid)
    <3>1. cells' \in CellTables
      BY <1>0, <2>1, FetchType DEF ShowTable
    <3>2. TypeOK'
      <4>1. failures' \in Nat /\ screen' \in Screens
        BY <2>1 DEF ShowTable, Fail, TypeOK, Screens
      <4>2. owner' \in Users /\ invalid' \in SUBSET Objects
        BY <2>1 DEF ShowTable, UserKnown
      <4>3. detached' \in BOOLEAN /\ reload' \in BOOLEAN
        BY <2>1 DEF ShowTable
      <4> QED BY <1>1, <3>1, <4>1, <4>2, <4>3 DEF Launch, TypeOK, disk
    <3>3. UserKnown'
      BY <1>1, <2>1 DEF Launch, ShowTable, UserKnown, disk
    <3> QED BY <3>2, <3>3
  <2>2. CASE ~loggedIn /\ screen' = "login" /\ UNCHANGED <<table, failures>>
    BY <1>1, <2>2 DEF Launch, TypeOK, UserKnown, Screens, disk, table
  <2> QED BY <1>1, <2>1, <2>2 DEF Launch
<1>2. CASE Kill
  <2>1. cells' \in CellTables
    BY <1>2 DEF Kill, CellTables
  <2> QED BY <1>2, <2>1 DEF Kill, TypeOK, UserKnown, Screens, disk
<1>3. CASE EnterBackground \/ EnterForeground
  <2>1. background' \in BOOLEAN
    BY <1>3 DEF EnterBackground, EnterForeground
  <2>2. UNCHANGED <<ctx, disk, screen, table, plant, clock, failures>>
    BY <1>3 DEF EnterBackground, EnterForeground
  <2> QED BY <2>1, <2>2 DEF TypeOK, UserKnown, disk, table
<1>31. CASE OpenAdd
  BY <1>31 DEF OpenAdd, TypeOK, UserKnown, Screens, disk, table
<1>4. ASSUME NEW u \in Users, Login(u) PROVE TypeOK' /\ UserKnown'
  <2>1. cells' \in CellTables
    BY <1>0, <1>4, FetchType DEF Login, ShowTable
  <2>2. TypeOK'
    <3>1. failures' \in Nat /\ screen' \in Screens
      BY <1>4 DEF Login, ShowTable, Fail, TypeOK, Screens
    <3>2. owner' \in Users /\ uid' \in Users /\ invalid' \in SUBSET Objects
      BY <1>4 DEF Login, ShowTable
    <3>3. detached' \in BOOLEAN /\ reload' \in BOOLEAN /\ loggedIn' \in BOOLEAN
      BY <1>4 DEF Login, ShowTable
    <3> QED BY <1>4, <2>1, <3>1, <3>2, <3>3 DEF Login, TypeOK
  <2>3. UserKnown'
    BY <1>4 DEF Login, ShowTable, UserKnown
  <2> QED BY <2>2, <2>3
<1>5. ASSUME NEW u \in Users, LateSignUp(u) PROVE TypeOK' /\ UserKnown'
  BY <1>5 DEF LateSignUp, TypeOK, UserKnown, table
<1>6. CASE Logout
  BY <1>6 DEF Logout, TypeOK, UserKnown, Screens, table
<1>7. CASE Back
  BY <1>7 DEF Back, TypeOK, UserKnown, Screens, disk, table
<1>8. CASE OpenEdit
  BY <1>8 DEF OpenEdit, EndsIn, TypeOK, UserKnown, Screens, disk, table
<1>9. ASSUME NEW o \in Objects, OpenDetail(o) PROVE TypeOK' /\ UserKnown'
  BY <1>9 DEF OpenDetail, EndsIn, TypeOK, UserKnown, Screens, disk, table
<1>10. CASE ReloadAfterDelete
  <2>1. cells' \in CellTables
    BY <1>0, <1>10, ReloadType DEF ReloadAfterDelete
  <2> QED BY <1>10, <2>1 DEF ReloadAfterDelete, EndsIn, TypeOK, UserKnown, Screens, disk
<1>11. ASSUME NEW o \in Objects, DeleteRow(o) PROVE TypeOK' /\ UserKnown'
  <2>1. CASE o \notin invalid
    <3>1. ctx' \in Contexts /\ store' \in Contexts
      BY <1>0, <1>11, <2>1 DEF DeleteRow, commitDelete, Contexts
    <3>2. cells' \in CellTables
      BY <1>0, <1>11, <2>1 DEF DeleteRow, commitDelete, CellTables
    <3>3. invalid' \in SUBSET Objects /\ failures' \in Nat
      BY <1>11, <2>1 DEF DeleteRow, commitDelete, Rows, Fail, TypeOK
    <3>5. detached' \in BOOLEAN
      BY <1>11, <2>1 DEF DeleteRow, commitDelete, TypeOK
    <3>4. TypeOK'
      BY <1>11, <2>1, <3>1, <3>2, <3>3, <3>5 DEF DeleteRow, commitDelete, TypeOK
    <3> QED BY <1>11, <2>1, <3>4 DEF DeleteRow, commitDelete, UserKnown
  <2>2. CASE o \in invalid
    BY <1>11, <2>2 DEF DeleteRow, TypeOK, UserKnown, Screens
  <2> QED BY <2>1, <2>2
<1>12. ASSUME NEW nickname \in Texts, NEW species \in Texts,
              NEW image \in PickedImages, NEW segment \in Segments,
              NEW o \in Objects,
              saveButtonTapped(o, nickname, species, image, segment)
       PROVE  TypeOK' /\ UserKnown'
  <2>1. ctx' \in Contexts /\ now' \in Nat
    BY <1>12, SegmentType DEF saveButtonTapped, Date, TypeOK, UserKnown, Plant, Contexts
  <2>2. store' \in Contexts /\ failures' \in Nat
    BY <1>12, <2>1, SaveType DEF saveButtonTapped
  <2>3. cells' \in CellTables
    BY <1>0, <1>12, <2>1, ChangeType DEF saveButtonTapped
  <2>4. setBack' \in BOOLEAN
    BY <1>12 DEF saveButtonTapped, Date
  <2> QED
    BY <1>12, <2>1, <2>2, <2>3, <2>4
    DEF saveButtonTapped, TypeOK, UserKnown, Screens
<1>13. ASSUME NEW nickname \in Texts, NEW species \in Texts,
              NEW image \in PickedImages, NEW segment \in Segments,
              updateButtonTapped(nickname, species, image, segment)
       PROVE  TypeOK' /\ UserKnown'
  <2>1. CASE plant \in invalid
    BY <1>13, <2>1 DEF updateButtonTapped, TypeOK, UserKnown, Screens, disk, table
  <2>2. CASE plant \notin invalid
    <3>1. now' \in Nat
      BY <1>13, <2>2 DEF updateButtonTapped, Date
    <3>4. setBack' \in BOOLEAN
      BY <1>13, <2>2 DEF updateButtonTapped, Date
    <3>2. ctx' \in Contexts /\ store' \in Contexts /\ failures' \in Nat
      <4>1. updatePlant(nickname, species, image, segment, now')
        BY <1>13, <2>2 DEF updateButtonTapped
      <4>2. CASE UNCHANGED <<ctx, store>> /\ (Fail \/ UNCHANGED failures)
        BY <1>0, <4>2 DEF Fail, TypeOK
      <4>3. CASE \E q \in Objects :
                   /\ Found = {q}
                   /\ ctx' = [ctx EXCEPT ![q] =
                        Updated(q, nickname, species, image, segment, now')]
                   /\ save
        <5>1. PICK q \in Objects :
                   /\ Found = {q}
                   /\ ctx' = [ctx EXCEPT ![q] =
                        Updated(q, nickname, species, image, segment, now')]
                   /\ save
          BY <4>3
        <5>2. ctx[q] \in Plant /\ ctx[plant] \in Plant
          BY <1>0, <1>13, <2>2, <5>1 DEF Found, Contexts, PlantAlive, updateButtonTapped
        <5>3. ctx[plant].id \in Users
          BY <5>2 DEF Plant
        <5>4. Updated(q, nickname, species, image, segment, now') \in Plant
          BY <3>1, <5>2, <5>3, SegmentType DEF Updated, Plant
        <5>5. ctx' \in Contexts
          BY <1>0, <5>1, <5>4 DEF Contexts
        <5> QED BY <1>0, <5>1, <5>5, SaveType
      <4> QED BY <4>1, <4>2, <4>3 DEF updatePlant
    <3>3. cells' \in CellTables
      BY <1>0, <1>13, <2>2, <3>2, ChangeType, ReloadType DEF updateButtonTapped
    <3> QED
      BY <1>13, <2>2, <3>1, <3>2, <3>3, <3>4
      DEF updateButtonTapped, EndsIn, TypeOK, UserKnown, Screens
  <2> QED BY <2>1, <2>2
<1>14. CASE UNCHANGED vars
  BY <1>14 DEF vars, TypeOK, UserKnown
<1> QED
  BY <1>1, <1>2, <1>3, <1>31, <1>4, <1>5, <1>6, <1>7, <1>8, <1>9, <1>10, <1>11,
     <1>12, <1>13, <1>14 DEF Next

(* What the table shows is alive after each step. *)
LEMMA NextAlive == TypeInv /\ [Next]_vars => RowsAlive' /\ PlantAlive'
<1> SUFFICES ASSUME TypeInv, [Next]_vars PROVE RowsAlive' /\ PlantAlive'
  OBVIOUS
<1> USE DEF TypeInv
<1>0. /\ ctx \in Contexts /\ store \in Contexts /\ cells \in CellTables
      /\ ctx' \in Contexts /\ store' \in Contexts /\ cells' \in CellTables
  BY NextTypeOK DEF TypeOK
<1>1. CASE Launch
  <2>1. CASE loggedIn /\ ShowTable(uid)
    BY <1>0, <1>1, <2>1, CellOfType DEF Launch, ShowTable, performFetch, RowsAlive, PlantAlive
  <2>2. CASE ~loggedIn /\ screen' = "login" /\ UNCHANGED <<table, failures>>
    BY <1>1, <2>2 DEF Launch, table, RowsAlive, PlantAlive
  <2> QED BY <1>1, <2>1, <2>2 DEF Launch
<1>2. CASE Kill
  BY <1>2 DEF Kill, RowsAlive, PlantAlive
<1>3. CASE EnterBackground \/ EnterForeground
  BY <1>3 DEF EnterBackground, EnterForeground, RowsAlive, PlantAlive, table
<1>4. ASSUME NEW u \in Users, Login(u) PROVE RowsAlive' /\ PlantAlive'
  BY <1>0, <1>4, CellOfType DEF Login, ShowTable, performFetch, RowsAlive, PlantAlive
<1>5. ASSUME NEW u \in Users, LateSignUp(u) PROVE RowsAlive' /\ PlantAlive'
  BY <1>5 DEF LateSignUp, RowsAlive, PlantAlive, table
<1>6. CASE Logout \/ OpenAdd
  BY <1>6 DEF Logout, OpenAdd, RowsAlive, PlantAlive, table
<1>7. CASE Back
  BY <1>7 DEF Back, RowsAlive, PlantAlive, table
<1>8. CASE OpenEdit
  BY <1>8 DEF OpenEdit, EndsIn, RowsAlive, PlantAlive, table
<1>9. ASSUME NEW o \in Objects, OpenDetail(o) PROVE RowsAlive' /\ PlantAlive'
  BY <1>9 DEF OpenDetail, EndsIn, RowsAlive, PlantAlive, table
<1>10. CASE ReloadAfterDelete
  <2>1. RowsAlive'
    BY <1>0, <1>10 DEF ReloadAfterDelete, reloadData, RowsAlive
  <2> QED BY <1>10, <2>1 DEF ReloadAfterDelete, EndsIn, PlantAlive
<1>11. ASSUME NEW o \in Objects, DeleteRow(o) PROVE RowsAlive' /\ PlantAlive'
  <2>1. RowsAlive'
    BY <1>0, <1>11 DEF DeleteRow, commitDelete, Rows, RowsAlive, Contexts, CellTables
  <2>2. PlantAlive'
    BY <1>11 DEF DeleteRow, commitDelete, PlantAlive
  <2> QED BY <2>1, <2>2
<1>12. ASSUME NEW nickname \in Texts, NEW species \in Texts,
              NEW image \in PickedImages, NEW segment \in Segments,
              NEW o \in Objects,
              saveButtonTapped(o, nickname, species, image, segment)
       PROVE  RowsAlive' /\ PlantAlive'
  <2>1. RowsAlive'
    BY <1>0, <1>12, CellOfType DEF saveButtonTapped, didChangeObject, RowsAlive
  <2>2. PlantAlive'
    BY <1>12 DEF saveButtonTapped, PlantAlive
  <2> QED BY <2>1, <2>2
<1>13. ASSUME NEW nickname \in Texts, NEW species \in Texts,
              NEW image \in PickedImages, NEW segment \in Segments,
              updateButtonTapped(nickname, species, image, segment)
       PROVE  RowsAlive' /\ PlantAlive'
  <2>1. CASE plant \in invalid
    BY <1>13, <2>1 DEF updateButtonTapped, RowsAlive, PlantAlive, table
  <2>2. CASE plant \notin invalid
    <3>1. cells' = reloadData(ctx', didChangeObject(ctx, ctx')) /\ invalid' = invalid
      BY <1>13, <2>2 DEF updateButtonTapped
    <3>2. RowsAlive'
      BY <1>0, <3>1, CellOfType DEF reloadData, RowsAlive
    <3> QED BY <1>13, <2>2, <3>2 DEF updateButtonTapped, EndsIn, PlantAlive
  <2> QED BY <2>1, <2>2
<1>14. CASE UNCHANGED vars
  BY <1>14 DEF vars, RowsAlive, PlantAlive
<1> QED
  BY <1>1, <1>2, <1>3, <1>4, <1>5, <1>6, <1>7, <1>8, <1>9, <1>10, <1>11, <1>12,
     <1>13, <1>14 DEF Next

(* Every variable keeps its type: in particular no plant is ever stored
   without an owner, since whoever can add one is logged in, and the plant
   being edited is always one that the context holds. *)
THEOREM TypeCorrect == Spec => []TypeOK
<1>1. TypeInv /\ [Next]_vars => TypeInv'
  BY NextTypeOK, NextAlive DEF TypeInv
<1> QED BY <1>1, InitTypeInv, PTL DEF Spec, TypeInv

-------------------------------------------------------------------------------
(* What a step does to the plants.  The handlers differ in much else, but to
   the context and the store they do one of six things. *)

Untouched == UNCHANGED <<ctx, store, clock>>
FellBack == ctx' = store /\ UNCHANGED <<store, clock>>
Added(o) ==
  /\ ctx[o] = None /\ store[o] = None
  /\ Date
  /\ \E p \in Plant : p.timestamp = now' /\ ctx' = [ctx EXCEPT ![o] = p]
  /\ save
Missed == Date /\ UNCHANGED <<ctx, store>>
Edited ==
  /\ screen = "edit" /\ plant \in Objects /\ ctx[plant] # None
  /\ Date
  /\ \E p \in Plant : /\ p.timestamp = now' /\ p.id = ctx[plant].id
                      /\ ctx' = [ctx EXCEPT ![plant] = p]
  /\ save
Deleted(o) ==
  /\ screen = "table" /\ o \in Rows /\ ctx[o] # None
  /\ ctx' = [ctx EXCEPT ![o] = None]
  /\ store' = ctx'
  /\ UNCHANGED <<clock, failures>>

DataStep ==
  \/ Untouched \/ FellBack \/ Missed \/ Edited
  \/ \E o \in Objects : Added(o) \/ Deleted(o)

(* The fetch by timestamp finds the plant that is being edited, if the plant
   is attached: so exactly one match is that plant. *)
LEMMA FoundIsPlant ==
  ASSUME TypeInv, screen = "edit", plant \notin invalid, NEW q \in Objects,
         Found = {q}
  PROVE  q = plant /\ plant \in Objects /\ ctx[plant] # None
BY DEF TypeInv, PlantAlive, Found

LEMMA StepIsDataStep == TypeInv /\ [Next]_vars => DataStep
<1> SUFFICES ASSUME TypeInv, [Next]_vars PROVE DataStep
  OBVIOUS
<1>1. CASE Launch \/ EnterBackground \/ EnterForeground \/ Logout \/ OpenAdd
             \/ Back \/ OpenEdit \/ ReloadAfterDelete
  BY <1>1 DEF Launch, EnterBackground, EnterForeground, Logout, OpenAdd, Back,
              OpenEdit, ReloadAfterDelete, DataStep, Untouched, disk
<1>2. CASE Kill
  BY <1>2 DEF Kill, DataStep, FellBack, disk
<1>3. ASSUME NEW u \in Users, Login(u) \/ LateSignUp(u) PROVE DataStep
  BY <1>3 DEF Login, LateSignUp, DataStep, Untouched
<1>4. ASSUME NEW o \in Objects, OpenDetail(o) PROVE DataStep
  BY <1>4 DEF OpenDetail, DataStep, Untouched, disk
<1>5. ASSUME NEW o \in Objects, DeleteRow(o) PROVE DataStep
  <2>1. CASE o \in invalid
    BY <1>5, <2>1 DEF DeleteRow, DataStep, Untouched
  <2>2. CASE o \notin invalid
    <3>1. screen = "table" /\ o \in Rows /\ ctx[o] # None
      BY <1>5, <2>2 DEF DeleteRow, Rows, TypeInv, RowsAlive
    <3>2. Deleted(o) \/ FellBack
      BY <1>5, <2>2, <3>1 DEF DeleteRow, commitDelete, Deleted, FellBack
    <3> QED BY <3>2 DEF DataStep
  <2> QED BY <2>1, <2>2
<1>6. ASSUME NEW nickname \in Texts, NEW species \in Texts,
             NEW image \in PickedImages, NEW segment \in Segments,
             NEW o \in Objects,
             saveButtonTapped(o, nickname, species, image, segment)
      PROVE  DataStep
  <2> DEFINE p == [id |-> uid, image |-> image, nickname |-> nickname,
                   species |-> species, frequency |-> segControlString(segment),
                   timestamp |-> now']
  <2>1. now' \in Nat
    BY <1>6 DEF saveButtonTapped, Date
  <2>2. p \in Plant /\ p.timestamp = now'
    BY <1>6, <2>1, SegmentType DEF saveButtonTapped, TypeInv, UserKnown, Plant
  <2>3. Added(o)
    BY <1>6, <2>2 DEF saveButtonTapped, Added
  <2> QED BY <2>3 DEF DataStep
<1>7. ASSUME NEW nickname \in Texts, NEW species \in Texts,
             NEW image \in PickedImages, NEW segment \in Segments,
             updateButtonTapped(nickname, species, image, segment)
      PROVE  DataStep
  <2>1. CASE plant \in invalid
    BY <1>7, <2>1 DEF updateButtonTapped, DataStep, Untouched, disk
  <2>2. CASE plant \notin invalid
    <3>1. /\ screen = "edit" /\ Date
          /\ updatePlant(nickname, species, image, segment, now')
      BY <1>7, <2>2 DEF updateButtonTapped
    <3>2. CASE UNCHANGED <<ctx, store>>
      BY <3>1, <3>2 DEF DataStep, Missed
    <3>3. ASSUME NEW q \in Objects, Found = {q}, save,
                 ctx' = [ctx EXCEPT ![q] =
                   Updated(q, nickname, species, image, segment, now')]
          PROVE  DataStep
      <4>1. q = plant /\ plant \in Objects /\ ctx[plant] # None
        BY <2>2, <3>1, <3>3, FoundIsPlant
      <4> DEFINE p == Updated(q, nickname, species, image, segment, now')
      <4>2. ctx[plant] \in Plant /\ now' \in Nat
        BY <3>1, <4>1 DEF TypeInv, TypeOK, Contexts, Date
      <4>3. p \in Plant /\ p.timestamp = now' /\ p.id = ctx[plant].id
        BY <4>1, <4>2, SegmentType DEF Updated, Plant
      <4>4. Edited
        BY <3>1, <3>3, <4>1, <4>3 DEF Edited
      <4> QED BY <4>4 DEF DataStep
    <3> QED BY <3>1, <3>2, <3>3 DEF updatePlant
  <2> QED BY <2>1, <2>2
<1>8. CASE UNCHANGED vars
  BY <1>8 DEF vars, DataStep, Untouched
<1> QED BY <1>1, <1>2, <1>3, <1>4, <1>5, <1>6, <1>7, <1>8 DEF Next

-------------------------------------------------------------------------------
(* The plants in the context and in the store. *)

(* The count of failures never goes back. *)
LEMMA FailuresGrow ==
  TypeInv /\ [Next]_vars => failures' = failures \/ (Fail /\ failures' > failures)
<1> SUFFICES ASSUME TypeInv, [Next]_vars PROVE failures' = failures \/ (Fail /\ failures' > failures)
  OBVIOUS
<1>1. failures \in Nat
  BY DEF TypeInv, TypeOK
<1>2. failures' = failures \/ Fail
  BY DEF Next, vars, Launch, ShowTable, Kill, EnterBackground, EnterForeground,
     Login, LateSignUp, Logout, OpenAdd, Back, saveButtonTapped, save, OpenDetail,
     OpenEdit, updateButtonTapped, updatePlant, DeleteRow, commitDelete,
     ReloadAfterDelete
<1> QED BY <1>1, <1>2 DEF Fail

LEMMA UnsavedStep ==
  TypeInv /\ UnsavedOnlyAfterFailure /\ [Next]_vars => UnsavedOnlyAfterFailure'
<1> SUFFICES ASSUME TypeInv, UnsavedOnlyAfterFailure, [Next]_vars, failures' = 0
             PROVE  ctx' = store'
  BY DEF UnsavedOnlyAfterFailure
<1>1. failures = 0 /\ ~Fail
  BY FailuresGrow DEF TypeInv, TypeOK, Fail
<1>2. ctx = store
  BY <1>1 DEF UnsavedOnlyAfterFailure
<1> QED BY <1>1, <1>2, StepIsDataStep
        DEF DataStep, Untouched, FellBack, Missed, Edited, Added, Deleted, save

(* A stored plant stays in the context until it is deleted from both. *)
LEMMA StoreStep == TypeInv /\ StoreInContext /\ [Next]_vars => StoreInContext'
<1> SUFFICES ASSUME TypeInv, StoreInContext, [Next]_vars PROVE StoreInContext'
  OBVIOUS
<1>0. ctx \in Contexts /\ store \in Contexts
  BY DEF TypeInv, TypeOK
<1>1. CASE Untouched \/ FellBack \/ Missed
  BY <1>1 DEF Untouched, FellBack, Missed, StoreInContext
<1>2. CASE Edited
  <2>1. None \notin Plant
    BY ConstantsAssumption
  <2>2. PICK p \in Plant : p.id = ctx[plant].id /\ ctx' = [ctx EXCEPT ![plant] = p]
    BY <1>2 DEF Edited
  <2>3. ASSUME NEW o \in Objects, store[o] # None
        PROVE  ctx'[o] # None /\ ctx'[o].id = store[o].id
    BY <1>0, <1>2, <2>1, <2>2, <2>3 DEF Edited, StoreInContext, Contexts
  <2> QED BY <1>2, <2>3 DEF Edited, save, StoreInContext
<1>3. ASSUME NEW o \in Objects, Added(o) PROVE StoreInContext'
  BY <1>0, <1>3 DEF Added, save, StoreInContext, Contexts
<1>4. ASSUME NEW o \in Objects, Deleted(o) PROVE StoreInContext'
  BY <1>4 DEF Deleted, StoreInContext
<1> QED BY <1>1, <1>2, <1>3, <1>4, StepIsDataStep DEF DataStep

(* A clock that was not set back gives a later instant. *)
LEMMA DateIsLater == ASSUME now \in Nat, Date, ~setBack' PROVE now' \in Nat /\ now < now'
<1>1. ~(now' <= now) /\ now' \in 1..MaxTime
  BY Zenon DEF Date
<1> QED BY <1>1

(* Plants that differ in the context from those in the store carry a later
   timestamp, and no timestamp is used twice. *)
LEMMA DistinctStep ==
  TypeInv /\ StoreInContext /\ TimestampsUnique /\ [Next]_vars => TimestampsUnique'
<1> SUFFICES ASSUME TypeInv, TimestampsUnique, [Next]_vars, ~setBack'
             PROVE  Distinct(ctx)' /\ Distinct(store)'
  BY DEF TimestampsUnique
<1>0. /\ ctx \in Contexts /\ store \in Contexts /\ now \in Nat
      /\ Distinct(ctx) /\ Distinct(store)
  <2>1. ~setBack
    BY StepIsDataStep DEF DataStep, Untouched, FellBack, Missed, Edited, Added,
       Deleted, Date
  <2> QED BY <2>1 DEF TypeInv, TypeOK, TimestampsUnique
<1>1. CASE Untouched \/ FellBack
  BY <1>0, <1>1 DEF Untouched, FellBack, Distinct
<1>2. CASE Missed
  <2>1. now' \in Nat /\ now < now'
    BY <1>0, <1>2, DateIsLater DEF Missed
  <2>2. \A o \in Objects : /\ ctx[o] # None => ctx[o].timestamp \in Nat
                           /\ store[o] # None => store[o].timestamp \in Nat
    BY <1>0 DEF Contexts, Plant
  <2> QED BY <1>0, <1>2, <2>1, <2>2 DEF Missed, Distinct
<1>3. ASSUME NEW o \in Objects, NEW p \in Plant, p.timestamp = now', Date,
             ctx' = [ctx EXCEPT ![o] = p], save
      PROVE  Distinct(ctx)' /\ Distinct(store)'
  <2>1. now' \in Nat /\ now < now'
    BY <1>0, <1>3, DateIsLater
  <2>2. \A a \in Objects : /\ ctx[a] # None => ctx[a].timestamp \in Nat
                           /\ store[a] # None => store[a].timestamp \in Nat
    BY <1>0 DEF Contexts, Plant
  <2>3. Distinct(ctx)'
    BY <1>0, <1>3, <2>1, <2>2 DEF Distinct, Contexts
  <2>4. CASE store' = ctx'
    BY <2>3, <2>4 DEF Distinct
  <2>5. CASE UNCHANGED store
    <3>1. \A a \in Objects : store[a] # None => store[a].timestamp <= now'
      BY <1>0, <2>1, <2>2 DEF Distinct
    <3>2. Distinct(store)'
      BY <1>0, <2>5, <3>1 DEF Distinct
    <3> QED BY <2>3, <3>2
  <2> QED BY <1>3, <2>3, <2>4, <2>5 DEF save
<1>4. ASSUME NEW o \in Objects, Deleted(o) PROVE Distinct(ctx)' /\ Distinct(store)'
  BY <1>0, <1>4 DEF Deleted, Distinct, Contexts
<1> QED BY <1>1, <1>2, <1>3, <1>4, StepIsDataStep DEF DataStep, Edited, Added

(* The invariant the results below rest on. *)
PlantInv == TypeInv /\ UnsavedOnlyAfterFailure /\ StoreInContext /\ TimestampsUnique

LEMMA PlantInvariant == Spec => []PlantInv
<1>1. Init => PlantInv
  <2>1. Init => UnsavedOnlyAfterFailure /\ StoreInContext /\ TimestampsUnique
    BY DEF Init, UnsavedOnlyAfterFailure, StoreInContext, TimestampsUnique, Distinct
  <2> QED BY <2>1, InitTypeInv DEF PlantInv
<1>2. PlantInv /\ [Next]_vars => PlantInv'
  <2>1. TypeInv /\ [Next]_vars => TypeInv'
    BY NextTypeOK, NextAlive DEF TypeInv
  <2> QED BY <2>1, UnsavedStep, StoreStep, DistinctStep DEF PlantInv
<1> QED BY <1>1, <1>2, PTL DEF Spec

(* No change of the context stays unsaved unless Core Data refused a save:
   every handler that changes a plant saves on each of its paths. *)
THEOREM NothingUnsaved == Spec => []UnsavedOnlyAfterFailure
BY PlantInvariant, PTL DEF PlantInv

(* Under a clock that is not set back, a timestamp names one plant in the
   context and in the store, so that updatePlant may look a plant up by it. *)
THEOREM TimestampsIdentify == Spec => []TimestampsUnique
BY PlantInvariant, PTL DEF PlantInv

(* Under any clock, only the plant on the edit screen is changed in place. *)
THEOREM EditsStayLocal == Spec => EditTouchesOnlyItsPlant
<1>1. TypeInv /\ [Next]_vars =>
        [\A o \in Objects :
           ctx[o] # None /\ ctx'[o] # None /\ ctx'[o] # ctx[o] =>
             \/ screen = "edit" /\ o = plant
             \/ ctx'[o] = store[o]]_vars
  <2> SUFFICES ASSUME TypeInv, [Next]_vars, NEW o \in Objects,
                      ctx[o] # None, ctx'[o] # None, ctx'[o] # ctx[o]
               PROVE  \/ screen = "edit" /\ o = plant
                      \/ ctx'[o] = store[o]
    OBVIOUS
  <2>1. ctx \in Contexts
    BY DEF TypeInv, TypeOK
  <2> QED BY <2>1, StepIsDataStep
          DEF DataStep, Untouched, FellBack, Missed, Edited, Added, Deleted, Contexts
<1> QED BY <1>1, PlantInvariant, PTL DEF PlantInv, Spec, EditTouchesOnlyItsPlant

(* A plant keeps its owner for as long as it exists. *)
THEOREM OwnersStay == Spec => OwnerNeverChanges
<1>1. PlantInv /\ [Next]_vars =>
        [\A o \in Objects :
           ctx[o] # None /\ ctx'[o] # None => ctx'[o].id = ctx[o].id]_vars
  <2> SUFFICES ASSUME PlantInv, [Next]_vars, NEW o \in Objects,
                      ctx[o] # None, ctx'[o] # None
               PROVE  ctx'[o].id = ctx[o].id
    OBVIOUS
  <2>1. ctx \in Contexts
    BY DEF PlantInv, TypeInv, TypeOK
  <2> QED BY <2>1, StepIsDataStep
          DEF DataStep, Untouched, FellBack, Missed, Edited, Added, Deleted,
              Contexts, PlantInv, StoreInContext
<1> QED BY <1>1, PlantInvariant, PTL DEF Spec, OwnerNeverChanges

(* A plant leaves the store only when the user deletes its row: a deletion
   whose save failed is not carried out by a later save. *)
THEOREM DeletionsAreImmediate == Spec => NoLateDelete
<1>1. PlantInv /\ [Next]_vars =>
        [\A o \in Objects :
           store[o] # None /\ store'[o] = None =>
             screen = "table" /\ o \in Rows /\ ctx[o] # None]_vars
  <2> SUFFICES ASSUME PlantInv, [Next]_vars, NEW o \in Objects,
                      store[o] # None, store'[o] = None
               PROVE  screen = "table" /\ o \in Rows /\ ctx[o] # None
    OBVIOUS
  <2>1. ctx \in Contexts /\ ctx[o] # None
    BY DEF PlantInv, TypeInv, TypeOK, StoreInContext
  <2>2. None \notin Plant
    BY ConstantsAssumption
  <2> QED BY <2>1, <2>2, StepIsDataStep
          DEF DataStep, Untouched, FellBack, Missed, Edited, Added, Deleted, save,
              Contexts, PlantInv
<1> QED BY <1>1, PlantInvariant, PTL DEF Spec, NoLateDelete

(* An edit that Core Data does not refuse reaches the store, under a clock
   that is not set back: the fetch by timestamp finds that plant alone. *)
THEOREM EditsAreKept == Spec => EditLands
<1>1. PlantInv /\ [Next]_vars =>
        [(~setBack /\ screen = "edit" /\ screen' = "table") =>
           \/ failures' > failures
           \/ store'[plant] # None /\ store'[plant].timestamp = now']_vars
  <2> SUFFICES ASSUME PlantInv, [Next]_vars, ~setBack, screen = "edit",
                      screen' = "table"
               PROVE  \/ failures' > failures
                      \/ store'[plant] # None /\ store'[plant].timestamp = now'
    OBVIOUS
  <2>1. TypeInv /\ ctx \in Contexts /\ failures \in Nat /\ Distinct(ctx)
    BY DEF PlantInv, TypeInv, TypeOK, TimestampsUnique
  <2>2. PICK nickname \in Texts, species \in Texts, image \in PickedImages,
             segment \in Segments :
               updateButtonTapped(nickname, species, image, segment)
    BY DEF Next, vars, Launch, Kill, EnterBackground, EnterForeground, Login,
       LateSignUp, Logout, OpenAdd, Back, saveButtonTapped, OpenDetail, OpenEdit,
       DeleteRow, ReloadAfterDelete, EndsIn
  <2>3. plant \notin invalid /\ updatePlant(nickname, species, image, segment, now')
    BY <2>2 DEF updateButtonTapped
  <2>4. plant \in Objects /\ ctx[plant] # None
    BY <2>1, <2>3 DEF TypeInv, PlantAlive
  <2>5. Found = {plant}
    BY <2>1, <2>4 DEF Found, Distinct
  <2>6. CASE Fail
    BY <2>1, <2>6 DEF Fail
  <2>7. CASE ~Fail
    <3>1. /\ ctx' = [ctx EXCEPT ![plant] =
                       Updated(plant, nickname, species, image, segment, now')]
          /\ store' = ctx'
      BY <2>3, <2>4, <2>5, <2>7 DEF updatePlant, save
    <3>2. /\ store'[plant] = Updated(plant, nickname, species, image, segment, now')
          /\ store'[plant].timestamp = now'
      BY <2>1, <2>4, <3>1 DEF Contexts, Updated
    <3>3. store'[plant] # None
      <4>1. now' \in Nat
        BY <2>2, <2>3 DEF updateButtonTapped, Date
      <4>2. ctx[plant] \in Plant
        BY <2>1, <2>4 DEF Contexts
      <4>3. Updated(plant, nickname, species, image, segment, now') \in Plant
        BY <4>1, <4>2, SegmentType DEF Updated, Plant
      <4> QED BY <3>2, <4>3, ConstantsAssumption
    <3> QED BY <3>2, <3>3
  <2> QED BY <2>6, <2>7
<1> QED BY <1>1, PlantInvariant, PTL DEF Spec, EditLands

-------------------------------------------------------------------------------
(* Crashes. *)

LEMMA FailuresExplainStep ==
  TypeInv /\ FailuresExplain /\ [Next]_vars => FailuresExplain'
<1> SUFFICES ASSUME TypeInv, FailuresExplain, [Next]_vars PROVE FailuresExplain'
  OBVIOUS
<1>0. failures \in Nat /\ failures' \in Nat /\ failures' >= failures
      /\ (Fail => failures' > 0)
  BY FailuresGrow, NextTypeOK DEF TypeInv, TypeOK, Fail
<1>1. CASE failures > 0
  BY <1>0, <1>1 DEF FailuresExplain, TrapOnlyAfterFailure
<1>2. CASE Fail
  BY <1>0, <1>2 DEF FailuresExplain, TrapOnlyAfterFailure
<1>3. CASE failures = 0 /\ ~Fail
  <2>1. invalid = {} /\ screen # "trapped"
    BY <1>3 DEF FailuresExplain, TrapOnlyAfterFailure
  <2>2. invalid' = {}
    BY <1>3, <2>1
    DEF Next, vars, table, Launch, ShowTable, Kill, EnterBackground, EnterForeground,
        Login, LateSignUp, Logout, OpenAdd, Back, saveButtonTapped, OpenDetail,
        OpenEdit, updateButtonTapped, DeleteRow, commitDelete, ReloadAfterDelete
  <2>3. screen' # "trapped"
    BY <1>3, <2>1
    DEF Next, vars, EndsIn, Launch, ShowTable, Kill, EnterBackground,
        EnterForeground, Login, LateSignUp, Logout, OpenAdd, Back,
        saveButtonTapped, OpenDetail, OpenEdit, updateButtonTapped, DeleteRow,
        commitDelete, ReloadAfterDelete
  <2> QED BY <2>2, <2>3 DEF FailuresExplain, TrapOnlyAfterFailure
<1> QED BY <1>0, <1>1, <1>2, <1>3

(* The app never crashes in these screens unless Core Data refused something
   before: no handler meets a detached object or a missing timestamp. *)
THEOREM CrashesHaveACause == Spec => []TrapOnlyAfterFailure
<1>1. Init => FailuresExplain
  BY DEF Init, FailuresExplain, TrapOnlyAfterFailure
<1> QED BY <1>1, FailuresExplainStep, PlantInvariant, PTL
        DEF Spec, PlantInv, FailuresExplain

-------------------------------------------------------------------------------
(* The table. *)

(* Rows are detached only by reset(), after which the table counts as such. *)
DetachedKnown == invalid # {} => detached

FreshInv == DetachedKnown /\ TableFresh

(* Rows that follow the changes of the context one by one stay a fetch. *)
LEMMA ChangeIsFetch ==
  ASSUME NEW c, NEW d, cells = performFetch(c, owner)
  PROVE  didChangeObject(c, d) = performFetch(d, owner)
<1>1. ASSUME NEW o \in Objects
      PROVE  didChangeObject(c, d)[o] = CellOf(d, owner, o)
  <2>1. CASE d[o] = c[o]
    BY <2>1 DEF didChangeObject, performFetch, CellOf
  <2>2. CASE d[o] # c[o]
    BY <2>2 DEF didChangeObject
  <2> QED BY <2>1, <2>2
<1> QED BY <1>1 DEF didChangeObject, performFetch

(* Reloading rows that are a fetch changes nothing while none is detached. *)
LEMMA ReloadIsFetch ==
  ASSUME NEW c, invalid = {}
  PROVE  reloadData(c, performFetch(c, owner)) = performFetch(c, owner)
<1>1. ASSUME NEW o \in Objects
      PROVE  reloadData(c, performFetch(c, owner))[o] = CellOf(c, owner, o)
  BY DEF reloadData, performFetch
<1> QED BY <1>1 DEF reloadData, performFetch

LEMMA FreshStep == TypeInv /\ FreshInv /\ [Next]_vars => FreshInv'
<1> SUFFICES ASSUME TypeInv, FreshInv, [Next]_vars  PROVE FreshInv'
  OBVIOUS
<1>0. /\ ctx \in Contexts /\ ctx' \in Contexts /\ cells \in CellTables
      /\ ~detached => invalid = {}
  BY NextTypeOK DEF TypeInv, TypeOK, FreshInv, DetachedKnown
<1>1. CASE Launch
  BY <1>1 DEF Launch, ShowTable, FreshInv, DetachedKnown, TableFresh, Running, table
<1>2. CASE Kill
  BY <1>2 DEF Kill, FreshInv, DetachedKnown, TableFresh, Running
<1>3. CASE EnterBackground \/ EnterForeground \/ OpenAdd
  BY <1>3 DEF EnterBackground, EnterForeground, OpenAdd, FreshInv, DetachedKnown, TableFresh,
     Active, Running, table
<1>4. ASSUME NEW u \in Users, Login(u)  PROVE FreshInv'
  BY <1>4 DEF Login, ShowTable, FreshInv, DetachedKnown, TableFresh, Running
<1>5. ASSUME NEW u \in Users, LateSignUp(u)  PROVE FreshInv'
  BY <1>5 DEF LateSignUp, FreshInv, DetachedKnown, TableFresh, Running, table
<1>6. CASE Logout
  BY <1>6 DEF Logout, FreshInv, DetachedKnown, TableFresh, Running, table
<1>7. CASE Back \/ OpenEdit
  BY <1>7 DEF Back, OpenEdit, EndsIn, FreshInv, DetachedKnown, TableFresh, Active, Running, table
<1>8. ASSUME NEW o \in Objects, OpenDetail(o)  PROVE FreshInv'
  BY <1>8 DEF OpenDetail, EndsIn, FreshInv, DetachedKnown, TableFresh, Active, Running, table
<1>9. CASE ReloadAfterDelete
  <2>1. /\ cells' = reloadData(ctx, cells) /\ screen' \in {screen, "trapped"}
        /\ UNCHANGED <<ctx, owner, invalid, detached>> /\ Running
    BY <1>9 DEF ReloadAfterDelete, EndsIn
  <2>2. CASE screen # "login" /\ ~detached
    <3>1. cells = performFetch(ctx, owner) /\ invalid = {}
      BY <1>0, <2>1, <2>2 DEF FreshInv, TableFresh
    <3>2. cells' = performFetch(ctx, owner)
      BY <2>1, <3>1, ReloadIsFetch
    <3> QED BY <2>1, <3>2 DEF FreshInv, DetachedKnown, TableFresh
  <2>3. CASE screen = "login" \/ detached
    BY <2>1, <2>3 DEF FreshInv, DetachedKnown, TableFresh, Running
  <2> QED BY <2>2, <2>3
<1>10. ASSUME NEW o \in Objects, DeleteRow(o)  PROVE FreshInv'
  <2>0. screen = "table" /\ Running /\ owner' = owner
    BY <1>10 DEF DeleteRow, Active
  <2>1. CASE o \in invalid
    BY <1>10, <2>1 DEF DeleteRow, FreshInv, DetachedKnown, TableFresh, Running
  <2>2. CASE commitDelete(o) /\ detached'
    BY <2>2 DEF FreshInv, DetachedKnown, TableFresh
  <2>3. CASE commitDelete(o) /\ ~detached'
    <3>1. /\ cells' = [cells EXCEPT ![o] = None] /\ ctx' = [ctx EXCEPT ![o] = None]
          /\ invalid' = invalid /\ ~detached
      BY <2>3 DEF commitDelete
    <3>2. cells = performFetch(ctx, owner)
      BY <2>0, <3>1 DEF FreshInv, TableFresh
    <3>3. ASSUME NEW q \in Objects  PROVE cells'[q] = CellOf(ctx', owner, q)
      BY <1>0, <3>1, <3>2 DEF performFetch, CellOf, Contexts, CellTables
    <3>4. cells' = performFetch(ctx', owner)
      BY <1>0, <3>1, <3>3 DEF performFetch, CellTables
    <3> QED BY <1>0, <2>0, <3>1, <3>4 DEF FreshInv, DetachedKnown, TableFresh
  <2> QED BY <1>10, <2>1, <2>2, <2>3 DEF DeleteRow
<1>11. ASSUME NEW nickname \in Texts, NEW species \in Texts,
              NEW image \in PickedImages, NEW segment \in Segments, NEW o \in Objects,
              saveButtonTapped(o, nickname, species, image, segment)
       PROVE  FreshInv'
  <2>1. /\ screen = "add" /\ Running /\ cells' = didChangeObject(ctx, ctx')
        /\ UNCHANGED <<owner, invalid, detached>>
    BY <1>11 DEF saveButtonTapped, Active
  <2>2. ~detached => cells' = performFetch(ctx', owner)
    BY <2>1, ChangeIsFetch DEF FreshInv, TableFresh
  <2> QED BY <2>1, <2>2 DEF FreshInv, DetachedKnown, TableFresh
<1>12. ASSUME NEW nickname \in Texts, NEW species \in Texts,
              NEW image \in PickedImages, NEW segment \in Segments,
              updateButtonTapped(nickname, species, image, segment)
       PROVE  FreshInv'
  <2>0. screen = "edit" /\ Running
    BY <1>12 DEF updateButtonTapped, Active
  <2>1. CASE plant \in invalid
    BY <1>12, <2>1 DEF updateButtonTapped, FreshInv, DetachedKnown, TableFresh, Running, table
  <2>2. CASE plant \notin invalid
    <3>1. /\ cells' = reloadData(ctx', didChangeObject(ctx, ctx'))
          /\ UNCHANGED <<owner, invalid, detached>>
      BY <1>12, <2>2 DEF updateButtonTapped
    <3>2. ASSUME ~detached  PROVE cells' = performFetch(ctx', owner)
      <4>1. cells = performFetch(ctx, owner) /\ invalid = {}
        BY <1>0, <2>0, <3>2 DEF FreshInv, TableFresh
      <4>2. didChangeObject(ctx, ctx') = performFetch(ctx', owner)
        BY <4>1, ChangeIsFetch
      <4> QED BY <3>1, <4>1, <4>2, ReloadIsFetch
    <3> QED BY <3>1, <3>2 DEF FreshInv, DetachedKnown, TableFresh
  <2> QED BY <2>1, <2>2
<1>13. CASE UNCHANGED vars
  BY <1>13 DEF vars, FreshInv, DetachedKnown, TableFresh, Running
<1> QED
  BY <1>1, <1>2, <1>3, <1>4, <1>5, <1>6, <1>7, <1>8, <1>9, <1>10, <1>11, <1>12, <1>13 DEF Next

(* The delegate of the fetched results controller, which inserts, reloads and
   deletes rows one at a time, keeps the table equal to what a new fetch would
   give, until a failed deletion resets the context. *)
THEOREM TableFollows == Spec => []TableFresh
<1>1. Init => TypeInv /\ FreshInv
  BY InitTypeInv DEF Init, FreshInv, DetachedKnown, TableFresh, Running
<1>2. TypeInv /\ FreshInv /\ [Next]_vars => TypeInv' /\ FreshInv'
  BY NextTypeOK, NextAlive, FreshStep DEF TypeInv
<1>3. FreshInv => TableFresh
  BY DEF FreshInv
<1> QED BY <1>1, <1>2, <1>3, PTL DEF Spec

-------------------------------------------------------------------------------
(* Watering never asks for a reminder in zero seconds.  Rests on the invariant
   of PlantStore. *)


(* The alert stands over the detail screen, so that its Ok returns to a table
   that has an owner. *)
AlertOverDetail == alert # NoAlert => screen \in {"detail", "trapped"}

WInv == TypeInv /\ FailuresExplain /\ AlertOverDetail

(* Every title of the frequency control is a case of the switch. *)
LEMMA TitlesHaveIntervals ==
  ASSUME NEW i \in Segments
  PROVE  timeInterval(Titles[i]) > 0
<1>1. i = 1 \/ i = 2 \/ i = 3
  BY ConstantsAssumption DEF Titles
<1>2. timeInterval("Once a day") > 0
  BY DEF timeInterval
<1>3. timeInterval("Twice a day") > 0
  BY DEF timeInterval
<1>4. timeInterval("Thrice a day") > 0
  BY DEF timeInterval
<1>5. CASE i = 1
  <2>1. Titles[1] = "Once a day"
    BY DEF Titles
  <2> QED BY <1>2, <1>5, <2>1, Zenon
<1>6. CASE i = 2
  <2>1. Titles[2] = "Twice a day"
    BY DEF Titles
  <2> QED BY <1>3, <1>6, <2>1, Zenon
<1>7. CASE i = 3
  <2>1. Titles[3] = "Thrice a day"
    BY DEF Titles
  <2> QED BY <1>4, <1>7, <2>1, Zenon
<1> QED BY <1>1, <1>5, <1>6, <1>7

(* So the frequency of every plant has an interval. *)
LEMMA TypesGiveIntervals == TypeOK => FrequencyHasInterval
<1> SUFFICES ASSUME TypeOK, NEW c \in Contexts, NEW o \in Objects, c[o] # None
             PROVE  timeInterval(c[o].frequency) > 0
  BY DEF TypeOK, FrequencyHasInterval
<1>1. c[o].frequency \in {Titles[i] : i \in Segments}
  BY DEF Contexts, Plant
<1> QED BY <1>1, TitlesHaveIntervals

LEMMA WNextInv == WInv /\ [WNext]_wvars => WInv'
<1> SUFFICES ASSUME WInv, [WNext]_wvars PROVE WInv'
  OBVIOUS
<1>1. [Next]_vars => (TypeInv /\ FailuresExplain)'
  BY NextTypeOK, NextAlive, FailuresExplainStep DEF WInv, TypeInv
<1>2. CASE plantButtonTapped
  <2>1. plant \in Objects /\ ctx[plant] # None
    BY <1>2 DEF plantButtonTapped, WInv, TypeInv, PlantAlive
  <2>2. timeInterval(ctx[plant].frequency) > 0
    BY <2>1, TypesGiveIntervals DEF WInv, TypeInv, FrequencyHasInterval
  <2>3. UNCHANGED vars
    BY <1>2, <2>2 DEF plantButtonTapped, waterPlantNotification, vars, disk, table
  <2> QED BY <1>1, <1>2, <2>3 DEF plantButtonTapped, AlertOverDetail, WInv, vars
<1>3. CASE AlertOk
  <2>1. screen = "detail"
    BY <1>3 DEF AlertOk, Active, Running, WInv, AlertOverDetail
  <2>2. TypeOK'
    BY <1>3 DEF AlertOk, WInv, TypeInv, TypeOK, Screens, disk, table
  <2>3. (UserKnown /\ RowsAlive /\ PlantAlive)'
    BY <1>3, <2>1 DEF AlertOk, WInv, TypeInv, UserKnown, RowsAlive, PlantAlive, disk, table
  <2>4. FailuresExplain' /\ AlertOverDetail'
    BY <1>3 DEF AlertOk, WInv, FailuresExplain, TrapOnlyAfterFailure, AlertOverDetail, table
  <2> QED BY <2>2, <2>3, <2>4 DEF WInv, TypeInv
<1>4. CASE Deliver
  BY <1>1, <1>4 DEF Deliver, WInv, AlertOverDetail, vars
<1>5. CASE Elsewhere
  <2>1. Next
    BY <1>5 DEF Elsewhere, Next
  <2>2. AlertOverDetail'
    BY <1>5 DEF Elsewhere, WInv, AlertOverDetail, reminders, EnterBackground,
       EnterForeground, ReloadAfterDelete, EndsIn, LateSignUp
  <2> QED BY <1>1, <2>1, <2>2 DEF WInv
<1>6. CASE UNCHANGED wvars
  BY <1>1, <1>6 DEF wvars, vars, WInv, AlertOverDetail
<1> QED BY <1>2, <1>3, <1>4, <1>5, <1>6 DEF WNext

LEMMA WInvariant == WSpec => []WInv
<1>1. WInit => WInv
  <2>1. Init => FailuresExplain
    BY DEF Init, FailuresExplain, TrapOnlyAfterFailure
  <2> QED BY <2>1, InitTypeInv DEF WInit, WInv, AlertOverDetail
<1> QED BY <1>1, WNextInv, PTL DEF WSpec

(* Whatever was added and edited, every plant in the context and in the store
   has a frequency for which a reminder can be scheduled. *)
THEOREM RemindersHaveIntervals == WSpec => []FrequencyHasInterval
<1>1. WInv => FrequencyHasInterval
  BY TypesGiveIntervals DEF WInv, TypeInv
<1> QED BY <1>1, WInvariant, PTL

(* Watering adds no way to crash: never a trigger of zero seconds. *)
THEOREM WateringNeverTraps == WSpec => []TrapOnlyAfterFailure
<1>1. WInv => TrapOnlyAfterFailure
  BY DEF WInv, FailuresExplain
<1> QED BY <1>1, WInvariant, PTL

-------------------------------------------------------------------------------
(* Types. *)

(* Requests, their count and the alert keep their types. *)
RemindersType == requests \subseteq Request /\ issued \in Nat /\ alert \in {NoAlert} \cup Nat

LEMMA IntervalType ==
  ASSUME NEW f
  PROVE  timeInterval(f) \in Nat
<1>1. timeInterval(f) \in {86400, 28800, 18000, 10, 0}
  BY DEF timeInterval
<1> QED BY <1>1

LEMMA RemindersStep == WInv /\ RemindersType /\ [WNext]_wvars => RemindersType'
<1> SUFFICES ASSUME WInv, RemindersType, [WNext]_wvars  PROVE RemindersType'
  OBVIOUS
<1>1. CASE plantButtonTapped
  <2>1. plant \in Objects /\ ctx[plant] \in Plant /\ issued' \in Nat
    BY <1>1 DEF plantButtonTapped, WInv, TypeInv, TypeOK, PlantAlive, Contexts, RemindersType
  <2>2. ctx[plant].nickname \in Texts
    BY <2>1 DEF Plant
  <2>3. timeInterval(ctx[plant].frequency) \in Nat
    BY IntervalType
  <2>4. [identifier |-> issued', nickname |-> ctx[plant].nickname,
         timeInterval |-> timeInterval(ctx[plant].frequency)] \in Request
    BY <2>1, <2>2, <2>3 DEF Request
  <2>5. requests' \subseteq Request
    BY <1>1, <2>4 DEF plantButtonTapped, waterPlantNotification, RemindersType
  <2>6. alert' \in {NoAlert} \cup Nat
    BY <1>1, <2>3 DEF plantButtonTapped, waterPlantNotification, RemindersType
  <2> QED BY <2>1, <2>5, <2>6 DEF RemindersType
<1>2. CASE AlertOk \/ Deliver
  BY <1>2 DEF AlertOk, Deliver, RemindersType
<1>3. CASE Elsewhere
  BY <1>3 DEF Elsewhere, reminders, RemindersType
<1>4. CASE UNCHANGED wvars
  BY <1>4 DEF wvars, RemindersType
<1> QED BY <1>1, <1>2, <1>3, <1>4 DEF WNext

(* Every request in the notification center has a nickname and an interval. *)
THEOREM WateringTypes == WSpec => []WTypeOK
<1>1. WInit => RemindersType
  BY DEF WInit, RemindersType
<1>2. WInv /\ RemindersType => WTypeOK
  BY DEF WInv, TypeInv, RemindersType, WTypeOK
<1> QED BY <1>1, <1>2, RemindersStep, WInvariant, PTL DEF WSpec

-------------------------------------------------------------------------------
(* The plant under the alert. *)

(* What a row or the detail screen shows, unless detached, is the owner's. *)
RowsOwned == \A o \in Objects : cells[o] # None /\ o \notin invalid => ctx[o].id = owner
PlantOwned == screen \in {"detail", "edit"} /\ plant \notin invalid => ctx[plant].id = owner
OwnedInv == RowsOwned /\ PlantOwned

(* A cell is only made for a plant of the owner. *)
LEMMA CellIsOwned ==
  ASSUME NEW c, NEW u, NEW o, CellOf(c, u, o) # None
  PROVE  c[o].id = u
BY DEF CellOf

LEMMA OwnedStep == TypeInv /\ OwnedInv /\ [Next]_vars => OwnedInv'
<1> SUFFICES ASSUME TypeInv, OwnedInv, [Next]_vars  PROVE OwnedInv'
  OBVIOUS
<1> USE DEF OwnedInv
<1>0. ctx \in Contexts /\ ctx' \in Contexts /\ cells \in CellTables /\ cells' \in CellTables
  BY NextTypeOK DEF TypeInv, TypeOK
<1>1. CASE Launch
  <2>1. CASE loggedIn /\ ShowTable(uid)
    BY <1>0, <1>1, <2>1, CellIsOwned DEF Launch, ShowTable, performFetch, RowsOwned, PlantOwned
  <2>2. CASE ~loggedIn /\ screen' = "login" /\ UNCHANGED <<table, failures>>
    BY <1>1, <2>2 DEF Launch, table, RowsOwned, PlantOwned
  <2> QED BY <1>1, <2>1, <2>2 DEF Launch
<1>2. CASE Kill
  BY <1>2 DEF Kill, RowsOwned, PlantOwned
<1>3. CASE EnterBackground \/ EnterForeground \/ Logout \/ OpenAdd
  BY <1>3 DEF EnterBackground, EnterForeground, Logout, OpenAdd, RowsOwned, PlantOwned, table
<1>4. ASSUME NEW u \in Users, Login(u)  PROVE OwnedInv'
  BY <1>0, <1>4, CellIsOwned DEF Login, ShowTable, performFetch, RowsOwned, PlantOwned
<1>5. ASSUME NEW u \in Users, LateSignUp(u)  PROVE OwnedInv'
  BY <1>5 DEF LateSignUp, RowsOwned, PlantOwned, table
<1>6. CASE Back \/ OpenEdit
  BY <1>6 DEF Back, OpenEdit, EndsIn, RowsOwned, PlantOwned, table
<1>7. ASSUME NEW o \in Objects, OpenDetail(o)  PROVE OwnedInv'
  BY <1>7 DEF OpenDetail, EndsIn, RowsOwned, PlantOwned, table
<1>8. CASE ReloadAfterDelete
  <2>1. RowsOwned'
    BY <1>0, <1>8 DEF ReloadAfterDelete, reloadData, RowsOwned
  <2> QED BY <1>8, <2>1 DEF ReloadAfterDelete, EndsIn, PlantOwned
<1>9. ASSUME NEW o \in Objects, DeleteRow(o)  PROVE OwnedInv'
  <2>1. RowsOwned'
    BY <1>0, <1>9 DEF DeleteRow, commitDelete, Rows, RowsOwned, Contexts, CellTables
  <2>2. PlantOwned'
    BY <1>9 DEF DeleteRow, commitDelete, PlantOwned
  <2> QED BY <2>1, <2>2
<1>10. ASSUME NEW nickname \in Texts, NEW species \in Texts,
              NEW image \in PickedImages, NEW segment \in Segments, NEW o \in Objects,
              saveButtonTapped(o, nickname, species, image, segment)
       PROVE  OwnedInv'
  <2>1. RowsOwned'
    <3>1. cells' = didChangeObject(ctx, ctx') /\ owner' = owner /\ invalid' = invalid
      BY <1>10 DEF saveButtonTapped
    <3>2. ASSUME NEW p \in Objects, cells'[p] # None, p \notin invalid
          PROVE  ctx'[p].id = owner
      <4>1. CASE ctx'[p] = ctx[p]
        BY <3>1, <3>2, <4>1 DEF didChangeObject, RowsOwned
      <4>2. CASE ctx'[p] # ctx[p]
        <5>1. CellOf(ctx', owner, p) # None
          BY <3>1, <3>2, <4>2 DEF didChangeObject
        <5>2. QED BY <5>1, CellIsOwned
      <4>3. QED BY <4>1, <4>2
    <3>3. QED BY <3>1, <3>2 DEF RowsOwned
  <2>2. PlantOwned'
    BY <1>10 DEF saveButtonTapped, PlantOwned
  <2> QED BY <2>1, <2>2
<1>11. ASSUME NEW nickname \in Texts, NEW species \in Texts,
              NEW image \in PickedImages, NEW segment \in Segments,
              updateButtonTapped(nickname, species, image, segment)
       PROVE  OwnedInv'
  <2>1. CASE plant \in invalid
    BY <1>11, <2>1 DEF updateButtonTapped, RowsOwned, PlantOwned, table
  <2>2. CASE plant \notin invalid
    <3>1. cells' = reloadData(ctx', didChangeObject(ctx, ctx')) /\ UNCHANGED <<owner, invalid>>
      BY <1>11, <2>2 DEF updateButtonTapped
    <3>2. RowsOwned'
      BY <1>0, <3>1, CellIsOwned DEF reloadData, RowsOwned
    <3> QED BY <1>11, <2>2, <3>2 DEF updateButtonTapped, EndsIn, PlantOwned
  <2> QED BY <2>1, <2>2
<1>12. CASE UNCHANGED vars
  BY <1>12 DEF vars, RowsOwned, PlantOwned
<1> QED
  BY <1>1, <1>2, <1>3, <1>4, <1>5, <1>6, <1>7, <1>8, <1>9, <1>10, <1>11, <1>12 DEF Next

(* The alert's plant is not detached, and has the frequency the alert is for. *)
AlertCurrent ==
  alert # NoAlert /\ screen # "trapped" =>
    plant \notin invalid /\ timeInterval(ctx[plant].frequency) = alert

LEMMA AlertStep ==
  WInv /\ OwnedInv /\ AlertCurrent /\ [WNext]_wvars => OwnedInv' /\ AlertCurrent'
<1> SUFFICES ASSUME WInv, OwnedInv, AlertCurrent, [WNext]_wvars
             PROVE  OwnedInv' /\ AlertCurrent'
  OBVIOUS
<1>0. TypeInv
  BY DEF WInv
<1>1. CASE plantButtonTapped
  <2>1. plant \in Objects /\ ctx[plant] # None
    BY <1>1 DEF plantButtonTapped, WInv, TypeInv, PlantAlive
  <2>2. timeInterval(ctx[plant].frequency) > 0
    BY <1>0, <2>1, TypesGiveIntervals DEF TypeInv, FrequencyHasInterval
  <2>3. UNCHANGED vars /\ alert' = timeInterval(ctx[plant].frequency) /\ plant \notin invalid
    BY <1>1, <2>2 DEF plantButtonTapped, waterPlantNotification, vars, disk, table
  <2>4. OwnedInv'
    BY <1>0, <2>3, OwnedStep
  <2> QED BY <2>3, <2>4 DEF AlertCurrent, vars
<1>2. CASE AlertOk
  BY <1>2 DEF AlertOk, OwnedInv, RowsOwned, PlantOwned, AlertCurrent, table
<1>3. CASE Deliver
  BY <1>3 DEF Deliver, OwnedInv, RowsOwned, PlantOwned, AlertCurrent, vars
<1>4. CASE Elsewhere
  <2>1. Next
    BY <1>4 DEF Elsewhere, Next
  <2>2. OwnedInv'
    BY <1>0, <2>1, OwnedStep
  <2>3. AlertCurrent'
    BY <1>4 DEF Elsewhere, AlertCurrent, reminders, EnterBackground, EnterForeground,
       ReloadAfterDelete, EndsIn, LateSignUp, table, Running
  <2> QED BY <2>2, <2>3
<1>5. CASE UNCHANGED wvars
  BY <1>5 DEF wvars, vars, OwnedInv, RowsOwned, PlantOwned, AlertCurrent
<1> QED BY <1>1, <1>2, <1>3, <1>4, <1>5 DEF WNext

(* While the alert of alertController is up, the plant it is about stays on the
   detail screen beneath it, whatever runs meanwhile: a reload after a deletion,
   a late sign-up, the background. *)
THEOREM AlertsKeepTheirPlant == WSpec => []AlertHasItsPlant
<1>1. WInit => OwnedInv /\ AlertCurrent
  BY DEF WInit, Init, OwnedInv, RowsOwned, PlantOwned, AlertCurrent
<1>2. WInv /\ OwnedInv /\ AlertCurrent => AlertHasItsPlant
  BY DEF WInv, TypeInv, PlantAlive, OwnedInv, PlantOwned, AlertCurrent, AlertOverDetail,
     AlertHasItsPlant
<1> QED BY <1>1, <1>2, AlertStep, WInvariant, PTL DEF WSpec

===============================================================================
