------------------------------ MODULE PlantStore ------------------------------
(***************************************************************************)
(* The plants of a WaterMyPlants installation: the Core Data stack         *)
(* (CoreDataStack, one main-queue context over one store) and the screens  *)
(* that read and write it (PlantTableViewController with its fetched       *)
(* results controller, AddPlantViewController, PlantDetailViewController,  *)
(* EditViewController).  Every handler runs to completion on the main      *)
(* thread; what interleaves is the user, the block that a deletion leaves  *)
(* on the main queue, the completion of a late sign-up, the system (which  *)
(* backgrounds and kills the process) and a disk that may refuse a save.   *)
(***************************************************************************)
EXTENDS Integers

CONSTANTS
  Users,          \* uids handed out by the authentication service
  Objects,        \* identities of managed objects (NSManagedObjectID)
  Words,          \* non-empty texts
  Images,         \* picked photos, as PNG data
  Segments,       \* segments of the frequency control the user picks
  None,           \* nil
  MaxTime,        \* bound: instants Date() returns
  MaxFailures     \* bound: fetches and saves that Core Data refuses

(* The titles of the frequency control, the same on both screens. *)
Titles == <<"Once a day", "Twice a day", "Thrice a day">>

NoText == ""
Texts == Words \cup {NoText}

(* The photo picked on the add and edit screens, if any. *)
PickedImages == Images \cup {None}

(* The attributes of a Plant (model version 3). *)
Plant == [id : Users, image : PickedImages, nickname : Texts,
          species : Texts, frequency : {Titles[i] : i \in Segments},
          timestamp : Nat]

(* What cellForRowAt shows of a plant; nil attributes show an empty cell. *)
Cell == [name : Texts, image : PickedImages]
BlankCell == [name |-> NoText, image |-> None]

ASSUME ConstantsAssumption ==
  /\ Segments \subseteq DOMAIN Titles
  /\ NoText \notin Words
  /\ None \notin Users /\ None \notin Objects /\ None \notin Images
  /\ None \notin Plant /\ None \notin Cell
  /\ MaxTime \in Nat
  /\ MaxFailures \in Nat

VARIABLES
  ctx,         \* the managed object context: each object's plant, or None
  store,       \* the same in the SQLite file
  loggedIn,    \* UserDefaults "isUserLoggedIn"
  uid,         \* UserDefaults "uid"
  screen,      \* the controller on top; "off" not running, "trapped" crashed
  background,  \* the scene is in the background
  owner,       \* the uid in the predicate of the table's fetch request
  cells,       \* the rows of the table: what each object's cell shows
  invalid,     \* rows whose object moc.reset() has detached from the context
  detached,    \* moc.reset() ran and the table has not fetched again since
  reload,      \* a block calling reloadData waits on the main queue
  plant,       \* the plant handed to the detail and edit screens
  now,         \* the last instant Date() returned
  setBack,     \* Date() has returned an instant not later than the one before
  failures     \* how many fetches and saves have failed

disk == <<store, loggedIn, uid>>
clock == <<now, setBack>>
table == <<owner, cells, invalid, detached, reload>>
vars == <<ctx, store, loggedIn, uid, screen, background, owner, cells,
          invalid, detached, reload, plant, now, setBack, failures>>

Screens == {"off", "trapped", "login", "table", "add", "detail", "edit"}

Contexts == [Objects -> Plant \cup {None}]
CellTables == [Objects -> Cell \cup {None}]

(* Every variable has its type; in particular each plant has an owner. *)
TypeOK ==
  /\ ctx \in Contexts
  /\ store \in Contexts
  /\ loggedIn \in BOOLEAN
  /\ uid \in Users \cup {None}
  /\ screen \in Screens
  /\ background \in BOOLEAN
  /\ owner \in Users \cup {None}
  /\ cells \in CellTables
  /\ invalid \in SUBSET Objects
  /\ detached \in BOOLEAN
  /\ reload \in BOOLEAN
  /\ plant \in Objects \cup {None}
  /\ now \in Nat
  /\ setBack \in BOOLEAN
  /\ failures \in Nat

Init ==
  /\ ctx = [o \in Objects |-> None]
  /\ store = [o \in Objects |-> None]
  /\ loggedIn = FALSE
  /\ uid = None
  /\ screen = "off"
  /\ background = FALSE
  /\ owner = None
  /\ cells = [o \in Objects |-> None]
  /\ invalid = {}
  /\ detached = FALSE
  /\ reload = FALSE
  /\ plant = None
  /\ now = 0
  /\ setBack = FALSE
  /\ failures = 0

-------------------------------------------------------------------------------
(* Helpers. *)

Running == screen \notin {"off", "trapped"}
Active == Running /\ ~background

(* A slip to rule out: dates rounded to the minute, so that two are equal
   although nobody touched the clock. *)
DateRounded == now' \in 1..MaxTime /\ setBack' = (setBack \/ now' < now)

(* Date(): the device's clock may have been set back. *)
Date == now' \in 1..MaxTime /\ setBack' = (setBack \/ now' <= now)

(* frequencySegControl.titleForSegment(at: selectedSegmentIndex) *)
segControlString(segment) ==
  IF segment \in DOMAIN Titles THEN Titles[segment] ELSE "Often"

(* cellForRowAt for object o of the context c, in a table of user u. *)
CellOf(c, u, o) ==
  IF c[o] # None /\ c[o].id = u
  THEN [name |-> c[o].nickname, image |-> c[o].image]
  ELSE None

(* The rows of a table of user u that performs its fetch on context c. *)
performFetch(c, u) == [o \in Objects |-> CellOf(c, u, o)]

(* A slip to rule out: the delegate has no case for an inserted object. *)
didChangeObjectNoInsert(c, d) ==
  [o \in Objects |-> IF d[o] = c[o] \/ c[o] = None THEN cells[o]
                                                   ELSE CellOf(d, owner, o)]

(* The fetched results controller reports every changed object of the
   context; its delegate inserts, reloads or deletes that row. *)
didChangeObject(c, d) ==
  [o \in Objects |-> IF d[o] = c[o] THEN cells[o] ELSE CellOf(d, owner, o)]

(* reloadData: cellForRowAt for every row the controller lists in context c.
   A detached object answers nil for its attributes. *)
reloadData(c, rows) ==
  [o \in Objects |-> CASE rows[o] = None -> None
                       [] rows[o] # None /\ o \in invalid -> BlankCell
                       [] OTHER -> CellOf(c, owner, o)]

(* managedObjectContext.save(): all of the context or, on an error, nothing.
   The caller prints the error and continues. *)
Fail == failures < MaxFailures /\ failures' = failures + 1
save == \/ store' = ctx' /\ UNCHANGED failures
        \/ Fail /\ UNCHANGED store

(* Reading a detached object answers nil or raises: one of the objects in
   touched being detached, the handler may end in a crash. *)
EndsIn(next, touched) ==
  screen' \in {next} \cup {s \in {"trapped"} : touched \cap invalid # {}}

-------------------------------------------------------------------------------
(* The process and its scene. *)

(* A new table controller for user u: its fetch succeeds, or fatalError. *)
ShowTable(u) ==
  /\ owner' = u
  /\ cells' = performFetch(ctx, u)
  /\ invalid' = {}
  /\ detached' = FALSE
  /\ reload' = FALSE
  /\ \/ screen' = "table" /\ UNCHANGED failures
     \/ screen' = "trapped" /\ Fail

(* A slip to rule out: the table is shown without looking at the flag. *)
LaunchUnchecked ==
  /\ screen = "off"
  /\ ShowTable(uid)
  /\ UNCHANGED <<ctx, disk, background, plant, clock>>

(* scene(_:willConnectTo:): the stored flag picks the first screen. *)
Launch ==
  /\ screen = "off"
  /\ \/ loggedIn /\ ShowTable(uid)
     \/ ~loggedIn /\ screen' = "login" /\ UNCHANGED <<table, failures>>
  /\ UNCHANGED <<ctx, disk, background, plant, clock>>

(* The process ends, by the system, the user or a trap; memory is lost. *)
Kill ==
  /\ screen # "off"
  /\ screen' = "off"
  /\ background' = FALSE
  /\ ctx' = store
  /\ owner' = None
  /\ cells' = [o \in Objects |-> None]
  /\ invalid' = {}
  /\ detached' = FALSE
  /\ reload' = FALSE
  /\ plant' = None
  /\ UNCHANGED <<disk, clock, failures>>

(* sceneDidEnterBackground: the call that would save is commented out. *)
EnterBackground ==
  /\ Active
  /\ background' = TRUE
  /\ UNCHANGED <<ctx, disk, screen, table, plant, clock, failures>>

EnterForeground ==
  /\ Running /\ background
  /\ background' = FALSE
  /\ UNCHANGED <<ctx, disk, screen, table, plant, clock, failures>>

(* The completion of signIn or of a sign-up's profile write, on the login
   screen that is on top: it presents a table for u.  Session has the rest. *)
Login(u) ==
  /\ Active /\ screen = "login"
  /\ loggedIn' = TRUE
  /\ uid' = u
  /\ ShowTable(u)
  /\ UNCHANGED <<ctx, store, background, plant, clock>>

(* The same completion, late: its login screen is covered, so nothing is
   presented, but the defaults are overwritten under the open table. *)
LateSignUp(u) ==
  /\ Running
  /\ loggedIn' = TRUE
  /\ uid' = u
  /\ UNCHANGED <<ctx, store, screen, background, table, plant, clock, failures>>

(* logoutButtonTapped; the uid stays in the defaults. *)
Logout ==
  /\ Active /\ screen = "table"
  /\ loggedIn' = FALSE
  /\ screen' = "login"
  /\ UNCHANGED <<ctx, store, uid, background, table, plant, clock, failures>>

-------------------------------------------------------------------------------
(* Adding and editing. *)

OpenAdd ==
  /\ Active /\ screen = "table"
  /\ screen' = "add"
  /\ UNCHANGED <<ctx, disk, background, table, plant, clock, failures>>

Back ==
  /\ Active
  /\ \/ screen \in {"add", "detail"} /\ screen' = "table" /\ plant' = None
     \/ screen = "edit" /\ screen' = "detail" /\ UNCHANGED plant
  /\ UNCHANGED <<ctx, disk, background, table, clock, failures>>

(* AddPlantViewController.saveButtonTapped; o is a fresh object.  The plant
   belongs to the uid in the defaults, not to the owner of the table. *)
saveButtonTapped(o, nickname, species, image, segment) ==
  /\ Active /\ screen = "add"
  /\ nickname # NoText /\ species # NoText
  /\ ctx[o] = None /\ store[o] = None /\ cells[o] = None
  /\ Date
  /\ ctx' = [ctx EXCEPT ![o] =
       [id |-> uid, image |-> image, nickname |-> nickname,
        species |-> species, frequency |-> segControlString(segment),
        timestamp |-> now']]
  /\ save
  /\ cells' = didChangeObject(ctx, ctx')
  /\ screen' = "table"
  /\ UNCHANGED <<loggedIn, uid, background, owner, invalid, detached, reload,
                 plant>>

(* prepare(for:) of the table: the detail screen gets the row's object. *)
OpenDetail(o) ==
  /\ Active /\ screen = "table" /\ cells[o] # None
  /\ plant' = o
  /\ EndsIn("detail", {o})
  /\ UNCHANGED <<ctx, disk, background, table, clock, failures>>

OpenEdit ==
  /\ Active /\ screen = "detail"
  /\ EndsIn("edit", {plant})
  /\ UNCHANGED <<ctx, disk, background, table, plant, clock, failures>>

(* A slip to rule out: the plant is looked up by its nickname. *)
FoundByNickname ==
  {o \in Objects : ctx[o] # None /\ ctx[o].nickname = ctx[plant].nickname}

(* CoreDataStack.updatePlant: finds the plant again by its timestamp, among
   the plants of every user, and changes it if exactly one is found. *)
Found == {o \in Objects : ctx[o] # None /\ ctx[o].timestamp = ctx[plant].timestamp}

(* A slip to rule out: the plant is given to the uid in the defaults. *)
UpdatedForDefaults(q, nickname, species, image, segment, timestamp) ==
  [id |-> uid, image |-> IF image = None THEN ctx[q].image ELSE image,
   nickname |-> nickname, species |-> species,
   frequency |-> segControlString(segment), timestamp |-> timestamp]

Updated(q, nickname, species, image, segment, timestamp) ==
  [id |-> ctx[plant].id,
   image |-> IF image = None THEN ctx[q].image ELSE image,
   nickname |-> nickname, species |-> species,
   frequency |-> segControlString(segment), timestamp |-> timestamp]

(* Two slips to rule out: no save on the path without a photo, and taking any
   plant there is. *)
updatePlantUnsaved(nickname, species, image, segment, timestamp) ==
  \E q \in Objects :
    /\ Found = {q}
    /\ ctx' = [ctx EXCEPT ![q] =
                 Updated(q, nickname, species, image, segment, timestamp)]
    /\ IF image = None THEN UNCHANGED <<store, failures>> ELSE save
updatePlantAny(nickname, species, image, segment, timestamp) ==
  \E q \in {o \in Objects : ctx[o] # None} :
    /\ ctx' = [ctx EXCEPT ![q] =
                 Updated(q, nickname, species, image, segment, timestamp)]
    /\ save

updatePlant(nickname, species, image, segment, timestamp) ==
  \/ Fail /\ UNCHANGED <<ctx, store>>
  \/ /\ \A q \in Objects : Found # {q}
     /\ UNCHANGED <<ctx, store, failures>>
  \/ \E q \in Objects :
       /\ Found = {q}
       /\ ctx' = [ctx EXCEPT ![q] =
                    Updated(q, nickname, species, image, segment, timestamp)]
       /\ save

(* updateButtonTapped, then segueAndUpdate: back to the table, which reloads
   on .plantUpdated.  A detached plant has no timestamp to unwrap. *)
updateButtonTapped(nickname, species, image, segment) ==
  /\ Active /\ screen = "edit"
  /\ \/ /\ plant \in invalid
        /\ screen' = "trapped"
        /\ UNCHANGED <<ctx, disk, background, table, plant, clock, failures>>
     \/ /\ plant \notin invalid
        /\ Date
        /\ updatePlant(nickname, species, image, segment, now')
        /\ plant' = None
        /\ cells' = reloadData(ctx', didChangeObject(ctx, ctx'))
        /\ EndsIn("table", invalid)
        /\ UNCHANGED <<loggedIn, uid, background, owner, invalid, detached,
                       reload>>

-------------------------------------------------------------------------------
(* Deleting. *)

Rows == {o \in Objects : cells[o] # None}

(* Two slips to rule out: reset() after every deletion, and no reset(). *)
commitDeleteAlwaysReset(o) ==
  /\ cells' = [cells EXCEPT ![o] = None]
  /\ ctx' = [ctx EXCEPT ![o] = None]
  /\ store' = ctx'
  /\ invalid' = Rows \ {o}
  /\ detached' = TRUE
  /\ reload' = TRUE
  /\ UNCHANGED <<screen, failures>>
commitDeleteNoReset(o) ==
  /\ cells' = [cells EXCEPT ![o] = None]
  /\ ctx' = [ctx EXCEPT ![o] = None]
  /\ save
  /\ reload' = TRUE
  /\ UNCHANGED <<screen, invalid, detached>>

(* tableView(_:commit:forRowAt:).  The row goes when the deletion is
   processed; if the save fails, reset() takes the context back to the store
   and detaches every object the table still lists. *)
commitDelete(o) ==
  /\ cells' = [cells EXCEPT ![o] = None]
  /\ \/ /\ ctx' = [ctx EXCEPT ![o] = None]
        /\ store' = ctx'
        /\ UNCHANGED <<invalid, detached, failures>>
     \/ /\ Fail
        /\ ctx' = store
        /\ invalid' = Rows \ {o}
        /\ detached' = TRUE
        /\ UNCHANGED store
  /\ reload' = TRUE
  /\ UNCHANGED screen

DeleteRow(o) ==
  /\ Active /\ screen = "table" /\ cells[o] # None
  /\ \/ o \notin invalid /\ commitDelete(o)
     \/ /\ o \in invalid  \* the context refuses an object that is not its own
        /\ screen' = "trapped"
        /\ UNCHANGED <<ctx, store, cells, invalid, detached, reload, failures>>
  /\ UNCHANGED <<loggedIn, uid, background, owner, plant, clock>>

(* The block a deletion leaves on the main queue. *)
ReloadAfterDelete ==
  /\ Running /\ reload
  /\ reload' = FALSE
  /\ cells' = reloadData(ctx, cells)
  /\ EndsIn(screen, invalid)
  /\ UNCHANGED <<ctx, disk, background, owner, invalid, detached, plant, clock,
                 failures>>

-------------------------------------------------------------------------------
Next ==
  \/ Launch \/ Kill \/ EnterBackground \/ EnterForeground
  \/ \E u \in Users : Login(u) \/ LateSignUp(u)
  \/ Logout \/ OpenAdd \/ Back \/ OpenEdit \/ ReloadAfterDelete
  \/ \E o \in Objects : OpenDetail(o) \/ DeleteRow(o)
  \/ \E nickname, species \in Texts, image \in PickedImages,
        segment \in Segments :
       \/ \E o \in Objects :
            saveButtonTapped(o, nickname, species, image, segment)
       \/ updateButtonTapped(nickname, species, image, segment)

Spec == Init /\ [][Next]_vars

-------------------------------------------------------------------------------
(* Properties. *)

(* No change stays unsaved behind the user's back: the context differs from
   the store only after Core Data refused something.  Every path of every
   handler that changes the context ends in a save; none relies on a save in
   the background or at termination, which do not exist. *)
UnsavedOnlyAfterFailure == failures = 0 => ctx = store

(* As long as the clock is not set back, a timestamp names one plant, in the
   context and in the store, of whichever user: what updatePlant's fetch by
   timestamp relies on. *)
Distinct(c) ==
  \A a, b \in Objects :
    /\ c[a] # None => c[a].timestamp <= now
    /\ a # b /\ c[a] # None /\ c[b] # None => c[a].timestamp # c[b].timestamp
TimestampsUnique == ~setBack => Distinct(ctx) /\ Distinct(store)

(* A clock that was not set back before loses no edit: when the screen returns
   to the table and Core Data refused nothing, the edited plant is in the
   store with the new timestamp. *)
EditLands ==
  [][(~setBack /\ screen = "edit" /\ screen' = "table") =>
       \/ failures' > failures
       \/ store'[plant] # None /\ store'[plant].timestamp = now']_vars

(* Whatever the clock does, an update of a plant in the context is the
   user's edit of that very plant, or the context falls back to the store. *)
EditTouchesOnlyItsPlant ==
  [][\A o \in Objects :
       ctx[o] # None /\ ctx'[o] # None /\ ctx'[o] # ctx[o] =>
         \/ screen = "edit" /\ o = plant
         \/ ctx'[o] = store[o]]_vars

(* A plant keeps its owner for life, even when a late sign-up rewrites the
   uid in the defaults between opening and saving the edit screen. *)
OwnerNeverChanges ==
  [][\A o \in Objects :
       ctx[o] # None /\ ctx'[o] # None => ctx'[o].id = ctx[o].id]_vars

(* A plant leaves the store only in the step in which the user deletes its
   row: a deletion that failed is forgotten, not carried out by a later save
   of something else. *)
NoLateDelete ==
  [][\A o \in Objects :
       store[o] # None /\ store'[o] = None =>
         screen = "table" /\ o \in Rows /\ ctx[o] # None]_vars

(* Until a failed deletion detaches the table, its rows are exactly the
   owner's plants in the context as they are now, although they are kept up
   to date row by row and other accounts' plants are in the same context. *)
TableFresh ==
  Running /\ screen # "login" /\ ~detached => cells = performFetch(ctx, owner)

(* The app stops by itself only after Core Data refused something: without
   that no handler meets a detached object or a missing timestamp. *)
TrapOnlyAfterFailure == screen = "trapped" => failures > 0
===============================================================================
