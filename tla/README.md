# WaterMyPlants: a TLA+ verification project

WaterMyPlants is an iOS app (Swift, UIKit, Core Data, Firebase). A user signs up
or logs in, keeps a list of plants on the device, and taps a button after
watering a plant to be reminded of the next time. Accounts live in Firebase
Authentication, a small profile per user in the Firebase Realtime Database, the
plants of all accounts in one Core Data store on the device. The repository
vendors the pods it is built with; two of them carry state that can go wrong in
interesting ways and are modelled too: the client of the Realtime Database, and
LevelDB, which is compiled into the app as the storage engine of that client.

Paths are relative to `src/WaterMyPlants/`. `WaterMyPlants/` is the app,
`Pods/leveldb-library/` LevelDB, `Pods/FirebaseDatabase/` the database client.

## Inventory

### The app

| component | state | operations | what is hard |
|---|---|---|---|
| Plant store: `Models/CoreDataStack.swift`, `../Plant+CoreData*.swift` | one main-queue context, one SQLite store | `updatePlant`; inserts, deletes and saves by the screens | saves and fetches fail and are only printed; lookup by timestamp; process death between saves |
| Plant screens: `PlantTable-`, `AddPlant-`, `PlantDetail-`, `EditViewController` | rows of the table, the uid of its predicate, the plant handed on | add, open, edit, delete, reload | rows maintained one by one by a delegate; `reset()` after a failed delete; a reload left on the main queue |
| Reminders: `Notifications.swift` | pending requests (kept by the system) | `waterPlantNotification`, the alert | interval chosen by a string from the storyboard |
| Session: `LoginViewController`, logout in `SettingsViewController` | defaults (`isUserLoggedIn`, `uid`), Firebase's current user and its keychain copy, presented controllers | login, sign-up (create user, then write the profile), logout | overlapping requests, late or lost answers, dropped presentations, kills between steps |
| Scene and app delegates | none of their own | choose the first screen, background, foreground | the save on entering the background is commented out |
| Settings and username: `SettingsViewController`, `PlantFirebaseController` | shared `username`, text field, alert | `getUsername`, `updateUsername`, save | results out of order, a timer instead of the completion, cache not cleared at logout |
| Realtime Database client: `FPersistentConnection.m`, part of `FRepo.m` | connection state, scheduled retry, token, interruptions, outstanding writes and reads | put, get, connect, authenticate, interrupt, resume, resend | acknowledgements lost, writes sent twice, late tokens, reads lost with a connection |
| `User`, `PlantController`, `ViewController`, tests | - | - | value type, stubs, templates |

The session writes `uid` to the defaults; the table reads it once, when its
fetched results controller is created; the add screen reads it again at every
save. The add, edit and delete handlers change the context; the controller tells
the table row by row. Edit posts `.plantUpdated`, on which the table reloads.
The table and the settings screen read the username through the database
client. The app's own code runs on the main thread; Firebase Auth's completions are
queued on it in order, those of the database client run on the client's queue.

What makes the app correct: every accepted change is in the store unless Core
Data refused it; an edit reaches its own plant and no other; a deletion happens
when the user asks or never; the table shows the owner's plants; every stored
frequency has a reminder interval; the three memories of who is signed in agree;
a sign-in, a write and a read are answered; a write that is sent again undoes
nothing.

### LevelDB

| component | state | operations | what is hard |
|---|---|---|---|
| Write path: `db/db_impl.cc` | mutex, queue of writers, memtables, log, background flag and error | `Write`, flush, manual compaction, `BackgroundCall`, destructor | groups written without the mutex, condition variables, errors half way |
| Levels: `db/version_set.cc`, compactions of `db/db_impl.cc` | the files of each level, compaction pointers | lookups, flush, automatic, seek and manual compaction | overlap, tombstones, snapshots, several entries of one key |
| Files and recovery: the same, `db/filename.cc` | logs, tables, MANIFEST, CURRENT | `Open`, `Recover`, `LogAndApply`, `DeleteObsoleteFiles` | a crash at any step, also of a recovery; failing files; reused logs |
| Log files: `db/log_writer.cc`, `db/log_reader.cc` | block offset, reader's buffer and mode | add and read records | torn tails, resynchronisation, initial offset |
| Tables: `table/`, `util/bloom.cc` | blocks, index, filter | build, seek, step, get | shortened index keys, restart points, damaged blocks |
| Iterators: `db/db_iter.cc`, `table/merger.cc`, `table/two_level_iterator.cc` | positions and directions of all layers | seek, next, prev | turning round, unreadable blocks, concurrent inserts |
| Cache: `util/cache.cc`, `db/table_cache.cc` | hash table, two lists, reference counts | lookup, insert, release, erase, prune | entries pushed out while in use, two threads opening one table |
| Memtable: `db/skiplist.h`, `db/memtable.cc` | linked nodes | insert, search | readers without a lock |
| Environment: `util/env_posix.cc` | lock table, limits, work queue, file buffer | lock, open, schedule, append, sync | record locks of a process, failing calls, wake-ups |

The write path fills a log (through a buffered file) and a skip list; the
background thread turns a full memtable into a table and merges tables of the
levels; the MANIFEST, itself a log file, records which tables count; lookups and
iterators read memtables and, through the cache, tables. A correct LevelDB keeps
what it acknowledged, in order, through crashes and failures as `options.h`
promises, finds the newest entry of every key at every snapshot, lets every call
return, and deletes no file that is in use.

`PROJECT.json` lists the hazards line by line.

## Modules

| module | models | used by |
|---|---|---|
| `PlantStore` | store, context, plant screens, scene | `Watering` |
| `Watering` | reminders, over `PlantStore` | `MCWatering`, `WateringProofs` |
| `Session` | login, sign-up, logout, restart | `MCSession`, `SessionProofs` |
| `RealtimeDatabase` | the database client and, external, its server | `Profile` |
| `Profile` | username and settings screen, over `RealtimeDatabase` | `MCProfile`, `ProfileProofs` |
| `DBWrite` | LevelDB's threads: writers, flush, manual compaction, close, background | `MCDBWrite`, `DBWriteProofs` |
| `Levels` | levels, lookups, compactions | `MCLevels`, `MCParts` |
| `Storage` | files, open, recovery, commits, deletion | `MCStorage`, `StorageInvariants` |
| `StorageInvariants` | the invariants by which `Storage` is proved correct | `StorageProofs` |
| `KVStore` | what the database promises about crashes (abstract) | `Storage` |
| `LogFormat` | log files | `MCLogFormat`, `MCParts` |
| `Table` | table files | `MCTable`, `MCParts` |
| `Iterators` | the tower of iterators | `MCParts` |
| `Cursor` | what an iterator promises (abstract) | `Iterators` |
| `LRUCache` | cache and table cache | `MCParts` |
| `SkipList` | memtable | `MCParts`; proofs: `SkipListProofs` |
| `WritableFile`, `FileLock`, `ReadableFiles`, `BackgroundThread` | the POSIX environment | `MCParts`; proofs: `EnvironmentProofs` |
| `MC*` | instances for TLC | - |
| `*Proofs` | theorems and their proofs | - |
| `DataLemmas` | induction and recursion for the provers, facts on sequences and cardinalities | all `*Proofs` but those of the app's screens |

Definitions introduced as "a slip to rule out" are not part of the specifications:
each is a plausible mistake in the definition that follows it, used to confirm
that the property listed with it in `PROJECT.json` ("mutants") notices.

### PlantStore

State. `ctx` and `store` map every object identity to a plant or `None`: the
managed object context and the SQLite file. `loggedIn` and `uid` are the user
defaults. `screen`, `background`, `plant` say where the user is. `owner`,
`cells`, `invalid`, `detached`, `reload` are the table controller: the uid of
its predicate, what each row shows, the rows whose object was detached by
`reset()`, whether that happened since the last fetch, and the block a deletion
leaves on the main queue. `now` is the last value of `Date()`, `setBack`
whether it was ever not later than the one before it, `failures` counts what Core
Data refused.

Actions and code.

| action | code |
|---|---|
| `Launch`, `ShowTable` | `SceneDelegate.scene(_:willConnectTo:)`, the lazy `fetchedResultsController` and `viewDidLoad` of the table |
| `Kill` | end of the process: the context is lost, the store stays |
| `EnterBackground`, `EnterForeground` | scene callbacks; neither saves |
| `Login`, `LateSignUp`, `Logout` | what the session does to the defaults and the top screen, as seen from here |
| `saveButtonTapped` | add screen: guards, insert, save (may fail), pop; the delegate inserts the row |
| `OpenDetail`, `OpenEdit`, `OpenAdd`, `Back` | segues and the back button |
| `updateButtonTapped`, `updatePlant`, `Found`, `Updated` | edit screen: fetch by timestamp, change the one match, save (may fail), pop to the table, reload |
| `DeleteRow`, `commitDelete` | swipe to delete: delete, save, on an error `reset()`; schedule a reload |
| `ReloadAfterDelete` | the scheduled reload |

A handler that returns early because a field is empty changes nothing and is a
stuttering step. Texts are the empty text or a word; photos are a model value;
titles of the frequency control are the storyboard's. Two outcomes are taken
from Core Data, outside this repository: after `reset()` the controller keeps
listing its objects without fetching again, and touching one of them either
reads nil or raises. `Date()` returns any instant: the device's clock can be set
back, and what needs it not to be is said until `setBack`. Tables hidden under a second login are not kept.

Properties (`TypeOK` aside):

- `UnsavedOnlyAfterFailure`: context and store differ only after a refusal, whatever
  the clock does, and with photos.
- `TimestampsUnique`, `EditLands`: until the clock is set back a timestamp names
  one plant, and an edit that met no error is in the store.
- `EditTouchesOnlyItsPlant`: whatever the clock does, an edit may be lost (two
  plants with one timestamp) but never changes another plant.
- `OwnerNeverChanges`: even when the uid in the defaults changes mid-edit.
- `NoLateDelete`: a failed deletion is forgotten, not completed by a later save.
- `TableFresh`: the rows are the owner's plants, until `reset()` detaches them.
- `TrapOnlyAfterFailure`: no crash without a refusal by Core Data before it.

### Watering

Adds the pending `requests`, their count and the `alert`. `plantButtonTapped`
and `waterPlantNotification` schedule a reminder, `AlertOk` returns to the table,
`Deliver` is the system. `Elsewhere` is any step of `PlantStore` the modal alert
permits. `FrequencyHasInterval`: no writer can store a frequency the switch does
not know, so that no trigger of zero seconds, which raises, is created.
`AlertHasItsPlant`: the alert stands over the plant it is about.

### Session

State: `accounts` and `profiles` on the servers; `keychain` and `currentUser` of
Firebase; the defaults; the presented `screens` (they only pile up), the login
`form` and the `alert`; and what is under way: `calls` to the authentication
service, completions in `mainQueue`, profile writes in `puts`, and `loggingOut`
while a logout's presentation runs. `overlapped` remembers that a button was tapped
while a request was under way.

| action | code |
|---|---|
| `loginSignUpButtonTapped`, `TapIncomplete`, `loginSegmentChanged` | the login form |
| `AuthGranted`, `AuthFailed` | Firebase saves the user in the keychain, makes it current, queues the completion; or an error, perhaps after the account was created |
| `PutAnswered` | the write of `users/<uid>` is acknowledged or refused |
| `CompleteSignIn`, `CompleteSignUp`, `CompleteFailed` | the closures in the handler |
| `logoutButtonTapped`, `LogoutPresented` | logout, and `signOut` in its completion block |
| `Launch`, `Kill` | restart; what was under way may still reach the servers |

A handler is one step: a kill between its statements (between storing the flag
and the uid) is not modelled. UIKit drops a presentation by a covered controller
or under an alert, and delivers no touches during one.

With overlapping requests: `OwnerHasAccount`, `KeychainFollows`,
`UsernameWhenSigningUp`, and `TableMeansLoggedIn`: whoever sees a table counts as
logged in, and no answer puts one table over another. Until a tap overlaps a request
(`overlapped`; the code does not prevent it, the buttons stay enabled): `Agreement`
and `SignInAnswered`. The condition is needed: when two requests overlap, the
answers are applied to Firebase first and to the defaults later, and a kill, or
the late acknowledgement of a sign-up's profile, leaves the uid in the defaults
and Firebase's user different. For the same reason a logout is not final: if the
profile of an earlier sign-up is acknowledged after it
(`LoginViewController.swift:49-56`), the flag is set again, behind the login screen,
and the next launch shows the table. Nothing is claimed about that, and it is the
converse of `TableMeansLoggedIn`.

### RealtimeDatabase and Profile

State of `RealtimeDatabase`: `connectionState` (the code's enumeration),
`scheduledRetry` (the retry helper has a block to run), the token and the
attempts to fetch one, `interruptReasons`, `outstandingPuts` and
`outstandingGets` with their counters, and the wire: `up` and `down`, requests and
answers of the present connection. `server` and `acked` remember, for each place,
the last write applied and the last one acknowledged.

| action | code |
|---|---|
| `open`, `interrupt`, `resume`, `enteringForeground` | the entry points that start and stop the connection |
| `RetryFires`, `TokenFetched`, `TokenFailed` | the block of `tryScheduleReconnect` and the callback of `fetchAuthToken`, which only the latest attempt may use |
| `onReady`, `AuthAnswered`, `restoreState` | a new connection: authenticate, then send all writes again and the reads never sent |
| `Drop`, `onAuthRevoked`, `onKill` | `onDisconnect` and what leads to it |
| `mergeData`, `getDataAtPath`, `GetTimeout` | requests, and the deadline of a read made without a connection |
| `PutAnswered`, `GetAnswered` | the callbacks of `sendPut` and `sendGet` |
| `Serve` (external) | the server: in order, may refuse |

`Profile` adds the app: `getUsername`, with FRepo's answer from a write that is
still under way, `UsernameArrives`, the settings screen with its text field, the
save operation on the main queue, the timer of three seconds and its alert, and
logout. Who may sign in is the matter of `Session`.

- `ConnectionIsTended`: the assertions about the states hold, nothing is on a wire
  without a connection, and a client that should reconnect is about to.
- `AckedIsNotUndone`: writes that are sent again arrive in their order, so that
  no acknowledged name is replaced by an older one.
- `AnswersCome`: unless it is kept offline, the client gets rid of all writes and
  of all reads but those lost with a connection, again and again; whoever saves a
  name gets the alert or has left the screen.
- `ReadsAreAnswered`, which does not hold: the same without the exception.

The server is assumed to serve what an old connection carried before that
connection's loss is noticed, or never. The shared username itself keeps no
property: an answer to an earlier read may replace a name read later, it survives
the logout, and nothing says when it must be current.

### LevelDB

`DBWrite`. Each caller is at a label of its call; a step is what happens between
two points at which the mutex is given up. Batches are numbers of entries, groups
sequences of batches; `imm` is empty or holds the one memtable that is being
flushed; a fault makes an append, a sync, a new log, a table, a
MANIFEST record or a compaction fail once. `ThreadsAreSafe`: one thread at most
writes the log, groups are atomic and in the order of the queue, the database is
closed only at rest, nothing brings the process down. `AckedVisible`,
`SyncedDurable`: what was acknowledged is there, with sync on the disk.
`NoWriteAfterSyncError`: after a sync that failed nothing is acknowledged.
`CallsReturn`: every call returns.

`Levels`. A file is a set of entries, a level a set of files; sizes count entries.
Lookups, `PickLevelForMemTableOutput`, `PickCompaction`, `CompactRange`,
`SetupOtherInputs`, `AddBoundaryInputs`, `DoCompactionWork` with dropped entries
and split outputs, trivial moves and seek charges are there in full.
`LevelsAreOrdered`: below level 0 files do not overlap, and newer entries are
above older ones. `ReadsAreRight`: every lookup at every snapshot finds what was
written last. `ManualIsComplete`: a manual compaction that ends has moved all it
was asked for. (In the run `parts`: `LookupsAreRight`, `ManualsAreComplete`.)

`Storage` implements `KVStore`. `KVStore` says: an acknowledged write is there
until the machine fails, one made with sync for good, and one in doubt may be there
after a crash. A write is in doubt while it is under way and when it failed, until
the machine fails or the database is open again (`Open`); the death of the process
does not settle it. The record of a write that failed can be in the log without a
sync: a recovery that is itself interrupted finds it or not, and only once an open
has made it part of a table, or of the log in use, is the answer final. A write that
is acknowledged behind a failed one in the same log is found by readers and yet in
doubt (`AcknowledgeInDoubt`): see below.

`Storage` has the logs, MANIFESTs, CURRENT and tables with what of
them is on the disk, and every step of `DB::Open`, `Recover`, `LogAndApply`, flush,
compaction and `DeleteObsoleteFiles` as an action of its own, between any two of
which the process may die or the machine fail. The refinement mapping takes for
the contents what a recovery from the present disk would find, or what the
memtables and the version hold.

An append that fails leaves the `tail` of its file torn: part of the record is
there, and the writer goes on as if all of it were (`log_writer.cc:99-106`). What
is appended behind it is read or dropped, depending on bytes the model does not
have, and the reader may report damage (`log_reader.cc:222-256`), which fails an
open with `paranoid_checks`. A log in this state stays in use, since only a failed
sync sets `bg_error_`; a MANIFEST is written to once more only by a compaction that
was under way when a flush failed. `doubtful` holds the writes behind such a
failure.

Besides `ImplementsStore`: `FilesAreKept` (no file
that is needed is deleted, and the database can always be opened, unless the reader
reports damage behind a failed append), `LaterWins`
(sequence numbers never go back), `WritesSurvive`. `counts.skips` counts the logs that
a recovery passed over and the records of a MANIFEST behind a failed one; what is
said about the contents is said while it is zero. (A MANIFEST that took the record of
a compaction but lost that of the flush before it may leave out the table of the
flush, whose log is by then deleted.) `NoWriteLost` is what `options.h` says of all
writes and does not hold (`storage_torn`). Creating, renaming and deleting
a file are taken to last, as on a journaling file system.

The parts, each checked by itself in `MCParts`:

- `LogFormat` (`LogsAreRight`): bytes know the fragment they belong to, in place
  of a checksum that is taken to catch every mismatch. Only records that were
  written are read, whole and in order; after a crash exactly the complete ones; a
  torn tail is not reported; a log that is appended to loses nothing.
- `WritableFile` (`FilesAreRight`): no byte lost, doubled or out of order.
- `Table` (`TablesAreRight`): builder and readers with prefix compression, restart
  points, shortened index keys and bloom filters; a table that was finished has
  all its entries, and a damaged one never shows a wrong one. The latter rests on an
  assumption: a damaged block is unreadable, because its checksum is verified
  (`verify_checksums` or `paranoid_checks`) and catches every change.
- `SkipList` (`ReadersAreSafe`): loads and stores one at a time; a load may return
  the last value stored up to what its thread has seen or any later one. Proved for
  any keys, levels and operations.
- `Iterators` implements `Cursor` (`IteratorsAreCursors`): a merged, two-level,
  snapshot-filtered iterator that is moved in any order is a cursor over a sorted
  list.
- `LRUCache` (`CacheIsConsistent`): references, lists, hash table and charges are
  exact while threads look up, open, insert, release and evict.
- `FileLock` (in `EnvironmentIsSafe`): threads of several processes lock and unlock
  the database, a thread that has the lock may ask for it again, and any fcntl may
  fail. One thread of a process at most is past the lock table
  (`ExclusiveInProcess`); failures leave nothing behind (`NothingLeft`), except that an
  `UnlockFile` that fails keeps name, descriptor and record lock and shuts its
  process out; and two threads have the lock together only when one of their
  processes closed another descriptor of the file (`ExclusiveUntilClosed`, for
  which `dropped` remembers such closes). `env.h:142-153` promises the exclusion
  without that condition, which does not hold: the property says when it is lost.
- `ReadableFiles`, `BackgroundThread` (in `EnvironmentIsSafe`): limits kept and no
  descriptor lost; no wake-up lost, work in order.

## Runs

| run | instance | what it shows |
|---|---|---|
| `plants` | 2 accounts, 2 objects, 3 instants, 1 failure; in turn 3 titles and a reminder, a photo, or a clock that is set back | all properties of `PlantStore` and `Watering` |
| `watering_alert` | as above, 2 reminders | violated: "in 4 hours" for 18000 seconds |
| `session` | 2 users, 2 calls at once, one waiting answer; depth 6, 3 once requests overlapped; fairness | all properties of `Session` |
| `profile` | 2 users, 2 writes, 2 reads, 1 event, fairness | `ConnectionIsTended`, `AckedIsNotUndone`, `AnswersCome` |
| `lost_read` | 1 write, 2 reads, 1 event, fairness | violated: a read is answered |
| `write` | 3 threads, 3 calls; sync errors with large and small batches, other errors with flush and close, manual compactions; fairness | no acknowledged write lost, every call returns |
| `write_null` | 2 threads, sync write and manual compaction, 1 fault | violated: safe for threads |
| `levels_tombstone` | 2 keys, 3 levels, deletes and a snapshot | violated: lookups |
| `levels_manual` | 3 keys, 4 levels, 5 writes, a flush during a manual compaction | violated: files of a level do not overlap |
| `storage` | 2 writes, up to 2 crashes, 1 error, 1 compaction; five instances: killed, power, errors, reuse, lenient | `KVStore` is implemented |
| `storage_torn` | 2 writes, 1 error | violated: no write is lost when the process dies |
| `parts` | ten parts, each with its own small constants; `Levels` with 3 keys, 4 levels, 4 writes and deletes, a snapshot and seeks, or a manual compaction | as listed above |

The three regimes of `plants` are the bounds `Frequencies`, `Photos` and `AnyClock` of
`MCWatering`, one of which every state satisfies; the last has 2 instants and one
title. An instance in `MCStorage`, `MCLevels`, `MCDBWrite`, `MCLogFormat`, `MCTable` and
`MCParts` is chosen in the initial state and kept, so that one run covers several
settings without covering their product.

Why these bounds suffice. In the app every property relates at most two plants or
two users; three instants allow two plants and an edit of either in any order, and
a failed save can be followed by anything. Depth 6 is three rounds of login
and logout. Two writes to one place are what it takes to undo one with the other,
and one lost connection puts both of them on the wire twice; more events are
covered, for the connection, by the proof. Three threads give a leader, a follower
and one who is left for the next group; two crashes allow one in the recovery from
the other; four writes make two full memtables, which is two generations of files
for every pair of levels, and blocks, files and buffers are so small that records,
tables and appends cross their limits. Users, objects and requests are
interchangeable, hence the symmetry sets; the runs with liveness use none.

Deadlock is checked in the app's runs, where a process can always be launched or
killed. The others end when their bounds are used up; that nobody waits for ever
is said there by `CallsReturn`, `AnswersCome` and `EnvironmentIsSafe`.

Fairness. `session`: the main thread runs its queue and finishes its transitions,
and a request to the authentication service ends, at worst in a timeout. Nothing is
assumed of the user, of the process staying alive, or of the profile write, which
waits for a connection for as long as it takes; that is why only sign-in, and not
sign-up, is shown to be answered. `write`: a thread that can go on goes on (the
scheduler, and mutexes that are released), and so does the background thread;
nothing is assumed of the callers. `profile`: the client's queue, the main queue and
their timers run, a token is fetched in the end, a connection is made and the
server serves what it has. With the bound on events this means a network that is
stable from some time on; a client that stays interrupted (`goOffline`, or killed
by the server) is exempt.

## Findings

Seven disagreements of text and code; each but the last is shown by a run that is
expected to fail:

- `watering_alert`: the alert promises four hours for a reminder that comes after
  five (`Notifications.swift:64`).
- `lost_read`: the block of a read that was under way when the connection broke is
  never called (`FPersistentConnection.m:736`); `FIRDatabaseQuery.h` says it is
  called with a value or an error.
- `levels_tombstone`: a compaction may drop a tombstone although an entry it hides
  stays, in the next file of the same level (`version_set.cc:1409`); a deleted key
  is found again.
- `write_null`: a manual compaction that is called off by an error is still used by
  the background thread (`db_impl.cc:755`).
- `levels_manual`: a memtable that is flushed in the middle of a manual compaction
  may be put, on the level of the compaction's output, into a gap between its inputs
  (`db_impl.cc:908`, `version_set.cc:491`). The output then overlaps it, which
  `version_set.cc:724` and `:747` forbid by an abort and an assertion of debug
  builds. The run `parts` has flushes during automatic compactions only,
  whose inputs leave no gap.
- `storage_torn`: after an append to the log that failed half way the log stays in
  use, and records behind the gap, acknowledged or even synced, may be dropped by a
  recovery (`log_writer.cc:99`, `db_impl.cc:1216`); `options.h:174` says that a
  process that crashes loses no writes.
- Closing any descriptor of the lock file gives up the record lock of the process
  (`env_posix.cc:627`): a database that is opened a second time by the
  process that has it, which is refused, can then be opened by another process.
  `env.h:142-153` promises that it cannot. `ExclusiveUntilClosed` states exactly this
  condition; there is no run that fails.

Behaviours that are known, avoided by an instance's constants, and of which we found
no text in the repository that speaks of them. Each can be seen by changing the
constant:

- A flush is taken into a group of writers and so does not wait for its memtable
  (`db_impl.cc:1302`).
- The first MANIFEST is not synced before CURRENT names it (`db_impl.cc:201`;
  `FailsWhenNew`), and a reused MANIFEST may have a torn tail
  (`version_set.cc:1031`; `reuse_logs` with `PowerFails`).
- Without `paranoid_checks` a log that cannot be read is passed over
  (`db_impl.cc:394`; the instance "lenient", of which `FilesAreKept` and `LaterWins`
  still hold). With `reuse_logs` its sequence numbers may then be given again, and a
  log with a torn tail may be the one that is reused (`reuse_logs` with `MaxErrors`).

In the app, the save on entering the background is commented out
(`SceneDelegate.swift:61`), so that a change whose save failed dies with the
process; an edit saved without touching the frequency control stores the
control's first title (`EditViewController.swift:28`); reminders of deleted plants
still come (`Notifications.swift:42`); and the alert "Updated Profile" is shown by a
timer that knows nothing of the write (`SettingsViewController.swift:66`).

## Proofs

For all values of the constants that satisfy the named assumptions
(`ConstantsAssumption`, `MaxRemindersAssumption`, `SessionAssumption`,
`RealtimeDatabaseAssumption`, `ProfileAssumption`: `None` is not a user, object,
image, plant or name, bounds are natural numbers, flags Boolean). The theorems on
parts of LevelDB carry their assumption as a hypothesis, because `MCParts`
evaluates the assumptions of its ten parts, for their constants, in an ASSUME of
its own. `Storage` names its own (`StorageAssumption`, and `NoneAssumption`: `None` is no
number, set of entries or record); its theorems have the hypothesis `Options`, which
is discussed there.

`WateringProofs`, the plant store. `TypeOK` is not inductive: a new plant takes its owner from
the defaults and an edit reads the plant that was handed over. `TypeInv` adds
that whoever is past the login has a uid (`UserKnown`), and that rows and the
handed-over plant are in the context unless detached (`RowsAlive`, `PlantAlive`).
`StepIsDataStep` then shows that every step does one of six things to the plants
(nothing, fall back to the store, add, miss, edit, delete); from it follow, with
`StoreInContext` (a stored plant is in the context with the same owner), the
invariant `PlantInv` and the theorems `NothingUnsaved`, `TimestampsIdentify`,
`EditsStayLocal` (for any clock), `EditsAreKept`, `OwnersStay`,
`DeletionsAreImmediate`. `CrashesHaveACause` needs that objects are detached only
after a failure (`FailuresExplain`), `TableFollows` that rows are detached only by
a reset (`DetachedKnown`).

`WateringProofs`, reminders. Every title has an interval, so every typed plant has;
`RemindersHaveIntervals`, `WateringTypes` and `WateringNeverTraps` follow from the
invariant of `PlantStore`, which watering preserves because its alert stands over
the detail screen. `AlertsKeepTheirPlant` adds that what a row or the detail screen
shows is the owner's (`OwnedInv`).

`SessionProofs`. `AccountInv` (answers under way are for existing accounts)
gives `OwnersHaveAccounts` and `KeychainHoldsCurrentUser`, with any overlap;
`FormsAreConsistent` needs nothing else. Until a tap overlaps a request, `PatientInv`
says where the single request is: with the service, in the main queue, or as a profile
write, the login screen that made it still on top and Firebase's user already the
one it is for. It gives `MemoriesAgree`. `TablesMeanLoggedIn`, with any overlap, is
about who may present what: `StackInv` adds that every request, queued completion and
profile write was made from a login screen, so that its table comes on top of one, in
the step that raises the flag; a logout lowers the flag in the step that puts a login
screen on top of the table.

`DataLemmas`. The library states induction for a predicate, which the provers
cannot instantiate; for a set they can. `LeastNatural` comes from the library's
theorem on well-founded relations, `InductionOnSets` from it, and `RecursionExists`
builds, by that induction, the function that a recursive definition on an interval
chooses. With it what the sums of `DBWrite` and `GetRequests` compute is proved for
every length (`SumsAre`, `SumsGrow` and the like). This works for recursion along a
sequence, not for RECURSIVE operators.

`ProfileProofs`. `ConnectionIsTended` is inductive as it stands: each of its parts
is what the others need when a token comes late or a timer is called off.
`ProfileTypes` is an induction of its own. `AckedNotUndone` says that a write the
server has applied is never replaced by an older one after the newer was
acknowledged, for any number of writes, lost connections and repetitions. The
invariant is `WireInv`, about the requests and answers of the present connection
read as one sequence, the answers first (`Pipe`):

- `WritesInOrder`: writes on the wire, and outstanding ones, have ascending numbers up
  to the counter, each above what was acknowledged for its place;
- `AnswersAreTrue`: a write whose answer says "done" was applied, so the server holds
  it or a later one;
- `RestoredOnce`: while the client authenticates, the request for it heads the wire
  and no write is on it; once connected, every outstanding write is on the wire.

Without the second part an answer could acknowledge more than the server has.
Without the third, `restoreState` could send a write beside itself, and a write
made before could follow one made later.

`DBWriteProofs`. All safety properties of the write path, for any threads, calls,
batch sizes, limits and faults. The inductive invariant `WriteInv` is `TypeOK` with
`ManualInv`, `CloseInv` and `Core`, which has seven parts:

- `QueueInv`: whoever waits for a turn is in the queue, once, and only its head leads;
- `BatchInv`: the queue holds writes and flushes in the order of their calls, all
  made after what was acknowledged;
- `GroupInv`: while somebody writes the log, the group is a prefix of the queue, and
  none of it wants a sync that its leader does not make;
- `MemInv`: the memtable holds acknowledged entries and, once the leader has
  written, those of its group;
- `AckedInv`: acknowledged writes are visible, in order, and at or below the last
  sequence number;
- `DurableInv`: a sync write is on the disk from the moment its leader has written it,
  before its own thread wakes up;
- `SyncInv`: a failed sync is known to the thread that met it, or to all, and then
  nobody is writing.

A group is written without the mutex while others queue up, so each of the visible
properties depends on what the leader knew before: that is why `GroupInv` and
`MemInv` are needed. Most steps are taken beside a writer and leave what these
parts speak of alone; `Bystander` says so once. From `WriteInv` follow
`WritesStayVisible`, `SyncsAreDurable`, `GroupsAreExclusive`, `QueueIsOrder`,
`GroupsAreAtomic`, `CloseIsLast` and the action property `SyncErrorIsFinal`.
`ThreadsAreSafe` as a whole does not hold (finding `write_null`): it is proved as long
as the process lives (`ThreadsSafeWhileAlive`), and without condition where no manual
compaction is asked for (`ThreadsAreSafeHere`, with `"compact" \notin Ops`); nothing
outside LevelDB and its C binding calls `CompactRange`.

`EnvironmentProofs`. `LockInv`: the lock table knows every thread that is past it and
every process whose unlock failed, table entries and record lock belong to somebody,
and a thread with a `FileLock` has the record lock unless its process closed a
descriptor since. The last part is what `ProcessesExcludeEachOther` states, without
an assumption on how many threads use the lock. `FilesInv`: what a counter
lacks is the number of threads at the places that have taken from it.
`ScheduleInv`: who owns the mutex, which items are done, running and waiting, and
that a sleeping thread's queue is empty or its signal on the way. From all three
follows `EnvironmentIsSafe` (`EnvironmentStaysSafe`), which `MCParts` checks of each
part in its turn.

For buffered files `FileInv` speaks of `Kept`, the file followed by the buffer: its
bytes rise and none is newer than the last one given; while no call has failed it has
as many bytes as were given, and byte `i` is number `i`. Every operation, with every
outcome of every write, keeps a prefix of what was kept followed by what is given
now (`KeepsPrefix`), and all of it if nothing fails: from that alone
`GrowthKeeps` concludes. `Appended` shows it for the three ways an append can go,
`Flushed` for Flush, Sync and Close. Assumed is only that the buffer has room for a
byte; the bounds on appends and files play no part.

`SkipListProofs`. `MemInv` is stated over the log of stores, so that it speaks of every
moment a slow reader may still be reading from and not only of the last value of each
link:

- `Sorted` and `Initialised`: a link leads to a greater key, and to a node whose links
  on that level and all below were set by earlier stores, after it was put on the
  level below;
- `Tight` and `HeadTight`: no link passes over a key of its level. If store `j` puts a
  key between a node and the node that store `i` made it lead to, then `i` is the
  earlier one and by `j` the link has been set again;
- `Published`, `KeysKnown` and `WriterInv`: nodes with links are on the list, except
  the one that is being linked; its neighbours on the levels to come are the right ones;
- `ReaderInv`: the reader stands before its target on a node whose links, on its level
  and below, are among what it has acquired.

`Tight` alone would not do: that the writer's new link passes over nothing rests on
where `FindGreaterOrEqual` stops, for which `PrevFound` goes along the list by induction
from its end; and that a load of any permitted store is right (`ReadLeads`) rests on
`Tight` being about pairs of stores. From `MemInv` follow `NoGarbageIsRead`,
`SearchesAreRight`, and, with one more induction along the list (`LevelIs`),
`ListIsWellLinked`; together they are `ReadersAreSafe` (`ReadersStaySafe`).

`StorageProofs`, about the invariants in `StorageInvariants`. All four properties of `Storage`, for any number of writes, crashes,
errors and compactions, any size of the memtable and any options that satisfy
`Options`. That hypothesis excludes the behaviours listed above as known: a
power failure before the first MANIFEST is synced, a power failure with `reuse_logs`,
and failing files with `reuse_logs`. Each is needed: without it TLC finds a
database that cannot be opened, a lost write, or a sequence number given twice.

The first invariant, `DiskInv`, is about files. A power failure may cut a MANIFEST
anywhere after what was synced, so what counts is not what it says but every state
that a recovery may read from it (`Reads`; `Latest` is all of it). `ReadsInv`: each of
them names a log and tables that are there, and file numbers below the next.
`VersionInv` and `SettledInv`: while no error has happened the latest one is the
version in memory, but for the record that `LogAndApply` is writing, and when that is
installed it is the only one. This is why files may be deleted then, and why
`DeleteObsoleteFiles` must not delete after an error. `FlushInv`, `CompactionInv` and
`PinnedInv` say what flushes, compactions and iterators rely on; `FreshInv` follows the
MANIFEST that CURRENT does not name yet. `ReadManifest` is a recursive function, so
what it makes of one more record is proved with `RecursionExists` of `DataLemmas`.
`TailInv` goes with it and says where an append may have failed: in no file that is
reused, in neither file that an open is about to install, and in the MANIFEST in use
only once the background error is set; and when the log in use has a torn tail, a
write other than the one under way is in doubt, behind which `KVStore` lets the next
one be acknowledged in doubt. `DiskInvariant`, which is both, and `FilesKept` follow.

The second, `ContentsInv`, is about entries, given the first. For a reading `s`,
`Found(s)` is what a recovery would find, `Kept(s)` what of it is synced.

- `SourceInv`: a new table holds what its log, its memtable or the inputs of the
  compaction hold, while `counts.skips` is zero;
- `SequenceInv` and `OrderInv`: what any reading, memtable or log in use holds is
  numbered at most by the counter that goes with it, and ordered as the writes were
  made. It takes all readings, not only the latest, and the write under way, since
  any of them may be what the next recovery starts from;
- `PromiseInv`: in every reading all of `durable` is kept, and nothing is found that is
  neither stored nor in doubt; what was acknowledged is stored;
- `RecoveredInv`: a log that was recovered is in the tables to be added, or is reused;
- `ServedInv`: the version is in every reading and, but for what is in doubt, the
  memtable in its log, the memtable
  that is flushed in the logs from which a recovery starts, synced entries in what
  is synced of them, and the logs have nothing else but what is in doubt;
- `WritingInv`: how far the write under way is in the log, if no append to that log
  has failed.

The last four are claimed only while no log was passed over and no MANIFEST record is
behind a failed one. Each action either
leaves `Contents` alone or is a step of `KVStore` (`StoreStep`): the death of the
process adds what is in doubt and in the logs, which `ServedInv` and `PromiseInv`
bound from both sides; a power failure leaves one reading, with for each log at
least what was synced. From `ContentsInvariant` follow `LaterWinsAlways`,
`WritesSurviveAlways` and, step by step, the refinement `StorageImplementsStore`.

Only model-checked. Liveness, which is beyond the prover: `SignInAnswered`,
`CallsReturn`, `AnswersCome`. `IteratorsAreCursors` and `TablesAreRight`, whose modules
have RECURSIVE operators. And, not yet proved: `LevelsAreOrdered`, `LookupsAreRight` and
`ManualsAreComplete`, `LogsAreRight` and `CacheIsConsistent`.

## Not modelled

In the app: layout, colours, cell outlets, spinner, logging; Core Data's own set-up,
whose errors end in `fatalError` before any screen appears; code that is never
called (`CoreDataStack.container`, `save`, `delete`,
`PlantDetailViewController.deletePlant` and `notificationSetUp`,
`PlantFirebaseController.createUser`, `PlantController`); the notification
permission; a kill between two statements of one handler.

In the database client: listeners, transactions, onDisconnect operations,
`purgeOutstandingWrites` and persistence, none of which the app uses. LevelDB is
there for that persistence (`FLevelDBStorageEngine.m`, `APLevelDB.mm`), which the
app does not turn on: it is modelled as the library it is.

In LevelDB: `DestroyDB`, which deletes the lock file after unlocking it, `repair.cc`, the C binding `c.cc`, `dumpfile.cc`, loggers,
histograms and test helpers, compression, the arena, varints, checksums and the bytes
of headers and footers, and `CURRENT`'s temporary file.

Of the other pods (Firebase Core, Auth, Analytics, Installations,
GoogleDataTransport, GTMSessionFetcher, nanopb, PromisesObjC) only what the app sees
of Auth is modelled, in `Session`. Counted as C and C++, the repository is mostly
Objective-C headers, which declare and do nothing. What is C or C++ and has
behaviour is LevelDB and nanopb, about 20,000 of 49,000 lines with comments;
the models cover the state-changing parts of LevelDB. nanopb encodes and
decodes messages of the analytics and logging pods, keeps no state between calls and
has no concurrency: its subject is bytes, which these models leave out. Most of the
app itself is Swift and Objective-C and is mapped as such.

## Where it could go on

1. `App`: `Session` and `PlantStore` together, with the uid they share; `Login`,
   `LateSignUp` and `Logout` of `PlantStore` then become steps of `Session`, and
   each half a refinement of its module.
2. Proofs for `LRUCache` and `Levels`.
3. `Storage` with `Levels` in it instead of a plain set of tables.
