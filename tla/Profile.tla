------------------------------- MODULE Profile --------------------------------
(***************************************************************************)
(* The name of the user: PlantFirebaseController's shared username, the    *)
(* settings screen that shows and changes it, and the database client that *)
(* reads and writes it.  A place of the database is a user's name.  Who is *)
(* signed in is the concern of Session; here a table simply appears for    *)
(* the stored uid, with Firebase's user or, when its keychain could not be *)
(* read, without.                                                          *)
(***************************************************************************)
EXTENDS RealtimeDatabase

CONSTANTS
  Users,        \* the accounts
  LongNames     \* names of more than three letters; None is any other text

ASSUME ProfileAssumption ==
  /\ Paths = Users /\ Values = LongNames
  /\ None \notin Users \cup LongNames

VARIABLES
  uid,          \* UserDefaults
  currentUser,  \* Auth.auth().currentUser
  username,     \* PlantFirebaseController.shared.username
  screen,       \* what the user sees: "start", "table", "settings" or "login"
  field,        \* usernameTextField.text on the settings screen
  saveEnabled,  \* saveButton.isEnabled
  operations,   \* the main queue: names to save, with their settings screen
  timers,       \* three seconds each: TRUE when their screen is still up
  alert         \* the alert "Success"

app == <<uid, currentUser, username, screen, field, saveEnabled, operations, timers, alert>>
form == <<field, saveEnabled>>
pvars == <<dbvars, app>>

Names == LongNames \cup {None}

PInit ==
  /\ DBInit
  /\ uid = None
  /\ currentUser = None
  /\ username = None
  /\ screen = "start"
  /\ field = None
  /\ saveEnabled = FALSE
  /\ operations = <<>>
  /\ timers = <<>>
  /\ alert = FALSE

-------------------------------------------------------------------------------
(* PlantFirebaseController. *)

PendingAt(path) == {i \in DOMAIN outstandingPuts : outstandingPuts[i].path = path}
LastPending(path) ==
  outstandingPuts[CHOOSE i \in PendingAt(path) : \A j \in PendingAt(path) : j <= i]

(* getUsername for the uid, with FRepo's getData: a write under way answers
   at once, anything else is asked of the server. *)
getUsername(user) ==
  \/ /\ PendingAt(user) # {}
     /\ username' = LastPending(user).value
     /\ UNCHANGED dbvars
  \/ /\ PendingAt(user) = {}
     /\ getDataAtPath(user)
     /\ UNCHANGED username

(* The block of getUsername, on the client's queue: an error and a place
   without data leave the name as it is. *)
UsernameArrives ==
  /\ GetAnswered
  /\ username' = IF Head(down).ok /\ Head(down).value # None
                 THEN Head(down).value ELSE username
  /\ UNCHANGED <<uid, currentUser, screen, form, operations, timers, alert>>

(* updateUsername does nothing without a user. *)
updateUsername(name) ==
  IF currentUser = None THEN UNCHANGED dbvars ELSE mergeData(currentUser, name)

-------------------------------------------------------------------------------
(* Screens. *)

(* A settings screen that is left stays alive as long as its timers do, but
   it cannot present anything. *)
Leave ==
  /\ operations' = [i \in DOMAIN operations |-> [operations[i] EXCEPT !.visible = FALSE]]
  /\ timers' = [i \in DOMAIN timers |-> FALSE]

(* Reads that are sure to come, for the bound. *)
Coming == Len(operations) + Len(timers)

(* The table's viewDidLoad, at a start or in the completion of a sign-in,
   which is behind the operations on the main queue. *)
viewDidLoad(user) ==
  /\ screen \in {"start", "login"}
  /\ operations = <<>>
  /\ getCounter + Coming < MaxGets
  /\ uid' = user
  /\ currentUser' \in IF screen = "start" THEN {user, None} ELSE {user}
  /\ screen' = "table"
  /\ getUsername(user)
  /\ UNCHANGED <<form, operations, timers, alert>>

(* SettingsViewController's viewDidLoad and updateViews.  UIKit may report
   the new text as a change of the selection. *)
openSettings ==
  /\ screen = "table"
  /\ screen' = "settings"
  /\ field' = username
  /\ saveEnabled' \in {FALSE} \cup {(username \in LongNames)}
  /\ UNCHANGED <<dbvars, uid, currentUser, username, operations, timers, alert>>

textFieldDidChangeSelection ==
  /\ screen = "settings" /\ ~alert
  /\ field' \in Names
  /\ saveEnabled' = (field' \in LongNames)
  /\ UNCHANGED <<dbvars, uid, currentUser, username, screen, operations, timers, alert>>

saveChangesButtonTapped ==
  /\ screen = "settings" /\ ~alert /\ saveEnabled
  /\ field # None
  /\ putCounter + Len(operations) < MaxPuts
  /\ getCounter + Coming < MaxGets
  /\ operations' = Append(operations, [name |-> field, visible |-> TRUE])
  /\ UNCHANGED <<dbvars, uid, currentUser, username, screen, form, timers, alert>>

(* firebaseOp on the main queue. *)
firebaseOp ==
  /\ operations # <<>>
  /\ operations' = Tail(operations)
  /\ updateUsername(Head(operations).name)
  /\ timers' = Append(timers, Head(operations).visible)
  /\ UNCHANGED <<uid, currentUser, username, screen, form, alert>>

(* Three seconds later: the name is read again, and the alert comes if the
   screen can present it. *)
TimerFires ==
  /\ timers # <<>>
  /\ timers' = Tail(timers)
  /\ getUsername(uid)
  /\ alert' = (alert \/ Head(timers))
  /\ UNCHANGED <<uid, currentUser, screen, form, operations>>

alertOk ==
  /\ alert
  /\ alert' = FALSE
  /\ UNCHANGED <<dbvars, uid, currentUser, username, screen, form, operations, timers>>

Back ==
  /\ screen = "settings" /\ ~alert
  /\ screen' = "table"
  /\ Leave
  /\ field' = None
  /\ saveEnabled' = FALSE
  /\ UNCHANGED <<dbvars, uid, currentUser, username, alert>>

(* logoutButtonTapped, with the signOut that ends its presentation; it may
   fail.  uid and username stay. *)
logoutButtonTapped ==
  /\ screen = "settings" /\ ~alert
  /\ screen' = "login"
  /\ currentUser' \in {None, currentUser}
  /\ Leave
  /\ field' = None
  /\ saveEnabled' = FALSE
  /\ UNCHANGED <<dbvars, uid, username, alert>>

-------------------------------------------------------------------------------
App ==
  \/ \E user \in Users : viewDidLoad(user)
  \/ openSettings \/ textFieldDidChangeSelection \/ saveChangesButtonTapped \/ firebaseOp
  \/ TimerFires \/ alertOk \/ Back \/ logoutButtonTapped

PNext == App \/ UsernameArrives \/ (Internal /\ UNCHANGED app)

(* The client's queue and the main queue run their blocks and their timers,
   a token is fetched in the end, a connection is made, and the server serves
   what it has read. *)
Fairness ==
  /\ WF_pvars(open /\ UNCHANGED app) /\ WF_pvars(RetryFires /\ UNCHANGED app)
  /\ WF_pvars(TokenFetched /\ UNCHANGED app) /\ WF_pvars(onReady /\ UNCHANGED app)
  /\ WF_pvars(GetTimeout /\ UNCHANGED app) /\ WF_pvars(Serve /\ UNCHANGED app)
  /\ WF_pvars(AuthAnswered /\ UNCHANGED app) /\ WF_pvars(PutAnswered /\ UNCHANGED app)
  /\ WF_pvars(UsernameArrives) /\ WF_pvars(firebaseOp) /\ WF_pvars(TimerFires)

PSpec == PInit /\ [][PNext]_pvars /\ Fairness

-------------------------------------------------------------------------------
(* Properties. *)

(* Nothing waits for ever: the client answers all it is asked, as far as
   RequestsAreAnswered goes, and whether it does or not, whoever saves a name
   gets the alert or has left the screen. *)
Saving == \E i \in DOMAIN operations : operations[i].visible
AnswersCome ==
  /\ RequestsAreAnswered
  /\ Saving ~> (alert \/ screen # "settings")
===============================================================================
