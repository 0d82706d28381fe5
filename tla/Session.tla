------------------------------- MODULE Session --------------------------------
(***************************************************************************)
(* Who is signed in: LoginViewController, the logout of                    *)
(* SettingsViewController and the first screen SceneDelegate picks.  Three *)
(* places remember the user: Firebase's current user (with its keychain    *)
(* copy), the app's UserDefaults (isUserLoggedIn and uid), and each table  *)
(* on screen (its owner).  Nothing disables the buttons while a request is *)
(* under way; presented controllers pile up, and none is ever dismissed.   *)
(***************************************************************************)
EXTENDS Integers, Sequences

CONSTANTS
  Users,       \* accounts, existing or not: one email and one uid each
  Calls,       \* bound: authentication requests in flight at the same time
  None,        \* nil
  MaxWaiting,  \* bound: completions and writes waiting when a request is made
  MaxDepth     \* bound: controllers presented over each other

Kinds == {"login", "plants"}
Screen == [kind : Kinds, owner : Users \cup {None}]
LoginScreen == [kind |-> "login", owner |-> None]
PlantsScreen(u) == [kind |-> "plants", owner |-> u]

(* A request, with the position of the login screen that made it. *)
Call == [kind : {"signIn", "signUp"}, user : Users, at : Nat]

(* A profile write, and a block on the main queue. *)
Put == [user : Users, at : Nat]
Block == [kind : {"signedIn", "signedUp", "profileWritten", "failed"},
          user : Users, at : Nat]

ASSUME SessionAssumption ==
  /\ None \notin Users
  /\ None \notin Call
  /\ MaxWaiting \in Nat
  /\ MaxDepth \in Nat

VARIABLES
  accounts,        \* the accounts of the authentication service
  profiles,        \* the users with a node under users/ in the database
  keychain,        \* the user Firebase has saved on the device
  isUserLoggedIn,  \* UserDefaults
  uid,             \* UserDefaults
  running,         \* the process is alive
  currentUser,     \* Auth.auth().currentUser
  screens,         \* the presented controllers, the last one on top
  form,            \* the login form on top: its button, its username field
  alert,           \* an error alert is up
  calls,           \* requests in flight to the authentication service
  mainQueue,       \* completions waiting for the main thread, in order
  puts,            \* profile writes not yet acknowledged, in order
  loggingOut,      \* the login screen of a logout is still being presented
  overlapped       \* the user has tapped while a request was under way

server == <<accounts, profiles>>
defaults == <<isUserLoggedIn, uid>>
auth == <<keychain, currentUser>>
ui == <<screens, form, alert>>
vars == <<accounts, profiles, keychain, isUserLoggedIn, uid, running,
          currentUser, screens, form, alert, calls, mainQueue, puts, loggingOut,
          overlapped>>

Forms == [button : {"Login", "Sign Up"}, usernameHidden : BOOLEAN]
NewForm == [button |-> "Login", usernameHidden |-> TRUE]

TypeOK ==
  /\ accounts \in SUBSET Users
  /\ profiles \in SUBSET Users
  /\ keychain \in Users \cup {None}
  /\ isUserLoggedIn \in BOOLEAN
  /\ uid \in Users \cup {None}
  /\ running \in BOOLEAN
  /\ currentUser \in Users \cup {None}
  /\ screens \in Seq(Screen)
  /\ form \in Forms
  /\ alert \in BOOLEAN
  /\ calls \in [Calls -> Call \cup {None}]
  /\ mainQueue \in Seq(Block)
  /\ puts \in Seq(Put)
  /\ loggingOut \in BOOLEAN
  /\ overlapped \in BOOLEAN

(* A new installation.  Others may have accounts, and the keychain may hold
   a user from an earlier installation. *)
Init ==
  /\ accounts \in SUBSET Users
  /\ profiles = accounts
  /\ keychain \in accounts \cup {None}
  /\ isUserLoggedIn = FALSE
  /\ uid = None
  /\ running = FALSE
  /\ currentUser = None
  /\ screens = <<>>
  /\ form = NewForm
  /\ alert = FALSE
  /\ calls = [c \in Calls |-> None]
  /\ mainQueue = <<>>
  /\ puts = <<>>
  /\ loggingOut = FALSE
  /\ overlapped = FALSE

-------------------------------------------------------------------------------
(* The process. *)

Quiet == calls = [c \in Calls |-> None] /\ mainQueue = <<>> /\ puts = <<>>

(* FIRAuth reads its user from the keychain, which may fail; the scene shows
   the table of the stored uid if the flag is set, else the login screen. *)
Launch ==
  /\ ~running
  /\ running' = TRUE
  /\ currentUser' \in {keychain, None}
  /\ screens' = IF isUserLoggedIn THEN <<PlantsScreen(uid)>> ELSE <<LoginScreen>>
  /\ form' = NewForm
  /\ UNCHANGED <<server, keychain, defaults, alert, calls, mainQueue, puts,
                 loggingOut, overlapped>>

(* The process ends.  Requests and writes under way may still reach the
   service (writes in their order), but nobody hears the answer. *)
Kill ==
  /\ running
  /\ running' = FALSE
  /\ currentUser' = None
  /\ screens' = <<>>
  /\ form' = NewForm
  /\ alert' = FALSE
  /\ calls' = [c \in Calls |-> None]
  /\ mainQueue' = <<>>
  /\ puts' = <<>>
  /\ loggingOut' = FALSE
  /\ \E reached \in SUBSET {c \in Calls : calls[c] # None /\ calls[c].kind = "signUp"} :
       accounts' = accounts \cup {calls[c].user : c \in reached}
  /\ \E n \in 0..Len(puts) : profiles' = profiles \cup {puts[i].user : i \in 1..n}
  /\ UNCHANGED <<keychain, defaults, overlapped>>

-------------------------------------------------------------------------------
(* The login screen. *)

Top == screens[Len(screens)]

(* UIKit drops a presentation by a controller that already presents another
   controller or an alert. *)
CanPresent(at) == at = Len(screens) /\ ~alert

presentAlert(at) == alert' = (alert \/ CanPresent(at))

(* Touches reach the top screen, when no alert and no transition is up. *)
CanTap(kind) ==
  /\ running /\ ~alert /\ ~loggingOut
  /\ screens # <<>> /\ Top.kind = kind

(* Two slips to rule out: a title that the button's handler does not know,
   and a username field that stays when the user goes back to "Login". *)
loginSegmentChangedTypo ==
  /\ CanTap("login")
  /\ form' = [button |-> "SignUp", usernameHidden |-> FALSE]
  /\ UNCHANGED <<server, auth, defaults, running, screens, alert, calls,
                 mainQueue, puts, loggingOut, overlapped>>
loginSegmentChangedSticky ==
  /\ CanTap("login")
  /\ form' = IF form.button = "Login"
             THEN [button |-> "Sign Up", usernameHidden |-> FALSE]
             ELSE [form EXCEPT !.button = "Login"]
  /\ UNCHANGED <<server, auth, defaults, running, screens, alert, calls,
                 mainQueue, puts, loggingOut, overlapped>>

loginSegmentChanged ==
  /\ CanTap("login")
  /\ form' = IF form.button = "Login"
             THEN [button |-> "Sign Up", usernameHidden |-> FALSE]
             ELSE [button |-> "Login", usernameHidden |-> ~form.usernameHidden]
  /\ UNCHANGED <<server, auth, defaults, running, screens, alert, calls,
                 mainQueue, puts, loggingOut, overlapped>>

(* loginSignUpButtonTapped with a missing field. *)
TapIncomplete ==
  /\ CanTap("login")
  /\ overlapped' = (overlapped \/ ~Quiet)
  /\ presentAlert(Len(screens))
  /\ UNCHANGED <<server, auth, defaults, running, screens, form, calls,
                 mainQueue, puts, loggingOut>>

(* loginSignUpButtonTapped with every field filled in, by user u; a sign-up
   needs the username field. *)
loginSignUpButtonTapped(u) ==
  /\ CanTap("login")
  /\ overlapped' = (overlapped \/ ~Quiet)
  /\ form.button = "Sign Up" => ~form.usernameHidden
  /\ Len(mainQueue) + Len(puts) <= MaxWaiting
  /\ \E c \in Calls :
       /\ calls[c] = None
       /\ calls' = [calls EXCEPT ![c] =
            [kind |-> IF form.button = "Sign Up" THEN "signUp" ELSE "signIn",
             user |-> u, at |-> Len(screens)]]
  /\ UNCHANGED <<server, auth, defaults, running, ui, mainQueue, puts, loggingOut>>

DismissAlert ==
  /\ running /\ alert
  /\ alert' = FALSE
  /\ UNCHANGED <<server, auth, defaults, running, screens, form, calls,
                 mainQueue, puts, loggingOut, overlapped>>

-------------------------------------------------------------------------------
(* Firebase Auth and the database answer. *)

Enqueue(kind, call) ==
  mainQueue' = Append(mainQueue, [kind |-> kind, user |-> call.user, at |-> call.at])

(* A granted request: on its work queue FIRAuth saves the user, makes it the
   current one and only then queues the completion on the main thread. *)
AuthGranted(c) ==
  LET call == calls[c] IN
  /\ running /\ call # None
  /\ \/ /\ call.kind = "signIn" /\ call.user \in accounts
        /\ Enqueue("signedIn", call)
        /\ UNCHANGED accounts
     \/ /\ call.kind = "signUp" /\ call.user \notin accounts
        /\ Enqueue("signedUp", call)
        /\ accounts' = accounts \cup {call.user}
  /\ keychain' = call.user
  /\ currentUser' = call.user
  /\ calls' = [calls EXCEPT ![c] = None]
  /\ UNCHANGED <<profiles, defaults, running, ui, puts, loggingOut, overlapped>>

(* A request that ends in an error: refused, or the network or the keychain
   failed, the latter two perhaps after the account was created. *)
AuthFailed(c) ==
  LET call == calls[c] IN
  /\ running /\ call # None
  /\ \/ UNCHANGED accounts
     \/ call.kind = "signUp" /\ accounts' = accounts \cup {call.user}
  /\ Enqueue("failed", call)
  /\ calls' = [calls EXCEPT ![c] = None]
  /\ UNCHANGED <<profiles, auth, defaults, running, ui, puts, loggingOut,
                 overlapped>>

(* The first outstanding profile write is applied and acknowledged, or
   refused; the handler ignores a refusal. *)
PutAnswered ==
  /\ running /\ puts # <<>>
  /\ \/ /\ profiles' = profiles \cup {Head(puts).user}
        /\ Enqueue("profileWritten", Head(puts))
     \/ UNCHANGED <<profiles, mainQueue>>
  /\ puts' = Tail(puts)
  /\ UNCHANGED <<accounts, auth, defaults, running, ui, calls, loggingOut,
                 overlapped>>

-------------------------------------------------------------------------------
(* The completions, in the order they were queued on the main thread. *)

(* A slip to rule out: the uid is stored and the table shown, the flag is not set. *)
SignedInUnmarked(u, at) ==
  /\ uid' = u
  /\ screens' = IF CanPresent(at) THEN Append(screens, PlantsScreen(u)) ELSE screens
  /\ UNCHANGED isUserLoggedIn

(* Lines common to both completions: set the defaults, present the table. *)
SignedIn(u, at) ==
  /\ isUserLoggedIn' = TRUE
  /\ uid' = u
  /\ screens' = IF CanPresent(at) THEN Append(screens, PlantsScreen(u)) ELSE screens

Dequeue(kinds) ==
  /\ running /\ mainQueue # <<>>
  /\ Head(mainQueue).kind \in kinds
  /\ mainQueue' = Tail(mainQueue)

(* signIn's completion, and that of a sign-up's profile write. *)
CompleteSignIn ==
  /\ Dequeue({"signedIn", "profileWritten"})
  /\ SignedIn(Head(mainQueue).user, Head(mainQueue).at)
  /\ UNCHANGED <<server, auth, running, form, alert, calls, puts, loggingOut,
                 overlapped>>

(* createUser's completion: write the profile. *)
CompleteSignUp ==
  /\ Dequeue({"signedUp"})
  /\ puts' = Append(puts, [user |-> Head(mainQueue).user, at |-> Head(mainQueue).at])
  /\ UNCHANGED <<server, auth, defaults, running, ui, calls, loggingOut,
                 overlapped>>

(* Two slips to rule out: an error that does not end the handler, and one
   that is not shown. *)
CompleteFailedGoesOn ==
  /\ Dequeue({"failed"})
  /\ SignedIn(Head(mainQueue).user, Head(mainQueue).at)
  /\ UNCHANGED <<server, auth, running, form, alert, calls, puts, loggingOut,
                 overlapped>>
CompleteFailedSilently ==
  /\ Dequeue({"failed"})
  /\ UNCHANGED <<server, auth, defaults, running, ui, calls, puts, loggingOut,
                 overlapped>>

(* An error: the alert. *)
CompleteFailed ==
  /\ Dequeue({"failed"})
  /\ presentAlert(Head(mainQueue).at)
  /\ UNCHANGED <<server, auth, defaults, running, screens, form, calls, puts,
                 loggingOut, overlapped>>

-------------------------------------------------------------------------------
(* Logging out. *)

(* A slip to rule out: the flag is left set. *)
logoutButtonTappedFlagKept ==
  /\ CanTap("plants")
  /\ Len(screens) < MaxDepth
  /\ screens' = Append(screens, LoginScreen)
  /\ form' = NewForm
  /\ loggingOut' = TRUE
  /\ UNCHANGED <<server, auth, defaults, running, alert, calls, mainQueue, puts,
                 overlapped>>

(* logoutButtonTapped: the flag falls at once, a new login screen is
   presented, and signOut waits for the end of the presentation. *)
logoutButtonTapped ==
  /\ CanTap("plants")
  /\ Len(screens) < MaxDepth
  /\ isUserLoggedIn' = FALSE
  /\ screens' = Append(screens, LoginScreen)
  /\ form' = NewForm
  /\ loggingOut' = TRUE
  /\ UNCHANGED <<server, auth, uid, running, alert, calls, mainQueue, puts,
                 overlapped>>

(* A slip to rule out: the keychain is emptied, the user in memory stays. *)
LogoutPresentedHalf ==
  /\ running /\ loggingOut
  /\ loggingOut' = FALSE
  /\ keychain' = None
  /\ UNCHANGED <<server, currentUser, defaults, running, ui, calls, mainQueue,
                 puts, overlapped>>

(* signOut does nothing without a current user, and fails with the keychain. *)
LogoutPresented ==
  /\ running /\ loggingOut
  /\ loggingOut' = FALSE
  /\ \/ currentUser # None /\ currentUser' = None /\ keychain' = None
     \/ UNCHANGED auth
  /\ UNCHANGED <<server, defaults, running, ui, calls, mainQueue, puts,
                 overlapped>>

-------------------------------------------------------------------------------
Completion == CompleteSignIn \/ CompleteSignUp \/ CompleteFailed

Next ==
  \/ Launch \/ Kill
  \/ loginSegmentChanged \/ TapIncomplete \/ DismissAlert
  \/ \E u \in Users : loginSignUpButtonTapped(u)
  \/ \E c \in Calls : AuthGranted(c) \/ AuthFailed(c)
  \/ PutAnswered \/ Completion
  \/ logoutButtonTapped \/ LogoutPresented

(* The main thread runs its queue and ends its transitions, and a request to
   the authentication service ends, if only with a timeout.  A profile write
   waits for a connection, for ever if need be; the user owes nothing. *)
Fairness ==
  /\ WF_vars(Completion)
  /\ WF_vars(LogoutPresented)
  /\ \A c \in Calls : WF_vars(AuthGranted(c) \/ AuthFailed(c))

Spec == Init /\ [][Next]_vars
FairSpec == Spec /\ Fairness

-------------------------------------------------------------------------------
(* Properties. *)

(* However requests, late answers, logouts and restarts overlap, the stored
   uid and every table on screen belong to an account that exists, and so
   does the user Firebase keeps. *)
OwnerHasAccount ==
  /\ isUserLoggedIn => uid \in accounts
  /\ uid # None => uid \in accounts
  /\ \A i \in DOMAIN screens : screens[i].kind = "plants" => screens[i].owner \in accounts
  /\ {keychain, currentUser} \subseteq accounts \cup {None}

(* Firebase's user in memory is the one it would find at the next launch. *)
KeychainFollows == currentUser # None => keychain = currentUser

(* Until a tap overlaps a request, the three memories of who is signed in
   agree whenever the app counts its user as logged in: through failed
   sign-ups, interrupted logouts and kills at any point. *)
Agreement ==
  ~overlapped /\ isUserLoggedIn =>
    /\ uid # None /\ keychain = uid
    /\ running => /\ currentUser \in {uid, None}
                  /\ Top = PlantsScreen(uid)

(* However requests overlap, whoever sees a table counts as logged in, so that
   the next launch shows it again: no logout, failed request or late answer
   leaves a table on top with the flag down.  And no answer puts a table over
   another table: login screens and tables take turns.  (The converse fails: a
   late profile acknowledgement sets the flag again behind a login screen.) *)
TableMeansLoggedIn ==
  /\ running => screens # <<>> /\ (Top.kind = "plants" => isUserLoggedIn /\ uid # None)
  /\ \A i \in DOMAIN screens : i > 1 => screens[i].kind # screens[i - 1].kind

(* The button says "Sign Up" exactly while the username field shows, although
   one branch of loginSegmentChanged sets the field and the other toggles it. *)
UsernameWhenSigningUp == form.button = "Sign Up" <=> ~form.usernameHidden

(* Every sign-in of a user who waits for the answer ends where the user can
   see it: in an alert, on the table, or with the app gone. *)
SigningIn == \E c \in Calls : calls[c] # None /\ calls[c].kind = "signIn"
SignInAnswered ==
  SigningIn ~> (~running \/ alert \/ Top.kind = "plants" \/ overlapped)

===============================================================================
