----------------------------- MODULE SessionProofs ----------------------------
(***************************************************************************)
(* Who is signed in, for any accounts, any number of requests and screens. *)
(***************************************************************************)
EXTENDS Session, TLAPS

(* A logged-in user has a uid: what Launch and the completions rely on. *)
LoggedInHasUid == isUserLoggedIn => uid \in Users

(* Completions and writes under way are for accounts that exist. *)
WaitingHaveAccounts ==
  /\ \A i \in 1..Len(mainQueue) :
       mainQueue[i].kind # "failed" => mainQueue[i].user \in accounts
  /\ \A i \in 1..Len(puts) : puts[i].user \in accounts

(* A process that does not run has no screens and nothing under way. *)
NothingWhileOff ==
  ~running => Quiet /\ ~alert /\ ~loggingOut /\ screens = <<>>

AccountInv ==
  TypeOK /\ LoggedInHasUid /\ OwnerHasAccount /\ WaitingHaveAccounts /\ KeychainFollows

(* One request at a time: at any moment it is with the authentication
   service, or its completion is queued, or its profile write is under way,
   and the login screen that made it is still on top. *)
NoCalls == \A c \in Calls : calls[c] = None
Asking ==
  /\ mainQueue = <<>> /\ puts = <<>>
  /\ \E c \in Calls : /\ calls[c] # None /\ calls[c].at = Len(screens)
                      /\ \A d \in Calls \ {c} : calls[d] = None
Answering ==
  /\ NoCalls /\ puts = <<>>
  /\ Len(mainQueue) = 1 /\ Head(mainQueue).at = Len(screens)
  /\ Head(mainQueue).kind # "failed" =>
       keychain = Head(mainQueue).user /\ currentUser = Head(mainQueue).user
Writing ==
  /\ NoCalls /\ mainQueue = <<>>
  /\ Len(puts) = 1 /\ Head(puts).at = Len(screens)
  /\ keychain = Head(puts).user /\ currentUser = Head(puts).user

Settled ==
  /\ Quiet /\ ~loggingOut
  /\ uid # None /\ keychain = uid
  /\ running => /\ currentUser \in {uid, None}
                /\ screens # <<>> /\ Top = PlantsScreen(uid)

Underway ==
  /\ running /\ ~alert /\ ~loggingOut
  /\ screens # <<>> /\ Top.kind = "login"

PatientInv ==
  /\ isUserLoggedIn => Settled
  /\ Quiet \/ (Underway /\ (Asking \/ Answering \/ Writing))
-------------------------------------------------------------------------------
(* Type correctness. *)

LEMMA ScreenTypes ==
  /\ LoginScreen \in Screen
  /\ \A u \in Users : PlantsScreen(u) \in Screen
  /\ NewForm \in Forms
BY DEF LoginScreen, PlantsScreen, Screen, Kinds, NewForm, Forms

(* The next element of the two queues, and what remains of them. *)
LEMMA QueueTypes ==
  ASSUME TypeOK
  PROVE  /\ mainQueue # <<>> => Head(mainQueue) \in Block /\ Tail(mainQueue) \in Seq(Block)
         /\ puts # <<>> => Head(puts) \in Put /\ Tail(puts) \in Seq(Put)
BY DEF TypeOK

LEMMA InitType == Init => TypeOK
<1> SUFFICES ASSUME Init PROVE TypeOK
  OBVIOUS
<1>1. calls \in [Calls -> Call \cup {None}]
  BY DEF Init
<1>2. /\ screens \in Seq(Screen) /\ mainQueue \in Seq(Block) /\ puts \in Seq(Put)
      /\ form \in Forms
  BY ScreenTypes DEF Init
<1> QED BY <1>1, <1>2 DEF Init, TypeOK

LEMMA NextType ==
  TypeOK /\ LoggedInHasUid /\ [Next]_vars => TypeOK' /\ LoggedInHasUid'
<1> SUFFICES ASSUME TypeOK, LoggedInHasUid, [Next]_vars
             PROVE  TypeOK' /\ LoggedInHasUid'
  OBVIOUS
<1>1. CASE Launch
  <2>1. screens' \in Seq(Screen) /\ form' \in Forms
    BY <1>1, ScreenTypes DEF Launch, LoggedInHasUid
  <2>2. currentUser' \in Users \cup {None}
    BY <1>1 DEF Launch, TypeOK
  <2> QED BY <1>1, <2>1, <2>2 DEF Launch, TypeOK, LoggedInHasUid, server, defaults
<1>2. CASE Kill
  <2>1. calls' \in [Calls -> Call \cup {None}]
    BY <1>2 DEF Kill
  <2>2. /\ screens' \in Seq(Screen) /\ mainQueue' \in Seq(Block) /\ puts' \in Seq(Put)
        /\ form' \in Forms
    BY <1>2, ScreenTypes DEF Kill
  <2>3. accounts' \in SUBSET Users
    <3>1. \A c \in Calls : calls[c] # None => calls[c].user \in Users
      BY DEF TypeOK, Call
    <3> QED BY <1>2, <3>1 DEF Kill, TypeOK
  <2>4. profiles' \in SUBSET Users
    <3>0. \A i \in 1..Len(puts) : puts[i] \in Put
      BY DEF TypeOK
    <3>1. \A i \in 1..Len(puts) : puts[i].user \in Users
      BY <3>0 DEF Put
    <3> QED BY <1>2, <3>1 DEF Kill, TypeOK
  <2> QED BY <1>2, <2>1, <2>2, <2>3, <2>4 DEF Kill, TypeOK, LoggedInHasUid, defaults
<1>3. CASE loginSegmentChanged
  <2>1. form' \in Forms
    BY <1>3 DEF loginSegmentChanged, TypeOK, Forms
  <2> QED BY <1>3, <2>1 DEF loginSegmentChanged, TypeOK, LoggedInHasUid, server, auth, defaults
<1>4. CASE TapIncomplete
  <2>1. alert' \in BOOLEAN
    BY <1>4 DEF TapIncomplete, presentAlert
  <2> QED BY <1>4, <2>1 DEF TapIncomplete, TypeOK, LoggedInHasUid, server, auth, defaults
<1>5. CASE DismissAlert
  BY <1>5 DEF DismissAlert, TypeOK, LoggedInHasUid, server, auth, defaults
<1>6. ASSUME NEW u \in Users, loginSignUpButtonTapped(u)
      PROVE  TypeOK' /\ LoggedInHasUid'
  <2>1. Len(screens) \in Nat
    BY DEF TypeOK
  <2>2. calls' \in [Calls -> Call \cup {None}]
    <3>1. \A kind \in {"signIn", "signUp"} :
            [kind |-> kind, user |-> u, at |-> Len(screens)] \in Call
      BY <2>1 DEF Call
    <3>2. \E c \in Calls : \E call \in Call : calls' = [calls EXCEPT ![c] = call]
      BY <1>6, <3>1 DEF loginSignUpButtonTapped
    <3> QED BY <3>2 DEF TypeOK
  <2> QED
    BY <1>6, <2>2
    DEF loginSignUpButtonTapped, TypeOK, LoggedInHasUid, server, auth, defaults, ui
<1>7. ASSUME NEW c \in Calls, AuthGranted(c) \/ AuthFailed(c)
      PROVE  TypeOK' /\ LoggedInHasUid'
  <2>1. calls[c] \in Call
    BY <1>7 DEF AuthGranted, AuthFailed, TypeOK
  <2>2. calls[c].user \in Users /\ calls[c].at \in Nat
    BY <2>1 DEF Call
  <2>3. mainQueue' \in Seq(Block)
    <3>1. ASSUME NEW kind \in {"signedIn", "signedUp", "failed"}, Enqueue(kind, calls[c])
          PROVE  mainQueue' \in Seq(Block)
      BY <2>2, <3>1 DEF Enqueue, Block, TypeOK
    <3> QED BY <1>7, <3>1 DEF AuthGranted, AuthFailed
  <2>4. calls' \in [Calls -> Call \cup {None}]
    BY <1>7 DEF AuthGranted, AuthFailed, TypeOK
  <2>5. /\ accounts' \in SUBSET Users
        /\ keychain' \in Users \cup {None} /\ currentUser' \in Users \cup {None}
    BY <1>7, <2>2 DEF AuthGranted, AuthFailed, TypeOK, auth
  <2>6. UNCHANGED <<profiles, defaults, running, ui, puts, loggingOut, overlapped>>
    BY <1>7 DEF AuthGranted, AuthFailed
  <2> QED BY <2>3, <2>4, <2>5, <2>6 DEF TypeOK, LoggedInHasUid, defaults, ui
<1>8. CASE PutAnswered
  <2>1. Head(puts) \in Put /\ puts' \in Seq(Put)
    BY <1>8, QueueTypes DEF PutAnswered
  <2>2. profiles' \in SUBSET Users /\ mainQueue' \in Seq(Block)
    <3>1. Head(puts).user \in Users /\ Head(puts).at \in Nat
      BY <2>1 DEF Put
    <3>2. [kind |-> "profileWritten", user |-> Head(puts).user, at |-> Head(puts).at]
            \in Block
      BY <3>1 DEF Block
    <3>3. profiles' \in SUBSET Users
      BY <1>8, <3>1 DEF PutAnswered, TypeOK
    <3>4. mainQueue \in Seq(Block) =>
            Append(mainQueue, [kind |-> "profileWritten", user |-> Head(puts).user,
                               at |-> Head(puts).at]) \in Seq(Block)
      BY <3>2
    <3>5. mainQueue' \in Seq(Block)
      BY <1>8, <3>4 DEF PutAnswered, Enqueue, TypeOK
    <3> QED BY <3>3, <3>5
  <2> QED
    BY <1>8, <2>1, <2>2
    DEF PutAnswered, TypeOK, LoggedInHasUid, auth, defaults, ui
<1>9. CASE CompleteSignIn
  <2>1. Head(mainQueue).user \in Users /\ mainQueue' \in Seq(Block)
    BY <1>9, QueueTypes DEF CompleteSignIn, Dequeue, Block
  <2>2. screens' \in Seq(Screen)
    BY <1>9, <2>1, ScreenTypes DEF CompleteSignIn, SignedIn, TypeOK
  <2>3. isUserLoggedIn' \in BOOLEAN /\ uid' \in Users
    BY <1>9, <2>1 DEF CompleteSignIn, SignedIn
  <2> QED BY <1>9, <2>1, <2>2, <2>3 DEF CompleteSignIn, TypeOK, LoggedInHasUid, server, auth
<1>10. CASE CompleteSignUp
  <2>1. Head(mainQueue) \in Block /\ mainQueue' \in Seq(Block)
    BY <1>10, QueueTypes DEF CompleteSignUp, Dequeue
  <2>2. puts' \in Seq(Put)
    BY <1>10, <2>1 DEF CompleteSignUp, Block, Put, TypeOK
  <2> QED
    BY <1>10, <2>1, <2>2
    DEF CompleteSignUp, TypeOK, LoggedInHasUid, server, auth, defaults, ui
<1>11. CASE CompleteFailed
  <2>1. mainQueue' \in Seq(Block)
    BY <1>11, QueueTypes DEF CompleteFailed, Dequeue
  <2>2. alert' \in BOOLEAN
    BY <1>11 DEF CompleteFailed, presentAlert
  <2> QED
    BY <1>11, <2>1, <2>2
    DEF CompleteFailed, TypeOK, LoggedInHasUid, server, auth, defaults
<1>12. CASE logoutButtonTapped
  <2>1. screens' \in Seq(Screen) /\ form' \in Forms
    BY <1>12, ScreenTypes DEF logoutButtonTapped, TypeOK
  <2>2. isUserLoggedIn' = FALSE /\ loggingOut' \in BOOLEAN
    BY <1>12 DEF logoutButtonTapped
  <2> QED
    BY <1>12, <2>1, <2>2
    DEF logoutButtonTapped, TypeOK, LoggedInHasUid, server, auth
<1>13. CASE LogoutPresented
  <2>1. currentUser' \in Users \cup {None} /\ keychain' \in Users \cup {None}
    BY <1>13 DEF LogoutPresented, TypeOK, auth
  <2> QED BY <1>13, <2>1 DEF LogoutPresented, TypeOK, LoggedInHasUid, server, defaults, ui
<1>14. CASE UNCHANGED vars
  BY <1>14 DEF vars, TypeOK, LoggedInHasUid
<1> QED
  BY <1>1, <1>2, <1>3, <1>4, <1>5, <1>6, <1>7, <1>8, <1>9, <1>10, <1>11, <1>12,
     <1>13, <1>14 DEF Next, Completion

(* Every variable keeps its type. *)
THEOREM TypeCorrect == Spec => []TypeOK
<1>1. Init => TypeOK /\ LoggedInHasUid
  BY InitType DEF Init, LoggedInHasUid
<1> QED BY <1>1, NextType, PTL DEF Spec

-------------------------------------------------------------------------------
(* Accounts exist before anything refers to them. *)

(* A block at the end of the queue leaves the ones before it where they are. *)
LEMMA QueueGrows ==
  ASSUME NEW q \in Seq(Block), NEW b \in Block, NEW A,
         \A i \in 1..Len(q) : q[i].kind # "failed" => q[i].user \in A,
         b.kind # "failed" => b.user \in A
  PROVE  \A i \in 1..Len(Append(q, b)) :
           Append(q, b)[i].kind # "failed" => Append(q, b)[i].user \in A
<1> SUFFICES ASSUME NEW i \in 1..Len(Append(q, b))
             PROVE  Append(q, b)[i].kind # "failed" => Append(q, b)[i].user \in A
  OBVIOUS
<1>1. CASE i = Len(q) + 1
  <2>1. Append(q, b)[i] = b BY <1>1
  <2> QED BY <2>1
<1>2. CASE i # Len(q) + 1
  <2>1. i \in 1..Len(q) /\ Append(q, b)[i] = q[i] BY <1>2
  <2> QED BY <2>1
<1> QED BY <1>1, <1>2

LEMMA AccountStep == AccountInv /\ [Next]_vars => AccountInv'
<1> SUFFICES ASSUME AccountInv, [Next]_vars PROVE AccountInv'
  OBVIOUS
<1>0. TypeOK /\ LoggedInHasUid /\ TypeOK' /\ LoggedInHasUid'
  BY NextType DEF AccountInv
<1> SUFFICES (OwnerHasAccount /\ WaitingHaveAccounts /\ KeychainFollows)'
  BY <1>0 DEF AccountInv
<1> USE DEF AccountInv
<1>1. CASE Launch
  BY <1>0, <1>1
  DEF Launch, OwnerHasAccount, WaitingHaveAccounts, KeychainFollows, LoginScreen,
      PlantsScreen, server, defaults
<1>2. CASE Kill
  BY <1>2 DEF Kill, OwnerHasAccount, WaitingHaveAccounts, KeychainFollows, defaults
<1>3. CASE loginSegmentChanged \/ TapIncomplete \/ DismissAlert
  <2>1. UNCHANGED <<server, auth, defaults, screens, mainQueue, puts>>
    BY <1>3 DEF loginSegmentChanged, TapIncomplete, DismissAlert
  <2> QED
    BY <2>1
    DEF OwnerHasAccount, WaitingHaveAccounts, KeychainFollows, server, auth, defaults
<1>4. ASSUME NEW u \in Users, loginSignUpButtonTapped(u)
      PROVE  (OwnerHasAccount /\ WaitingHaveAccounts /\ KeychainFollows)'
  BY <1>4
  DEF loginSignUpButtonTapped, OwnerHasAccount, WaitingHaveAccounts,
      KeychainFollows, server, auth, defaults, ui
<1>5. ASSUME NEW c \in Calls, AuthGranted(c)
      PROVE  (OwnerHasAccount /\ WaitingHaveAccounts /\ KeychainFollows)'
  <2>1. accounts \subseteq accounts' /\ calls[c].user \in accounts'
    BY <1>5 DEF AuthGranted
  <2>2. OwnerHasAccount' /\ KeychainFollows'
    BY <1>5, <2>1 DEF AuthGranted, OwnerHasAccount, KeychainFollows, defaults, ui
  <2>3. PICK kind \in {"signedIn", "signedUp"} : Enqueue(kind, calls[c])
    BY <1>5 DEF AuthGranted
  <2> DEFINE b == [kind |-> kind, user |-> calls[c].user, at |-> calls[c].at]
  <2>4. b \in Block /\ b.user \in accounts'
    <3>1. calls[c] \in Call
      BY <1>0, <1>5 DEF AuthGranted, TypeOK
    <3> QED BY <2>1, <3>1 DEF Call, Block
  <2>5. mainQueue \in Seq(Block) /\ mainQueue' = Append(mainQueue, b) /\ puts' = puts
    BY <1>0, <1>5, <2>3 DEF AuthGranted, Enqueue, TypeOK
  <2>6. \A i \in 1..Len(mainQueue) :
          mainQueue[i].kind # "failed" => mainQueue[i].user \in accounts'
    BY <2>1 DEF WaitingHaveAccounts
  <2> HIDE DEF b
  <2>7. WaitingHaveAccounts'
    BY <2>1, <2>4, <2>5, <2>6, QueueGrows DEF WaitingHaveAccounts
  <2> QED BY <2>2, <2>7
<1>6. ASSUME NEW c \in Calls, AuthFailed(c)
      PROVE  (OwnerHasAccount /\ WaitingHaveAccounts /\ KeychainFollows)'
  <2>1. accounts \subseteq accounts'
    BY <1>6 DEF AuthFailed
  <2>2. OwnerHasAccount' /\ KeychainFollows'
    BY <1>6, <2>1 DEF AuthFailed, OwnerHasAccount, KeychainFollows, auth, defaults, ui
  <2> DEFINE b == [kind |-> "failed", user |-> calls[c].user, at |-> calls[c].at]
  <2>3. b \in Block /\ b.kind = "failed"
    <3>1. calls[c] \in Call
      BY <1>0, <1>6 DEF AuthFailed, TypeOK
    <3> QED BY <3>1 DEF Call, Block
  <2>4. mainQueue \in Seq(Block) /\ mainQueue' = Append(mainQueue, b) /\ puts' = puts
    BY <1>0, <1>6 DEF AuthFailed, Enqueue, TypeOK
  <2>5. \A i \in 1..Len(mainQueue) :
          mainQueue[i].kind # "failed" => mainQueue[i].user \in accounts'
    BY <2>1 DEF WaitingHaveAccounts
  <2> HIDE DEF b
  <2>6. WaitingHaveAccounts'
    BY <2>1, <2>3, <2>4, <2>5, QueueGrows DEF WaitingHaveAccounts
  <2> QED BY <2>2, <2>6
<1>7. CASE PutAnswered
  <2>1. OwnerHasAccount' /\ KeychainFollows'
    BY <1>7 DEF PutAnswered, OwnerHasAccount, KeychainFollows, auth, defaults, ui
  <2>2. Head(puts).user \in accounts
    BY <1>0, <1>7 DEF PutAnswered, WaitingHaveAccounts, TypeOK
  <2>3. \A i \in 1..Len(puts') : puts'[i].user \in accounts
    BY <1>0, <1>7 DEF PutAnswered, WaitingHaveAccounts, TypeOK
  <2>4. WaitingHaveAccounts'
    <3>1. CASE Enqueue("profileWritten", Head(puts))
      <4> DEFINE b == [kind |-> "profileWritten", user |-> Head(puts).user,
                       at |-> Head(puts).at]
      <4>1. b \in Block /\ b.user \in accounts
        <5>1. Head(puts) \in Put
          BY <1>0, <1>7 DEF PutAnswered, TypeOK
        <5> QED BY <2>2, <5>1 DEF Put, Block
      <4>2. mainQueue \in Seq(Block) /\ mainQueue' = Append(mainQueue, b)
        BY <1>0, <3>1 DEF Enqueue, TypeOK
      <4>3. accounts' = accounts
        BY <1>7 DEF PutAnswered
      <4> HIDE DEF b
      <4> QED BY <2>3, <4>1, <4>2, <4>3, QueueGrows DEF WaitingHaveAccounts
    <3>2. CASE UNCHANGED mainQueue
      BY <1>7, <2>3, <3>2 DEF PutAnswered, WaitingHaveAccounts
    <3> QED BY <1>7, <3>1, <3>2 DEF PutAnswered
  <2> QED BY <2>1, <2>4
<1>8. ASSUME mainQueue # <<>>, mainQueue' = Tail(mainQueue)
      PROVE  \A i \in 1..Len(mainQueue') :
               mainQueue'[i].kind # "failed" => mainQueue'[i].user \in accounts
  BY <1>0, <1>8 DEF WaitingHaveAccounts, TypeOK
<1>9. ASSUME mainQueue # <<>>, Head(mainQueue).kind # "failed"
      PROVE  Head(mainQueue).user \in accounts
  BY <1>0, <1>9 DEF WaitingHaveAccounts, TypeOK
<1>10. CASE CompleteSignIn
  <2>1. mainQueue # <<>> /\ mainQueue' = Tail(mainQueue) /\ Head(mainQueue).kind # "failed"
    BY <1>10 DEF CompleteSignIn, Dequeue
  <2>2. uid' \in accounts /\ UNCHANGED <<accounts, keychain, currentUser, puts>>
    BY <1>9, <1>10, <2>1 DEF CompleteSignIn, SignedIn, server, auth
  <2>3. \A i \in DOMAIN screens' :
          screens'[i].kind = "plants" => screens'[i].owner \in accounts
    BY <1>0, <1>10, <2>2
    DEF CompleteSignIn, SignedIn, OwnerHasAccount, PlantsScreen, TypeOK
  <2> QED BY <1>8, <2>1, <2>2, <2>3 DEF OwnerHasAccount, WaitingHaveAccounts, KeychainFollows
<1>11. CASE CompleteSignUp
  <2>1. mainQueue # <<>> /\ mainQueue' = Tail(mainQueue) /\ Head(mainQueue).kind # "failed"
    BY <1>11 DEF CompleteSignUp, Dequeue
  <2>2. \A i \in 1..Len(puts') : puts'[i].user \in accounts
    BY <1>0, <1>9, <1>11, <2>1 DEF CompleteSignUp, WaitingHaveAccounts, TypeOK
  <2> QED
    BY <1>8, <1>11, <2>1, <2>2
    DEF CompleteSignUp, OwnerHasAccount, WaitingHaveAccounts, KeychainFollows,
        server, auth, defaults, ui
<1>12. CASE CompleteFailed
  <2>1. mainQueue # <<>> /\ mainQueue' = Tail(mainQueue)
    BY <1>12 DEF CompleteFailed, Dequeue
  <2> QED
    BY <1>8, <1>12, <2>1
    DEF CompleteFailed, OwnerHasAccount, WaitingHaveAccounts, KeychainFollows,
        server, auth, defaults
<1>13. CASE logoutButtonTapped
  BY <1>0, <1>13
  DEF logoutButtonTapped, OwnerHasAccount, WaitingHaveAccounts, KeychainFollows,
      LoginScreen, server, auth, TypeOK
<1>14. CASE LogoutPresented
  BY <1>14
  DEF LogoutPresented, OwnerHasAccount, WaitingHaveAccounts, KeychainFollows,
      server, auth, defaults, ui
<1>15. CASE UNCHANGED vars
  BY <1>15 DEF vars, OwnerHasAccount, WaitingHaveAccounts, KeychainFollows
<1> QED
  BY <1>1, <1>2, <1>3, <1>4, <1>5, <1>6, <1>7, <1>10, <1>11, <1>12, <1>13,
     <1>14, <1>15 DEF Next, Completion

LEMMA AccountInvariant == Spec => []AccountInv
<1>1. Init => AccountInv
  BY InitType
  DEF Init, AccountInv, LoggedInHasUid, OwnerHasAccount, WaitingHaveAccounts,
      KeychainFollows
<1> QED BY <1>1, AccountStep, PTL DEF Spec

(* However requests overlap, the stored uid, the user Firebase keeps and the
   owner of every table are accounts that exist. *)
THEOREM OwnersHaveAccounts == Spec => []OwnerHasAccount
BY AccountInvariant, PTL DEF AccountInv

(* Firebase's user in memory is the one saved in the keychain. *)
THEOREM KeychainHoldsCurrentUser == Spec => []KeychainFollows
BY AccountInvariant, PTL DEF AccountInv

-------------------------------------------------------------------------------
(* One request at a time. *)

LEMMA QuietMeans ==
  ASSUME TypeOK
  PROVE  Quiet <=> NoCalls /\ mainQueue = <<>> /\ puts = <<>>
BY DEF Quiet, NoCalls, TypeOK

(* A sequence with one element; the queues never hold more. *)
LEMMA Singleton ==
  ASSUME NEW S, NEW q \in Seq(S), Len(q) = 1
  PROVE  q # <<>> /\ Tail(q) = <<>> /\ Head(q) = q[1]
<1>1. q # <<>> /\ Head(q) = q[1]
  OBVIOUS
<1>2. Tail(q) \in Seq(S) /\ Len(Tail(q)) = 0
  BY <1>1
<1>3. \A t \in Seq(S) : Len(t) = 0 => t = <<>>
  OBVIOUS
<1> QED BY <1>1, <1>2, <1>3

LEMMA AppendToEmpty ==
  ASSUME NEW e
  PROVE  /\ Append(<<>>, e) # <<>> /\ Len(Append(<<>>, e)) = 1
         /\ Head(Append(<<>>, e)) = e
<1>1. <<>> \in Seq({e}) /\ Len(<<>>) = 0
  OBVIOUS
<1>2. /\ Append(<<>>, e) \in Seq({e})
      /\ Len(Append(<<>>, e)) = 1 /\ Append(<<>>, e)[1] = e
  BY <1>1
<1> QED BY <1>2

(* What a user who waits can do, and what can happen meanwhile. *)
LEMMA PatientStep ==
  ASSUME ~overlapped', TypeOK, TypeOK', NothingWhileOff, PatientInv, [Next]_vars
  PROVE  NothingWhileOff' /\ PatientInv'
<1>0. /\ Quiet <=> NoCalls /\ mainQueue = <<>> /\ puts = <<>>
      /\ Len(screens) \in Nat
  BY QuietMeans DEF TypeOK
<1>1. NoCalls' /\ mainQueue' = <<>> /\ puts' = <<>> => Quiet'
  BY DEF Quiet, NoCalls, TypeOK
<1>2. CASE Launch
  <2>1. Quiet' /\ ~loggingOut'
    BY <1>2 DEF Launch, NothingWhileOff, Quiet
  <2>2. ASSUME isUserLoggedIn' PROVE Settled'
    <3>1. Settled /\ isUserLoggedIn
      BY <1>2, <2>2 DEF Launch, PatientInv, defaults
    <3>2. screens' = <<PlantsScreen(uid)>>
      BY <1>2, <3>1 DEF Launch
    <3>3. screens' # <<>> /\ screens'[Len(screens')] = PlantsScreen(uid)
      BY <3>2
    <3> QED BY <1>2, <2>1, <3>1, <3>3 DEF Launch, Settled, Top, PlantsScreen, defaults
  <2> QED BY <1>2, <2>1, <2>2 DEF Launch, NothingWhileOff, PatientInv
<1>3. CASE Kill
  <2>1. Quiet' /\ NothingWhileOff'
    BY <1>3 DEF Kill, Quiet, NothingWhileOff
  <2>2. isUserLoggedIn' => Settled'
    BY <1>3, <2>1 DEF Kill, PatientInv, Settled, defaults
  <2> QED BY <2>1, <2>2 DEF PatientInv
<1>4. ASSUME UNCHANGED <<auth, defaults, running, screens, calls, mainQueue, puts, loggingOut>>,
             running, Quiet \/ UNCHANGED alert
      PROVE  NothingWhileOff' /\ PatientInv'
  <2>1. (Quiet' <=> Quiet) /\ (Settled' <=> Settled)
    BY <1>4 DEF Quiet, Settled, Top, PlantsScreen, auth, defaults
  <2>2. UNCHANGED alert /\ Underway => Underway'
    BY <1>4 DEF Underway, Top
  <2>3. Asking \/ Answering \/ Writing => Asking' \/ Answering' \/ Writing'
    BY <1>4 DEF Asking, Answering, Writing, NoCalls, auth
  <2> QED BY <1>4, <2>1, <2>2, <2>3 DEF NothingWhileOff, PatientInv, defaults
<1>5. CASE loginSegmentChanged
  BY <1>4, <1>5 DEF loginSegmentChanged, CanTap
<1>6. CASE TapIncomplete
  BY <1>4, <1>6 DEF TapIncomplete, CanTap
<1>7. CASE DismissAlert
  <2>1. Quiet
    BY <1>7 DEF DismissAlert, PatientInv, Underway
  <2> QED BY <1>4, <1>7, <2>1 DEF DismissAlert
<1>8. ASSUME NEW u \in Users, loginSignUpButtonTapped(u)
      PROVE  NothingWhileOff' /\ PatientInv'
  <2>1. Quiet /\ Underway
    BY <1>8 DEF loginSignUpButtonTapped, CanTap, Underway
  <2>2. ~isUserLoggedIn
    BY <2>1 DEF PatientInv, Settled, Underway, PlantsScreen
  <2>3. Underway' /\ ~isUserLoggedIn'
    BY <1>8, <2>1, <2>2 DEF loginSignUpButtonTapped, Underway, Top, ui, defaults
  <2>4. PICK c \in Calls, call \in [kind : {"signIn", "signUp"}, user : Users, at : {Len(screens)}] :
          calls' = [calls EXCEPT ![c] = call]
    BY <1>8 DEF loginSignUpButtonTapped
  <2>5. calls'[c] # None /\ calls'[c].at = Len(screens')
    <3>1. call \in Call
      BY <1>0, <2>4 DEF Call
    <3>2. calls'[c] = call
      BY <2>4 DEF TypeOK
    <3>3. screens' = screens
      BY <1>8 DEF loginSignUpButtonTapped, ui
    <3> QED BY <2>4, <3>1, <3>2, <3>3, SessionAssumption
  <2>6. \A d \in Calls \ {c} : calls'[d] = None
    BY <1>0, <2>1, <2>4 DEF NoCalls, TypeOK
  <2>7. Asking'
    BY <1>0, <1>8, <2>1, <2>5, <2>6 DEF loginSignUpButtonTapped, Asking
  <2> QED BY <2>3, <2>7 DEF NothingWhileOff, PatientInv, Underway
<1>9. ASSUME NEW c \in Calls, AuthGranted(c) \/ AuthFailed(c)
      PROVE  NothingWhileOff' /\ PatientInv'
  <2>1. Underway /\ Asking /\ ~isUserLoggedIn
    BY <1>0, <1>9
    DEF AuthGranted, AuthFailed, NoCalls, PatientInv, Answering, Writing, Settled
  <2>2. Underway' /\ ~isUserLoggedIn'
    <3>1. UNCHANGED <<defaults, running, ui, loggingOut>>
      BY <1>9 DEF AuthGranted, AuthFailed
    <3> QED BY <2>1, <3>1 DEF Underway, Top, ui, defaults
  <2>3. calls[c].at = Len(screens) /\ \A d \in Calls \ {c} : calls[d] = None
    BY <1>9, <2>1 DEF AuthGranted, AuthFailed, Asking
  <2>4. NoCalls' /\ puts' = <<>>
    BY <1>9, <2>1, <2>3 DEF AuthGranted, AuthFailed, NoCalls, Asking, TypeOK
  <2>5. PICK kind : /\ mainQueue' = Append(<<>>, [kind |-> kind, user |-> calls[c].user,
                                                   at |-> calls[c].at])
                    /\ kind # "failed" => /\ keychain' = calls[c].user
                                          /\ currentUser' = calls[c].user
    BY <1>9, <2>1 DEF AuthGranted, AuthFailed, Enqueue, Asking
  <2>6. Answering'
    BY <1>9, <2>3, <2>4, <2>5, AppendToEmpty DEF AuthGranted, AuthFailed, Answering, ui
  <2> QED BY <2>2, <2>6 DEF NothingWhileOff, PatientInv, Underway
<1>10. CASE PutAnswered
  <2>1. Underway /\ Writing /\ ~isUserLoggedIn
    BY <1>0, <1>10 DEF PutAnswered, PatientInv, Asking, Answering, Settled
  <2>2. Underway' /\ ~isUserLoggedIn'
    BY <1>10, <2>1 DEF PutAnswered, Underway, Top, ui, defaults
  <2>3. NoCalls' /\ puts' = <<>>
    BY <1>10, <2>1 DEF PutAnswered, NoCalls, Writing, TypeOK
  <2>4. CASE mainQueue' = <<>>
    BY <1>1, <2>2, <2>3, <2>4 DEF NothingWhileOff, PatientInv, Underway
  <2>5. CASE mainQueue' = Append(<<>>, [kind |-> "profileWritten", user |-> Head(puts).user,
                                        at |-> Head(puts).at])
    <3>1. Answering'
      BY <1>10, <2>1, <2>3, <2>5, AppendToEmpty DEF PutAnswered, Writing, Answering, ui, auth
    <3> QED BY <2>2, <3>1 DEF NothingWhileOff, PatientInv, Underway
  <2> QED BY <1>10, <2>1, <2>4, <2>5 DEF PutAnswered, Enqueue, Writing
<1>11. ASSUME mainQueue # <<>>, running, mainQueue' = Tail(mainQueue), UNCHANGED calls
       PROVE  Underway /\ Answering /\ ~isUserLoggedIn /\ NoCalls' /\ mainQueue' = <<>>
  <2>1. Underway /\ Answering /\ ~isUserLoggedIn
    BY <1>0, <1>11 DEF PatientInv, Asking, Writing, Settled
  <2> QED BY <1>11, <2>1, Singleton DEF Answering, NoCalls, TypeOK
<1>12. CASE CompleteSignIn
  <2>1. Underway /\ Answering /\ NoCalls' /\ mainQueue' = <<>> /\ puts' = <<>>
    BY <1>11, <1>12 DEF CompleteSignIn, Dequeue, Answering
  <2>2. Quiet' /\ ~loggingOut' /\ running'
    BY <1>1, <1>12, <2>1 DEF CompleteSignIn, Underway
  <2> DEFINE u == Head(mainQueue).user
  <2>3. u # None /\ uid' = u /\ keychain' = u /\ currentUser' = u
    <3>1. u \in Users
      BY <1>12, QueueTypes DEF CompleteSignIn, Dequeue, Block
    <3> QED BY <1>12, <2>1, <3>1, SessionAssumption
            DEF CompleteSignIn, Dequeue, SignedIn, Answering, auth
  <2>4. screens' = Append(screens, PlantsScreen(u))
    BY <1>12, <2>1 DEF CompleteSignIn, SignedIn, CanPresent, Answering, Underway
  <2>5. screens' # <<>> /\ screens'[Len(screens')] = PlantsScreen(u)
    BY <2>4 DEF TypeOK
  <2> QED BY <2>2, <2>3, <2>5 DEF NothingWhileOff, PatientInv, Settled, Top, PlantsScreen
<1>13. CASE CompleteSignUp
  <2>1. Underway /\ Answering /\ ~isUserLoggedIn /\ NoCalls' /\ mainQueue' = <<>>
    BY <1>11, <1>13 DEF CompleteSignUp, Dequeue
  <2>2. Underway' /\ ~isUserLoggedIn'
    BY <1>13, <2>1 DEF CompleteSignUp, Underway, Top, ui, defaults
  <2>3. puts' = Append(<<>>, [user |-> Head(mainQueue).user, at |-> Head(mainQueue).at])
    BY <1>13, <2>1 DEF CompleteSignUp, Answering
  <2>4. Head(mainQueue).kind # "failed"
    BY <1>13 DEF CompleteSignUp, Dequeue
  <2>5. Writing'
    BY <1>13, <2>1, <2>3, <2>4, AppendToEmpty DEF CompleteSignUp, Answering, Writing, ui, auth
  <2> QED BY <2>2, <2>5 DEF NothingWhileOff, PatientInv, Underway
<1>14. CASE CompleteFailed
  <2>1. Underway /\ Answering /\ ~isUserLoggedIn /\ NoCalls' /\ mainQueue' = <<>>
    BY <1>11, <1>14 DEF CompleteFailed, Dequeue
  <2>2. Quiet' /\ ~isUserLoggedIn' /\ running'
    BY <1>1, <1>14, <2>1 DEF CompleteFailed, Answering, Underway, defaults
  <2> QED BY <2>2 DEF NothingWhileOff, PatientInv
<1>15. CASE logoutButtonTapped
  <2>1. Quiet
    BY <1>15 DEF logoutButtonTapped, CanTap, PatientInv, Underway
  <2>2. Quiet' /\ ~isUserLoggedIn' /\ running'
    BY <1>15, <2>1 DEF logoutButtonTapped, CanTap, Quiet
  <2> QED BY <2>2 DEF NothingWhileOff, PatientInv
<1>16. CASE LogoutPresented
  <2>1. Quiet /\ ~isUserLoggedIn
    BY <1>16 DEF LogoutPresented, PatientInv, Underway, Settled
  <2>2. Quiet' /\ ~isUserLoggedIn' /\ running'
    BY <1>16, <2>1 DEF LogoutPresented, Quiet, defaults
  <2> QED BY <2>2 DEF NothingWhileOff, PatientInv
<1>17. CASE UNCHANGED vars
  <2>1. CASE running
    BY <1>4, <1>17, <2>1 DEF vars, auth, defaults
  <2>2. CASE ~running
    BY <1>17, <2>2 DEF vars, NothingWhileOff, PatientInv, Quiet, Settled, PlantsScreen, Top
  <2> QED BY <2>1, <2>2
<1> QED
  BY <1>2, <1>3, <1>5, <1>6, <1>7, <1>8, <1>9, <1>10, <1>12, <1>13, <1>14,
     <1>15, <1>16, <1>17 DEF Next, Completion

(* The invariant of a user who waits for each answer. *)
OneInv == AccountInv /\ (~overlapped => NothingWhileOff /\ PatientInv)

LEMMA OneInvariant == Spec => []OneInv
<1>1. Init => NothingWhileOff /\ PatientInv
  BY DEF Init, NothingWhileOff, PatientInv, Quiet
<1>2. Init => AccountInv
  BY InitType
  DEF Init, AccountInv, LoggedInHasUid, OwnerHasAccount, WaitingHaveAccounts,
      KeychainFollows
<1>3. OneInv /\ [Next]_vars => OneInv'
  <2>1. AccountInv => TypeOK
    BY DEF AccountInv
  <2>2. AccountInv' => TypeOK'
    BY DEF AccountInv
  <2>3. ~overlapped' /\ [Next]_vars => ~overlapped
    BY DEF Next, Launch, Kill, loginSegmentChanged, TapIncomplete, DismissAlert,
       loginSignUpButtonTapped, AuthGranted, AuthFailed, PutAnswered, Completion,
       CompleteSignIn, CompleteSignUp, CompleteFailed, logoutButtonTapped,
       LogoutPresented, vars
  <2> QED BY <2>1, <2>2, <2>3, AccountStep, PatientStep DEF OneInv
<1> QED BY <1>1, <1>2, <1>3, PTL DEF Spec, OneInv

(* Until a tap overlaps a request, the flag and uid in the defaults, Firebase's
   user and the table on top agree, through kills at any point. *)
THEOREM MemoriesAgree == Spec => []Agreement
<1>1. OneInv => Agreement
  BY DEF OneInv, PatientInv, Settled, Agreement
<1> QED BY <1>1, OneInvariant, PTL

-------------------------------------------------------------------------------
(* Tables and login screens, with any overlap of requests. *)

(* Requests, completions and profile writes come from login screens that are
   still in the stack, and a process that does not run has none of them. *)
AtLogin(n) == n \in 1..Len(screens) /\ screens[n].kind = "login"
WaitingAtLogin ==
  /\ \A c \in Calls : calls[c] # None => AtLogin(calls[c].at)
  /\ \A i \in 1..Len(mainQueue) : AtLogin(mainQueue[i].at)
  /\ \A i \in 1..Len(puts) : AtLogin(puts[i].at)
StackInv == TableMeansLoggedIn /\ WaitingAtLogin /\ (~running => Quiet)

(* A screen on top of the others leaves them where they are. *)
LEMMA Presented ==
  ASSUME NEW s \in Seq(Screen), NEW t \in Screen
  PROVE  /\ Append(s, t) \in Seq(Screen) /\ Append(s, t) # <<>>
         /\ Len(Append(s, t)) = Len(s) + 1 /\ Append(s, t)[Len(s) + 1] = t
         /\ \A i \in 1..Len(s) : Append(s, t)[i] = s[i]
OBVIOUS

(* What is left of a queue when its head is taken. *)
LEMMA HeadTaken ==
  ASSUME NEW S, NEW q \in Seq(S), q # <<>>
  PROVE  /\ Head(q) = q[1] /\ Head(q) \in S /\ 1 \in 1..Len(q) /\ Tail(q) \in Seq(S)
         /\ \A i \in 1..Len(Tail(q)) : i + 1 \in 1..Len(q) /\ Tail(q)[i] = q[i + 1]
OBVIOUS

LEMMA StackStep == AccountInv /\ AccountInv' /\ StackInv /\ [Next]_vars => StackInv'
<1> SUFFICES ASSUME AccountInv, AccountInv', StackInv, [Next]_vars PROVE StackInv'
  OBVIOUS
<1>0. TypeOK /\ TypeOK' /\ (isUserLoggedIn' => uid' # None)
  BY SessionAssumption DEF AccountInv, LoggedInHasUid
<1>1. CASE Launch
  <2>1. Quiet /\ Quiet' /\ Len(mainQueue') = 0 /\ Len(puts') = 0
    BY <1>0, <1>1 DEF Launch, StackInv, Quiet
  <2>2. running' /\ Len(screens') = 1 /\ (Top.kind = "plants" => isUserLoggedIn)'
    BY <1>1 DEF Launch, Top, LoginScreen, PlantsScreen, defaults
  <2>3. WaitingAtLogin'
    BY <2>1 DEF WaitingAtLogin, Quiet
  <2>4. DOMAIN screens' = 1..1 /\ screens' # <<>>
    <3>1. PICK t : screens' = <<t>>
      BY <1>1 DEF Launch
    <3> QED BY <3>1
  <2>5. \A i \in DOMAIN screens' : ~(i > 1)
    BY <2>4
  <2> QED BY <1>0, <2>1, <2>2, <2>3, <2>4, <2>5 DEF StackInv, TableMeansLoggedIn
<1>2. CASE Kill
  BY <1>2 DEF Kill, StackInv, TableMeansLoggedIn, WaitingAtLogin, Quiet
<1>3. CASE loginSegmentChanged \/ TapIncomplete \/ DismissAlert \/ LogoutPresented
           \/ CompleteFailed \/ UNCHANGED vars
  <2>1. UNCHANGED <<isUserLoggedIn, uid, running, screens, calls, puts>>
    BY <1>3 DEF loginSegmentChanged, TapIncomplete, DismissAlert, LogoutPresented,
                CompleteFailed, vars, defaults, ui
  <2>2. mainQueue' = mainQueue \/ (running /\ mainQueue # <<>> /\ mainQueue' = Tail(mainQueue))
    BY <1>3 DEF loginSegmentChanged, TapIncomplete, DismissAlert, LogoutPresented,
                CompleteFailed, Dequeue, vars
  <2>3. \A i \in 1..Len(mainQueue') : AtLogin(mainQueue'[i].at)
    <3>1. CASE mainQueue' = mainQueue
      BY <3>1 DEF StackInv, WaitingAtLogin
    <3>2. CASE mainQueue # <<>> /\ mainQueue' = Tail(mainQueue)
      <4>1. mainQueue \in Seq(Block)
        BY <1>0 DEF TypeOK
      <4> QED BY <3>2, <4>1, HeadTaken DEF StackInv, WaitingAtLogin
    <3> QED BY <2>2, <3>1, <3>2
  <2> QED BY <2>1, <2>2, <2>3 DEF StackInv, TableMeansLoggedIn, WaitingAtLogin, AtLogin, Quiet, Top
<1>4. ASSUME NEW u \in Users, loginSignUpButtonTapped(u)  PROVE StackInv'
  <2>1. UNCHANGED <<isUserLoggedIn, uid, running, screens, mainQueue, puts>> /\ running
    BY <1>4 DEF loginSignUpButtonTapped, CanTap, defaults, ui
  <2>2. AtLogin(Len(screens))
    <3>1. screens \in Seq(Screen) /\ screens # <<>> /\ Top.kind = "login"
      BY <1>0, <1>4 DEF loginSignUpButtonTapped, CanTap, TypeOK
    <3>2. Len(screens) \in 1..Len(screens)
      BY <3>1
    <3> QED BY <3>1, <3>2 DEF AtLogin, Top
  <2>3. \A c \in Calls : calls'[c] # calls[c] => calls'[c].at = Len(screens)
    <3>1. PICK c \in Calls : calls' = [calls EXCEPT ![c] =
            [kind |-> IF form.button = "Sign Up" THEN "signUp" ELSE "signIn",
             user |-> u, at |-> Len(screens)]]
      BY <1>4 DEF loginSignUpButtonTapped
    <3>2. calls \in [Calls -> Call \cup {None}]
      BY <1>0 DEF TypeOK
    <3> QED BY <3>1, <3>2
  <2> QED
    BY <2>1, <2>2, <2>3 DEF StackInv, TableMeansLoggedIn, WaitingAtLogin, AtLogin, Top
<1>5. ASSUME NEW c \in Calls, AuthGranted(c) \/ AuthFailed(c)  PROVE StackInv'
  <2>1. /\ UNCHANGED <<isUserLoggedIn, uid, running, screens, puts>> /\ running
        /\ calls[c] # None /\ calls' = [calls EXCEPT ![c] = None]
    BY <1>5 DEF AuthGranted, AuthFailed, defaults, ui
  <2>2. PICK kind \in {"signedIn", "signedUp", "failed"} : Enqueue(kind, calls[c])
    BY <1>5 DEF AuthGranted, AuthFailed
  <2> DEFINE b == [kind |-> kind, user |-> calls[c].user, at |-> calls[c].at]
  <2>3. b \in Block /\ AtLogin(b.at)
    <3>1. calls[c] \in Call
      BY <1>0, <2>1 DEF TypeOK
    <3> QED BY <2>1, <3>1 DEF Call, Block, StackInv, WaitingAtLogin
  <2>4. mainQueue \in Seq(Block) /\ mainQueue' = Append(mainQueue, b)
    BY <1>0, <2>2 DEF Enqueue, TypeOK
  <2> HIDE DEF b
  <2>5. \A i \in 1..Len(mainQueue') : AtLogin(mainQueue'[i].at)
    <3> SUFFICES ASSUME NEW i \in 1..Len(mainQueue')  PROVE AtLogin(mainQueue'[i].at)
      OBVIOUS
    <3>1. CASE i = Len(mainQueue) + 1
      <4>1. mainQueue'[i] = b BY <2>3, <2>4, <3>1
      <4> QED BY <2>3, <4>1
    <3>2. CASE i # Len(mainQueue) + 1
      <4>1. i \in 1..Len(mainQueue) /\ mainQueue'[i] = mainQueue[i] BY <2>3, <2>4, <3>2
      <4> QED BY <4>1 DEF StackInv, WaitingAtLogin
    <3> QED BY <3>1, <3>2
  <2>6. \A d \in Calls : calls'[d] # None => calls'[d] = calls[d]
    BY <1>0, <2>1 DEF TypeOK
  <2> QED
    BY <2>1, <2>5, <2>6 DEF StackInv, TableMeansLoggedIn, WaitingAtLogin, AtLogin, Top
<1>6. CASE PutAnswered
  <2>1. /\ UNCHANGED <<isUserLoggedIn, uid, running, screens, calls>> /\ running
        /\ puts # <<>> /\ puts' = Tail(puts)
    BY <1>6 DEF PutAnswered, defaults, ui
  <2> DEFINE b == [kind |-> "profileWritten", user |-> Head(puts).user, at |-> Head(puts).at]
  <2>2. Head(puts) \in Put /\ AtLogin(Head(puts).at) /\ b \in Block /\ AtLogin(b.at)
    <3>1. puts \in Seq(Put)
      BY <1>0 DEF TypeOK
    <3>2. Head(puts) \in Put /\ Head(puts) = puts[1] /\ 1 \in 1..Len(puts)
      BY <2>1, <3>1, HeadTaken
    <3>3. AtLogin(Head(puts).at)
      BY <3>2 DEF StackInv, WaitingAtLogin
    <3> QED BY <3>2, <3>3 DEF Put, Block
  <2>3. mainQueue \in Seq(Block) /\ (mainQueue' = mainQueue \/ mainQueue' = Append(mainQueue, b))
    BY <1>0, <1>6 DEF PutAnswered, Enqueue, TypeOK
  <2> HIDE DEF b
  <2>4. \A i \in 1..Len(mainQueue') : AtLogin(mainQueue'[i].at)
    <3> SUFFICES ASSUME NEW i \in 1..Len(mainQueue')  PROVE AtLogin(mainQueue'[i].at)
      OBVIOUS
    <3>1. CASE i \in 1..Len(mainQueue)
      <4>1. mainQueue'[i] = mainQueue[i] BY <2>2, <2>3, <3>1
      <4> QED BY <3>1, <4>1 DEF StackInv, WaitingAtLogin
    <3>2. CASE i \notin 1..Len(mainQueue)
      <4>1. mainQueue'[i] = b BY <2>2, <2>3, <3>2
      <4> QED BY <2>2, <4>1
    <3> QED BY <3>1, <3>2
  <2>5. \A i \in 1..Len(puts') : AtLogin(puts'[i].at)
    <3>1. puts \in Seq(Put)
      BY <1>0 DEF TypeOK
    <3> QED BY <2>1, <3>1, HeadTaken DEF StackInv, WaitingAtLogin
  <2> QED
    BY <2>1, <2>4, <2>5 DEF StackInv, TableMeansLoggedIn, WaitingAtLogin, AtLogin, Top
<1>7. ASSUME running, mainQueue # <<>>, mainQueue' = Tail(mainQueue)
      PROVE  /\ Head(mainQueue) \in Block /\ AtLogin(Head(mainQueue).at)
             /\ \A i \in 1..Len(mainQueue') : AtLogin(mainQueue'[i].at)
  <2>1. mainQueue \in Seq(Block)
    BY <1>0 DEF TypeOK
  <2> QED BY <1>7, <2>1, HeadTaken DEF StackInv, WaitingAtLogin
<1>8. CASE CompleteSignUp
  <2>1. /\ UNCHANGED <<isUserLoggedIn, uid, running, screens, calls>> /\ running
        /\ mainQueue # <<>> /\ mainQueue' = Tail(mainQueue)
        /\ puts' = Append(puts, [user |-> Head(mainQueue).user, at |-> Head(mainQueue).at])
    BY <1>8 DEF CompleteSignUp, Dequeue, defaults, ui
  <2>2. Head(mainQueue) \in Block /\ AtLogin(Head(mainQueue).at)
        /\ \A i \in 1..Len(mainQueue') : AtLogin(mainQueue'[i].at)
    BY <1>7, <2>1
  <2>3. \A i \in 1..Len(puts') : AtLogin(puts'[i].at)
    BY <1>0, <2>1, <2>2 DEF TypeOK, StackInv, WaitingAtLogin, Block, Put
  <2> QED
    BY <2>1, <2>2, <2>3 DEF StackInv, TableMeansLoggedIn, WaitingAtLogin, AtLogin, Top
<1>9. ASSUME NEW t \in Screen, screens' = Append(screens, t), running, running',
             screens # <<>> => Top.kind # t.kind, t.kind = "plants" => isUserLoggedIn',
             UNCHANGED <<calls, puts>>, \A i \in 1..Len(mainQueue') : AtLogin(mainQueue'[i].at)
      PROVE  StackInv'
  <2>1. /\ screens \in Seq(Screen) /\ screens' # <<>>
        /\ Len(screens') = Len(screens) + 1 /\ screens'[Len(screens) + 1] = t
        /\ \A i \in 1..Len(screens) : screens'[i] = screens[i]
    BY <1>0, <1>9, Presented DEF TypeOK
  <2>3. WaitingAtLogin'
    BY <1>9, <2>1 DEF AtLogin, WaitingAtLogin, StackInv
  <2>4. (Top.kind = "plants" => isUserLoggedIn)'
    BY <1>9, <2>1 DEF Top
  <2>5. ASSUME NEW i \in DOMAIN screens', i > 1  PROVE screens'[i].kind # screens'[i - 1].kind
    <3>1. DOMAIN screens' = 1..(Len(screens) + 1) /\ Len(screens) \in Nat
      BY <1>0, <2>1 DEF TypeOK
    <3>2. CASE i = Len(screens) + 1
      <4>1. i - 1 = Len(screens) /\ Len(screens) \in 1..Len(screens) /\ screens # <<>>
        BY <2>1, <2>5, <3>1, <3>2
      <4> QED BY <1>9, <2>1, <3>2, <4>1 DEF Top
    <3>3. CASE i # Len(screens) + 1
      <4>1. i \in 1..Len(screens) /\ i - 1 \in 1..Len(screens) /\ DOMAIN screens = 1..Len(screens)
        BY <2>1, <2>5, <3>1, <3>3
      <4> QED BY <2>1, <2>5, <4>1 DEF StackInv, TableMeansLoggedIn
    <3> QED BY <3>2, <3>3
  <2> QED BY <1>0, <1>9, <2>1, <2>3, <2>4, <2>5 DEF StackInv, TableMeansLoggedIn
<1>10. CASE CompleteSignIn
  <2>1. /\ running /\ running' /\ mainQueue # <<>> /\ mainQueue' = Tail(mainQueue)
        /\ isUserLoggedIn' = TRUE /\ UNCHANGED <<calls, puts>>
        /\ SignedIn(Head(mainQueue).user, Head(mainQueue).at)
    BY <1>10 DEF CompleteSignIn, Dequeue, SignedIn
  <2>2. Head(mainQueue) \in Block /\ AtLogin(Head(mainQueue).at)
        /\ \A i \in 1..Len(mainQueue') : AtLogin(mainQueue'[i].at)
    BY <1>7, <2>1
  <2>3. CASE CanPresent(Head(mainQueue).at)
    <3>1. screens' = Append(screens, PlantsScreen(Head(mainQueue).user))
      BY <2>1, <2>3 DEF SignedIn
    <3>2. PlantsScreen(Head(mainQueue).user) \in Screen
          /\ PlantsScreen(Head(mainQueue).user).kind = "plants"
      BY <2>2, ScreenTypes DEF Block, PlantsScreen
    <3>3. Top.kind = "login"
      BY <2>2, <2>3 DEF CanPresent, AtLogin, Top
    <3> QED BY <1>9, <2>1, <2>2, <3>1, <3>2, <3>3
  <2>4. CASE ~CanPresent(Head(mainQueue).at)
    <3>1. screens' = screens
      BY <2>1, <2>4 DEF SignedIn
    <3> QED BY <1>0, <2>1, <2>2, <3>1
            DEF StackInv, TableMeansLoggedIn, WaitingAtLogin, AtLogin, Top
  <2> QED BY <2>3, <2>4
<1>11. CASE logoutButtonTapped
  <2>1. /\ running /\ running' /\ screens' = Append(screens, LoginScreen)
        /\ UNCHANGED <<calls, puts, mainQueue>> /\ Top.kind = "plants"
    BY <1>11 DEF logoutButtonTapped, CanTap
  <2>2. LoginScreen \in Screen /\ LoginScreen.kind = "login"
    BY ScreenTypes DEF LoginScreen
  <2>3. \A i \in 1..Len(mainQueue') : AtLogin(mainQueue'[i].at)
    BY <2>1 DEF StackInv, WaitingAtLogin
  <2> QED BY <1>9, <2>1, <2>2, <2>3
<1> QED
  BY <1>1, <1>2, <1>3, <1>4, <1>5, <1>6, <1>8, <1>10, <1>11 DEF Next, Completion

(* However requests, late answers, failures and logouts overlap, a table is on
   top only while the defaults say that its viewer is logged in, and tables are
   presented over login screens only. *)
THEOREM TablesMeanLoggedIn == Spec => []TableMeansLoggedIn
<1>1. Init => StackInv
  BY DEF Init, StackInv, TableMeansLoggedIn, WaitingAtLogin, Quiet
<1>2. StackInv => TableMeansLoggedIn
  BY DEF StackInv
<1> QED BY <1>1, <1>2, StackStep, AccountInvariant, PTL DEF Spec

-------------------------------------------------------------------------------
(* The form. *)

(* loginSegmentChanged shows the username field exactly under "Sign Up": one of
   its branches sets the field, the other toggles it, and both agree on every
   form that can be on screen. *)
THEOREM FormsAreConsistent == Spec => []UsernameWhenSigningUp
<1> DEFINE FormInv == form \in {NewForm, [button |-> "Sign Up", usernameHidden |-> FALSE]}
<1>1. Init => FormInv
  BY DEF Init
<1>2. FormInv /\ [Next]_vars => FormInv'
  <2> SUFFICES ASSUME FormInv, [Next]_vars  PROVE FormInv'
    OBVIOUS
  <2>1. CASE loginSegmentChanged
    <3>1. CASE form = NewForm
      <4>1. form.button = "Login"
        BY <3>1 DEF NewForm
      <4>2. form' = [button |-> "Sign Up", usernameHidden |-> FALSE]
        BY <2>1, <4>1 DEF loginSegmentChanged
      <4>3. QED BY <4>2, Zenon
    <3>2. CASE form = [button |-> "Sign Up", usernameHidden |-> FALSE]
      <4>1. form.button # "Login" /\ ~form.usernameHidden
        BY <3>2
      <4>2. form' = [button |-> "Login", usernameHidden |-> ~form.usernameHidden]
        BY <2>1, <4>1, Zenon DEF loginSegmentChanged
      <4>3. (~form.usernameHidden) = TRUE
        BY <4>1, Zenon
      <4>4. form' = NewForm
        BY <4>2, <4>3, Zenon DEF NewForm
      <4>5. QED BY <4>4, Zenon
    <3>3. QED BY <3>1, <3>2
  <2>2. CASE Launch \/ Kill \/ logoutButtonTapped
    BY <2>2 DEF Launch, Kill, logoutButtonTapped
  <2>3. CASE UNCHANGED form
    BY <2>3
  <2>4. QED
    BY <2>1, <2>2, <2>3
    DEF Next, Completion, TapIncomplete, DismissAlert, loginSignUpButtonTapped, AuthGranted,
        AuthFailed, PutAnswered, CompleteSignIn, CompleteSignUp, CompleteFailed, LogoutPresented,
        ui, vars
<1>3. FormInv => UsernameWhenSigningUp
  <2>1. CASE form = NewForm
    <3>1. form.button # "Sign Up" /\ form.usernameHidden
      BY <2>1 DEF NewForm
    <3>2. QED BY <3>1, Zenon DEF UsernameWhenSigningUp
  <2>2. CASE form = [button |-> "Sign Up", usernameHidden |-> FALSE]
    <3>1. form.button = "Sign Up" /\ ~form.usernameHidden
      BY <2>2
    <3>2. QED BY <3>1, Zenon DEF UsernameWhenSigningUp
  <2>3. QED BY <2>1, <2>2
<1>4. QED BY <1>1, <1>2, <1>3, PTL DEF Spec

===============================================================================
