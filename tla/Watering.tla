------------------------------- MODULE Watering -------------------------------
(***************************************************************************)
(* Watering a plant: the button of the detail screen, the reminder that    *)
(* LocalNotifications hands to the notification center, and the alert that *)
(* says when it will come.  Requests are kept by the system: they survive  *)
(* the process, and nothing in the app withdraws one.                      *)
(***************************************************************************)
EXTENDS PlantStore

CONSTANT MaxReminders   \* bound: waterings

VARIABLES
  requests,  \* pending requests in the notification center
  issued,    \* how many requests were made; stands for the fresh UUID
  alert      \* timeInterval of the alert over the detail screen, or -1

wvars == <<vars, requests, issued, alert>>
reminders == <<requests, issued, alert>>

NoAlert == -1

ASSUME MaxRemindersAssumption == MaxReminders \in Nat

(* A slip to rule out: a title of the control that the switch lacks. *)
timeIntervalOfTwo(frequency) ==
  CASE frequency = "Once a day" -> 86400
    [] frequency = "Twice a day" -> 28800
    [] OTHER -> 0

(* The switch of waterPlantNotification, in seconds. *)
timeInterval(frequency) ==
  CASE frequency = "Once a day" -> 86400
    [] frequency = "Twice a day" -> 28800
    [] frequency = "Thrice a day" -> 18000
    [] frequency = "Often" -> 10
    [] OTHER -> 0

(* The switch of alertController: the seconds its message promises. *)
timeIntervalString(interval) ==
  CASE interval = 10 -> 10             \* "in 10 seconds"
    [] interval = 18000 -> 4 * 3600    \* "in 4 hours"
    [] interval = 28800 -> 8 * 3600    \* "in 8 hours"
    [] interval = 86400 -> 24 * 3600   \* "by tomorrow"
    [] OTHER -> 0                      \* no time at all

Request == [identifier : Nat, nickname : Texts, timeInterval : Nat]

WTypeOK ==
  /\ TypeOK
  /\ requests \subseteq Request
  /\ issued \in Nat
  /\ alert \in {NoAlert} \cup Nat

WInit ==
  /\ Init
  /\ requests = {}
  /\ issued = 0
  /\ alert = NoAlert

(* waterPlantNotification.  The request is lost when the center reports an
   error, which is only printed; the alert is shown all the same.  A trigger
   of zero seconds raises. *)
waterPlantNotification(p) ==
  LET interval == timeInterval(p.frequency)
      request == [identifier |-> issued', nickname |-> p.nickname,
                  timeInterval |-> interval]
  IN \/ /\ interval > 0
        /\ requests' \in {requests, requests \cup {request}}
        /\ alert' = interval
        /\ UNCHANGED screen
     \/ /\ interval = 0
        /\ screen' = "trapped"
        /\ UNCHANGED <<requests, alert>>

(* plantButtonTapped.  A detached plant has no nickname: nothing happens. *)
plantButtonTapped ==
  /\ Active /\ screen = "detail" /\ alert = NoAlert
  /\ plant \notin invalid
  /\ issued < MaxReminders
  /\ issued' = issued + 1
  /\ waterPlantNotification(ctx[plant])
  /\ UNCHANGED <<ctx, disk, background, table, plant, clock, failures>>

(* The alert's Ok: popToRootViewController. *)
AlertOk ==
  /\ Active /\ alert # NoAlert
  /\ alert' = NoAlert
  /\ screen' = "table"
  /\ plant' = None
  /\ UNCHANGED <<ctx, disk, background, table, clock, failures, requests, issued>>

(* The system delivers a request; it does not repeat. *)
Deliver ==
  /\ \E r \in requests : requests' = requests \ {r}
  /\ UNCHANGED <<vars, issued, alert>>

(* A slip to rule out: an alert that leaves the screen below it usable. *)
ElsewhereNotModal ==
  Next /\ UNCHANGED <<requests, issued>> /\ alert' = IF screen' = "off" THEN NoAlert ELSE alert

(* A modal alert takes the touches from the screens below it. *)
Elsewhere ==
  \/ alert = NoAlert /\ Next /\ UNCHANGED reminders
  \/ /\ alert # NoAlert
     /\ EnterBackground \/ EnterForeground \/ ReloadAfterDelete
          \/ \E u \in Users : LateSignUp(u)
     /\ UNCHANGED reminders
  \/ alert # NoAlert /\ Kill /\ alert' = NoAlert /\ UNCHANGED <<requests, issued>>

WNext == plantButtonTapped \/ AlertOk \/ Deliver \/ Elsewhere

WSpec == WInit /\ [][WNext]_wvars

-------------------------------------------------------------------------------
(* Properties. *)

(* Every frequency that any writer put into the context or the store is one
   the reminder's switch knows, so that no trigger is created with a zero
   interval, which would stop the app. *)
FrequencyHasInterval ==
  \A o \in Objects : \A c \in {ctx, store} :
    c[o] # None => timeInterval(c[o].frequency) > 0

(* The alert is about the plant that is still on the detail screen beneath
   it, and a plant of the table's owner: nothing that runs while it is up
   takes the plant away. *)
AlertHasItsPlant ==
  alert # NoAlert /\ screen # "trapped" =>
    /\ screen = "detail"
    /\ ctx[plant] # None
    /\ ctx[plant].id = owner
    /\ timeInterval(ctx[plant].frequency) = alert

(* The alert: "We'll notify you <timeIntervalString> to water them again." *)
AlertTellsTheTime == alert # NoAlert => timeIntervalString(alert) = alert

===============================================================================
