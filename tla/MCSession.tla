------------------------------ MODULE MCSession -------------------------------
(* Session on a small instance: two accounts, two requests at a time. *)
EXTENDS Session

CONSTANTS
  u1, u2, c1, c2,
  MaxDepthOverlapped   \* bound: MaxDepth once a tap has overlapped a request

MCUsers == {u1, u2}
MCCalls == {c1, c2}

(* Taps that overlap a request, and later logouts, only on a shallow stack. *)
MCNext ==
  /\ Next
  /\ ~overlapped /\ overlapped' => Len(screens) <= MaxDepthOverlapped
  /\ overlapped /\ ~loggingOut /\ loggingOut' => Len(screens) < MaxDepthOverlapped

MCSpec == Init /\ [][MCNext]_vars /\ Fairness

===============================================================================
