------------------------------ MODULE MCWatering ------------------------------
(* The plant store with its reminders on a small instance: two accounts, two
   plants, one non-empty text.  Accounts, and plants, are interchangeable. *)
EXTENDS Watering, TLC

CONSTANTS u1, u2, p1, p2, w

MCUsers == {u1, u2}
MCObjects == {p1, p2}
MCWords == {w}
MCSymmetry == Permutations(MCUsers) \cup Permutations(MCObjects)

(* The plants of the context and of the store. *)
Plants == {c[o] : c \in {ctx, store}, o \in Objects} \ {None}

(* Bounds.  A behaviour has every frequency and reminders, or photos, or a
   clock that is set back. *)
Frequencies == ~setBack /\ \A p \in Plants : p.image = None
Plain == issued = 0 /\ now <= 2 /\ \A p \in Plants : p.frequency = Titles[1]
Photos == Plain /\ ~setBack
AnyClock == Plain /\ \A p \in Plants : p.image = None
MCNext ==
  /\ WNext
  /\ now' <= now + 1
  /\ (Frequencies \/ Photos \/ AnyClock)'

MCSpec == WInit /\ [][MCNext]_wvars

===============================================================================
