------------------------------ MODULE MCProfile -------------------------------
(* Profile on a small instance: two users and one name that can be saved. *)
EXTENDS Profile

CONSTANTS u1, u2, name

MCUsers == {u1, u2}
MCLongNames == {name}

===============================================================================
