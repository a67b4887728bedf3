----------------------------- MODULE MCSettings ------------------------------
(* Two features and one user.                                               *)
EXTENDS Settings

CONSTANTS f1, f2, u1, set

MCRows == [features |-> {f1, f2}, users |-> {u1}]
MCValues == [features |-> {set}, users |-> {set, Off}]
=============================================================================
