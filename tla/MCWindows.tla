------------------------------ MODULE MCWindows ------------------------------
(* Small instances of Windows.  A minute is three units of time, and so is   *)
(* the retry window; the TTL of a limit's key is longer than the minute by   *)
(* just what a command may be late, as the code's 70 s are by 10 s.          *)
EXTENDS Windows, TLC

MCWindow == [rate |-> Minute + MaxDelay, retry |-> Minute]
Symmetry == Permutations(Calls)
=============================================================================
