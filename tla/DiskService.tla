---------------------------- MODULE DiskService ----------------------------
(***************************************************************************)
(* What both disk drivers promise their callers: a call for some sectors   *)
(* returns either an error or exactly the sectors that were asked for, in  *)
(* their order.  How often the drive is asked, and what an attempt that    *)
(* failed left in the caller's memory, does not show.                      *)
(***************************************************************************)
CONSTANTS
  Requests,      \* what may be asked for
  Wanted(_),     \* the contents of the memory asked to be filled
  Nothing,       \* no call is going on
  Pending,       \* a call has not returned yet
  Error          \* it has returned false

VARIABLES request, result

Init == request = Nothing /\ result = Nothing

Call ==
  /\ request = Nothing
  /\ request' \in Requests
  /\ result' = Pending

Return ==
  /\ request # Nothing
  /\ request' = Nothing
  /\ result' \in {Wanted(request), Error}

Spec == Init /\ [][Call \/ Return]_<<request, result>>
=============================================================================
