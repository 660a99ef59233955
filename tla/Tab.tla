--------------------------------- MODULE Tab ---------------------------------
(***************************************************************************)
(* One tab of the console (src/web/app.js).  JavaScript runs one handler   *)
(* at a time, up to its next await; `action` lets one operation of the     *)
(* whole tab be in progress and drops every click meanwhile.  What timers  *)
(* and the chat start goes on beside it.                                   *)
(***************************************************************************)

VARIABLE doing     \* the operation in progress; state.busy is Busy

Busy == doing # "nothing"

\* A click whose handler goes on after an await.
Starts(operation) == ~Busy /\ doing' = operation

\* A click whose handler runs to its end at once.
AtOnce == ~Busy /\ UNCHANGED doing

\* The finally of `action`.
Ends(operation) == doing = operation /\ doing' = "nothing"

GoesOn(operation, next) == doing = operation /\ doing' = next

TabInit == doing = "nothing"
=============================================================================
