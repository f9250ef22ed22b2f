------------------------ MODULE ServerStatusMachine ------------------------
(***************************************************************************)
(* What the API promises of the status it shows for a server: the order in *)
(* which common/domain/server/entity.py lets the status move, whoever      *)
(* writes it and however late.  A server is built once, it fails or runs;  *)
(* start takes a stopped server and stop a running or failed one; a        *)
(* deleted server is deleted for ever.                                     *)
(***************************************************************************)
CONSTANT Server

VARIABLE shown  \* the status of each server as clients see it

States == {"NONE", "BUILD", "ACTIVE", "SHUTOFF", "ERROR", "DELETED"}

Existing == States \ {"NONE", "DELETED"}

Moves ==
  {<<"NONE", "BUILD">>, <<"BUILD", "ACTIVE">>, <<"BUILD", "ERROR">>,
   <<"ACTIVE", "SHUTOFF">>, <<"ERROR", "SHUTOFF">>, <<"SHUTOFF", "ACTIVE">>}
    \cup (Existing \X {"DELETED"})

Init == shown = [s \in Server |-> "NONE"]

Move(s) ==
  \E to \in States :
    /\ <<shown[s], to>> \in Moves
    /\ shown' = [shown EXCEPT ![s] = to]

Next == \E s \in Server : Move(s)

Spec == Init /\ [][Next]_shown
=============================================================================
