-------------------------- MODULE MCPostgresStore --------------------------
(***************************************************************************)
(* Small instances, for one TLC run, of parts of the control plane that    *)
(* keep their state in PostgreSQL: the runner queue, findings with their   *)
(* audit, and live events.  The parts share no state: a behaviour is one   *)
(* of "part" while the others stay where they began.                       *)
(***************************************************************************)
EXTENDS MCPostgresQueue, FindingAudit, LiveEvents

CONSTANTS f1, f2, run1, run2, writer1, writer2, fetch1, fetch2

Runs == f1 :> run1 @@ f2 :> run2

\* The two writers change places, and so do the fetches.
Symmetry ==
  {p \in Permutations({writer1, writer2, fetch1, fetch2}) :
     /\ {p[writer1], p[writer2]} = {writer1, writer2}
     /\ p[writer1] = writer1 <=> p[fetch1] = fetch1}

VARIABLE part

StoreInit ==
  /\ part \in {"queue", "findings", "events"}
  /\ Init /\ FindingInit /\ LiveInit

StoreNext ==
  /\ UNCHANGED part
  /\ \/ part = "queue" /\ Next /\ UNCHANGED <<findingVars, liveVars>>
     \/ part = "findings" /\ FindingNext /\ UNCHANGED <<vars, liveVars>>
     \/ part = "events" /\ LiveNext /\ UNCHANGED <<vars, findingVars>>

StoreSpec == StoreInit /\ [][StoreNext]_<<part, vars, findingVars, liveVars>>

=============================================================================
