---------------------------- MODULE WorkspaceLock ---------------------------
(***************************************************************************)
(* What the core promises to a run's workspace (INV-07): a lock per        *)
(* workspace that every run is given at most once.  An agent begins to     *)
(* write only while its run holds the lock, and the lock does not change   *)
(* hands while somebody writes.                                            *)
(***************************************************************************)
CONSTANTS Runs, Workspaces,
          Home,       \* Home[r]: the workspace of run r
          Nobody

VARIABLES holder,     \* holder[w]: the run that has the lock of w
          dispatched, \* runs that were given a lock
          writing     \* runs whose agent may write

lockVars == <<holder, dispatched, writing>>

LockInit ==
    /\ holder = [w \in Workspaces |-> Nobody]
    /\ dispatched = {}
    /\ writing = {}

\* Some agents come to their end, and workspaces that nobody writes to are
\* freed or given to runs that never had one.
Handover ==
    LET new == dispatched' \ dispatched IN
    /\ writing' \subseteq writing
    /\ dispatched \subseteq dispatched'
    /\ \A r \in new : r \in Runs /\ holder'[Home[r]] = r
    /\ \A w \in Workspaces :
          \/ holder'[w] = holder[w]
          \/ /\ holder'[w] \in new \cup {Nobody}
             /\ \A r \in writing' : Home[r] # w

\* An agent begins to write.
Enter(r) ==
    /\ holder[Home[r]] = r
    /\ writing' = writing \cup {r}
    /\ UNCHANGED <<holder, dispatched>>

LockNext == Handover \/ \E r \in Runs : Enter(r)

LockSpec == LockInit /\ [][LockNext]_lockVars
=============================================================================
