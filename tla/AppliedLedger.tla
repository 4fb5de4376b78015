------------------------- MODULE AppliedLedger --------------------------
(***************************************************************************)
(* What the applied-migration record promises to everyone who uses one     *)
(* target database, whatever runners, failures and histories there are:    *)
(* one owner at a time moves it, one migration per move, forward only onto *)
(* what the migration depends on and backward only when nothing recorded   *)
(* depends on it.  MigrationEngine implements it where the executor has a  *)
(* migration lock.                                                         *)
(***************************************************************************)
CONSTANTS
    Procs,      \* runners
    Ids,        \* migrations
    Deps,       \* Deps[m]: the migrations m depends on
    NoProc

VARIABLES
    applied,    \* the recorded migrations
    owner       \* the runner that may move them, or NoProc

Init == applied = {} /\ owner = NoProc

Own(p) ==
    /\ owner = NoProc
    /\ owner' = p
    /\ UNCHANGED applied

Disown(p) ==
    /\ owner = p
    /\ owner' = NoProc
    /\ UNCHANGED applied

Apply(p, m) ==
    /\ owner = p
    /\ m \notin applied
    /\ Deps[m] \subseteq applied
    /\ applied' = applied \cup {m}
    /\ UNCHANGED owner

Revert(p, m) ==
    /\ owner = p
    /\ m \in applied
    /\ \A n \in applied : m \notin Deps[n]
    /\ applied' = applied \ {m}
    /\ UNCHANGED owner

Next ==
    \E p \in Procs :
        \/ Own(p)
        \/ Disown(p)
        \/ \E m \in Ids : Apply(p, m) \/ Revert(p, m)

Spec == Init /\ [][Next]_<<applied, owner>>
=========================================================================
