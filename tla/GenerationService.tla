--------------------------- MODULE GenerationService ---------------------------
(***************************************************************************)
(* What publication and a replica promise together to whoever resolves     *)
(* requests, with no file, lock, read or copy in sight: generations are    *)
(* published, one is served, and the newest served one may be kept over a  *)
(* restart.                                                                *)
(*                                                                         *)
(* A generation is any value with a `generation` number, counted from 1.   *)
(* Files that no record names yet are served as generation 0.              *)
(***************************************************************************)
EXTENDS Naturals

CONSTANT Nothing  \* no generation

VARIABLES
    published,    \* every generation published so far
    served,       \* what requests resolve against
    kept          \* what a restart can fall back on

serviceVars == <<published, served, kept>>

Unrecorded == [generation |-> 0]

NoOlder(g, h) == h # Nothing => g.generation >= h.generation

ServiceInit ==
    /\ published = {}
    /\ served = Nothing
    /\ kept = Nothing

Publish ==
    /\ published \subseteq published'
    /\ UNCHANGED <<served, kept>>

\* A published generation, whole, or the unrecorded files: no older than what
\* was served or, after a restart, than what was kept.
Serve ==
    /\ served' \in published \cup {Unrecorded}
    /\ NoOlder(served', served)
    /\ served = Nothing => NoOlder(served', kept)
    /\ UNCHANGED <<published, kept>>

\* Only what is served is kept, and only over something no newer.
Keep ==
    /\ served \in published
    /\ NoOlder(served, kept)
    /\ kept' = served
    /\ UNCHANGED <<published, served>>

Forget ==
    /\ kept' = Nothing
    /\ UNCHANGED <<published, served>>

Stop ==
    /\ served' = Nothing
    /\ UNCHANGED <<published, kept>>

ServiceNext == Publish \/ Serve \/ Keep \/ Forget \/ Stop

Service == ServiceInit /\ [][ServiceNext]_serviceVars

================================================================================
