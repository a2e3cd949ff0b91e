----------------------------- MODULE Measurement -----------------------------
(***************************************************************************)
(* What a run of var promises, whatever its threads do: the hardware       *)
(* counters are opened by the START batches, every worker (a poll or a     *)
(* benchmark thread) does all of its work while they are open, they are    *)
(* closed by the STOP batches once no worker is left, read, and only then  *)
(* is the memory that holds the results given back.  The process may die   *)
(* at any moment; nothing happens after that.                              *)
(* Job refines this module.                                                *)
(***************************************************************************)
CONSTANT Worker

VARIABLES
    phase,      \* how far the measurement has got
    active,     \* workers that may be touching the job
    finished    \* workers that have returned

vars == <<phase, active, finished>>

Phase == {"arming", "open", "closed", "read", "released", "dead"}

TypeOK ==
    /\ phase \in Phase
    /\ active \subseteq Worker
    /\ finished \subseteq Worker

Init ==
    /\ phase = "arming"
    /\ active = {}
    /\ finished = {}

Advance(from, to) ==
    /\ phase = from
    /\ phase' = to
    /\ UNCHANGED <<active, finished>>

Open == Advance("arming", "open")

Begin(w) ==
    /\ phase = "open"
    /\ w \notin active \cup finished
    /\ active' = active \cup {w}
    /\ UNCHANGED <<phase, finished>>

End(w) ==
    /\ phase = "open"
    /\ w \in active
    /\ active' = active \ {w}
    /\ finished' = finished \cup {w}
    /\ UNCHANGED phase

Close == finished = Worker /\ Advance("open", "closed")
Read == Advance("closed", "read")
Release == Advance("read", "released")
Die == \E p \in Phase \ {"dead"} : Advance(p, "dead")

Next ==
    \/ Open \/ Close \/ Read \/ Release \/ Die
    \/ \E w \in Worker : Begin(w) \/ End(w)

Spec == Init /\ [][Next]_vars

=============================================================================
