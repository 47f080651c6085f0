------------------------------- MODULE TaskList -------------------------------
(***************************************************************************)
(* What tasks and clear_tasks promise their clients of the sessions of Super  *)
(* RTAC: a session is listed from the moment it is made, gathers output while  *)
(* it goes on, and once it is over it stays so, with the output it has, until  *)
(* it is cleared. Nothing is shown of locks, loops and threads.               *)
(* Module RTACSessions implements this one.                                 *)
(***************************************************************************)
EXTENDS Integers

CONSTANT Sessions

VARIABLES
    life,       \* life[s]: how far session s is
    out         \* out[s]: the output that tasks shows of it

taskvars == <<life, out>>

TaskInit ==
    /\ life = [s \in Sessions |-> "none"]
    /\ out = [s \in Sessions |-> 0]

Turn(s, from, to) ==
    /\ life[s] = from
    /\ life' = [life EXCEPT ![s] = to]
    /\ UNCHANGED out

Gather(s) ==
    /\ life[s] = "going"
    /\ out' = [out EXCEPT ![s] = @ + 1]
    /\ UNCHANGED life

TaskNext ==
    \E s \in Sessions :
        \/ Turn(s, "none", "going")
        \/ Gather(s)
        \/ Turn(s, "going", "over")
        \/ Turn(s, "over", "cleared")

TaskSpec == TaskInit /\ [][TaskNext]_taskvars
=============================================================================
