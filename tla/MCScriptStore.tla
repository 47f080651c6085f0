---------------------------- MODULE MCScriptStore ----------------------------
(* Instances of ScriptStore for TLC. *)
EXTENDS ScriptStore, TLC

CONSTANTS t1, t2, t3, n1, n2, c1, c2

EmptyFile == [state |-> "ok", scripts |-> <<>>]

MCInitialFiles ==
    {Broken, EmptyFile,
     [state |-> "ok", scripts |-> <<[name |-> n1, content |-> c1]>>],
     [state |-> "ok", scripts |-> <<[name |-> n1, content |-> c1], [name |-> n2, content |-> c1]>>]}

ThreadSymmetry == Permutations(Threads)

\* States that TLC need not tell apart. Once a script may have been lost, nothing
\* is claimed of the contents any more, and a step asks of one only whether it is
\* a Hole: the contents and the history kept of them are left out.
Blurred(s) == [i \in DOMAIN s |-> <<s[i].name, s[i].content = Hole>>]

View ==
    IF excuse
    THEN <<mem.loaded, Blurred(mem.scripts), file.state, Blurred(file.scripts), fileio, memio,
           pc, [t \in Threads |-> <<req[t].op, req[t].name>>], at,
           walk.size, Blurred(walk.out), walk.lost, Blurred(walk.from), shuffled>>
    ELSE vars
=============================================================================
