----------------------------- MODULE MCScheduler -----------------------------
(* Constants for model-checking Scheduler on small instances. *)
EXTENDS Scheduler, TLC

Load(first, second, ps, ss, ts) ==
    [calls |-> [p \in Pids |-> IF ToString(p) = "p1" THEN first ELSE second],
     posts |-> ps, stops |-> ss, throws |-> ts]

\* Each asks for one kind of trouble: messages and their time limits; a process
\* controlled by another; locks and timer passes that fail; commands, stops, failures.
MostLoads == {
    Load({"recv", "await", "sleep"}, {"send", "signal", "recv"}, 0, 1, 0),
    Load({"recv", "lock", "sleep"}, {"signal", "kill", "pause", "resume"}, 0, 0, 1),
    Load({"lock"}, {"lock", "sleep"}, 0, 0, 1),
    Load({"recv"}, {}, 3, 1, 2) }

\* A process that signals and kills itself.
OneLoad == {Load({"signal", "kill"}, {}, 0, 0, 0)}
=============================================================================
