---------------------------- MODULE MCScheduler ----------------------------
(***************************************************************************)
(* The scheduler under places that between them make every call.           *)
(***************************************************************************)
EXTENDS Scheduler

CONSTANTS s1, s2

\* Under a frame budget: every way to wait, to start something and to wake somebody.
Budgeted == [scripts |-> {s1}, frameBudget |-> TRUE, fuel |-> 3,
             calls |-> {"wait", "waitSignal", "waitChild", "spawn", "defer", "delay", "cancel",
                        "connect", "fire", "reparent"}]

\* Two scripts that stop and start each other and themselves.
Stopping == [scripts |-> {s1, s2}, frameBudget |-> FALSE, fuel |-> 2,
             calls |-> {"wait", "waitSignal", "defer", "stop", "cancel", "connect", "once",
                        "disconnect"}]

\* Two scripts and breakpoints in them.
Debugged == [scripts |-> {s1, s2}, frameBudget |-> FALSE, fuel |-> 2,
             calls |-> {"wait", "delay", "stop", "cancel", "connect", "breakpoint"}]

EveryPlace == {Budgeted, Stopping, Debugged}

\* As Budgeted, nobody waiting for a child.
Timed == {[Budgeted EXCEPT !.fuel = 2, !.calls = @ \ {"waitChild", "reparent"}]}

(***************************************************************************)
(* Places whose calls the ones above leave out, because the code does not   *)
(* keep what its comments say of them (README, section 7).                 *)
(***************************************************************************)
Faulty(budget, calls) ==
    {[scripts |-> {s1}, frameBudget |-> budget, fuel |-> 2, calls |-> calls]}

Cancelling     == Faulty(FALSE, {"spawn", "waitSignal", "cancel", "cancelWaiting"})
StoppingDue    == Faulty(FALSE, {"wait", "spawn", "stop", "midpass"})
SpawningAsleep == Faulty(FALSE, {"wait", "delay", "spawn", "handles"})
Disconnecting  == Faulty(FALSE, {"connect", "disconnect", "midfire"})
OutlivingStop  == Faulty(FALSE, {"defer", "stop", "afterlife"})
BreakingTwice  == Faulty(FALSE, {"wait", "spawn", "breakpoint"})
AwaitingChild  == Faulty(TRUE, {"wait", "waitChild"})
BreakingOnce   == BreakingTwice

\* No thread is told from another by anything but what happens to it.
ThreadSymmetry == Permutations(Thread)
=============================================================================
