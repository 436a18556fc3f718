----------------------------- MODULE TaskQueue -----------------------------
(***************************************************************************)
(* What a server expects of its task queue, and what ServerOps takes it    *)
(* for: a bounded sequence that refuses a task when it is full and hands   *)
(* the tasks out in the order they came in.                                *)
(***************************************************************************)
EXTENDS Naturals, Sequences

CONSTANTS Tasks, MaxSize, NULL

VARIABLES
    tasks,   \* the tasks that wait
    out,     \* the task handed out last
    alive    \* the queue has not been destroyed

vars == <<tasks, out, alive>>

Init == tasks = <<>> /\ out = NULL /\ alive = TRUE

Enqueue(t) ==
    /\ Len(tasks) < MaxSize
    /\ tasks' = Append(tasks, t)
    /\ UNCHANGED <<out, alive>>

HandOut ==
    /\ tasks # <<>>
    /\ out' = Head(tasks)
    /\ tasks' = Tail(tasks)
    /\ UNCHANGED alive

Destroy ==
    /\ tasks' = <<>>
    /\ alive' = FALSE
    /\ UNCHANGED out

Next == alive /\ ((\E t \in Tasks : Enqueue(t)) \/ HandOut \/ Destroy)

Spec == Init /\ [][Next]_vars
=============================================================================
