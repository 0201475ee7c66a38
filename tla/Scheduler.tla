------------------------------ MODULE Scheduler ------------------------------
(***************************************************************************)
(* Processes, threads and process_scheduler (process/process.c, process.h, *)
(* process/scheduler/scheduler.c).  The code creates processes and threads *)
(* and switches between threads that are ready, but nothing in it makes a  *)
(* thread ready, stops one, fills the array process_threads with its       *)
(* thread_count or links a process into process_table: the actions Load,   *)
(* Wake and Stop stand for the kernel that would, and are external.        *)
(*                                                                         *)
(* A thread is a process and its index in the array.  What a new process   *)
(* gets besides its number (name, page table) is left out.                 *)
(***************************************************************************)
EXTENDS Integers, Sequences

CONSTANTS
    TableSize,      \* processes linked into process_table, in its order
    MaxThreads,     \* bound: the threads of a process
    MaxCreated      \* bound: calls that create

VARIABLES
    process_threads,    \* for each process the states of its threads
    current_thread,     \* <<process, index>>, or <<0, 0>> for NULL
    interrupts,         \* of the core
    assigned_process_id, next_thread_id,
    linked, lost,       \* created threads: behind the array's first; nowhere
    passed              \* for each thread: the calls that left it ready while
                        \* they chose a thread of its process

threads == <<process_threads, current_thread, passed>>
created == <<assigned_process_id, next_thread_id, linked, lost>>
vars == <<threads, interrupts, created>>

Processes == 1 .. TableSize
NULL == <<0, 0>>
States == {"NEW", "RUNNING", "READY", "WAITING", "SUSPENDED", "BLOCKED", "KILLED"}

Init ==
    /\ process_threads = [p \in Processes |-> <<>>]
    /\ current_thread = NULL /\ interrupts = TRUE
    /\ assigned_process_id = 0 /\ next_thread_id = 0
    /\ linked = [p \in Processes |-> 0] /\ lost = 0
    /\ passed = [p \in Processes |-> <<>>]

State(t) == process_threads[t[1]][t[2]]
Threads == {t \in Processes \X (1 .. MaxThreads) : t[2] <= Len(process_threads[t[1]])}
Ready(p) == {i \in DOMAIN process_threads[p] : process_threads[p][i] = "READY"}
Least(s) == CHOOSE i \in s : \A j \in s : i <= j

-----------------------------------------------------------------------------
(* Creation.                                                               *)

create_process ==
    /\ assigned_process_id + next_thread_id < MaxCreated
    /\ assigned_process_id' = assigned_process_id + 1
    /\ UNCHANGED <<threads, interrupts, next_thread_id, linked, lost>>

\* A process without threads has NULL for its array, and the thread is copied
\* to address 0; otherwise it is linked behind the others.
create_thread(p) ==
    /\ assigned_process_id + next_thread_id < MaxCreated
    /\ next_thread_id' = next_thread_id + 1
    /\ IF process_threads[p] = <<>>
       THEN lost' = lost + 1 /\ UNCHANGED linked
       ELSE linked' = [linked EXCEPT ![p] = @ + 1] /\ UNCHANGED lost
    /\ UNCHANGED <<threads, assigned_process_id>>

create_kernel_thread == (\E p \in Processes : create_thread(p)) /\ UNCHANGED interrupts

\* The function returns before it enables interrupts again.
create_user_thread == (\E p \in Processes : create_thread(p)) /\ interrupts' = FALSE

-----------------------------------------------------------------------------
(* What the kernel around it would do.                                     *)

Load ==
    /\ \E p \in Processes, n \in 1 .. MaxThreads :
        /\ process_threads[p] = <<>>
        /\ process_threads' = [process_threads EXCEPT ![p] = [i \in 1 .. n |-> "NEW"]]
        /\ passed' = [passed EXCEPT ![p] = [i \in 1 .. n |-> 0]]
    /\ UNCHANGED <<current_thread, interrupts, created>>

Become(t, state) ==
    /\ process_threads' = [process_threads EXCEPT ![t[1]][t[2]] = state]
    /\ passed' = [passed EXCEPT ![t[1]][t[2]] = 0]
    /\ UNCHANGED <<current_thread, interrupts, created>>

Wake == \E t \in Threads : State(t) \notin {"RUNNING", "READY"} /\ Become(t, "READY")
Stop == \E t \in Threads : State(t) \in {"RUNNING", "READY"} /\ Become(t, "WAITING")

-----------------------------------------------------------------------------
(* process_scheduler.                                                      *)

\* The processes behind p in the list, then those from its head.
After(p) == [k \in 1 .. TableSize - 1 |-> ((p + k - 1) % TableSize) + 1]

\* The first ready thread in a list of processes.
FirstReady(list) ==
    LET busy == {k \in DOMAIN list : Ready(list[k]) # {}} IN
    IF busy = {} THEN NULL ELSE <<list[Least(busy)], Least(Ready(list[Least(busy)]))>>

\* Mutant: the search starts at the array's first thread.
NextFromFirst(t) ==
    IF Ready(t[1]) \ {t[2]} = {} THEN NULL ELSE <<t[1], Least(Ready(t[1]) \ {t[2]})>>

\* The next ready thread of the same process, in a circle.
NextInProcess(t) ==
    LET others == Ready(t[1]) \ {t[2]}
        behind == {i \in others : i > t[2]}
    IN  IF others = {} THEN NULL
        ELSE <<t[1], Least(IF behind # {} THEN behind ELSE others)>>

Chosen ==
    IF current_thread = NULL THEN FirstReady([p \in Processes |-> p])
    ELSE IF NextInProcess(current_thread) # NULL THEN NextInProcess(current_thread)
    ELSE FirstReady(After(current_thread[1]))

\* Mutant: the thread that ran keeps its state.
SwitchFromRunning(next) ==
    [p \in Processes |-> [i \in DOMAIN process_threads[p] |->
        IF <<p, i>> = next THEN "RUNNING" ELSE process_threads[p][i]]]

\* The thread that ran becomes ready, whatever state it was in.
Switch(next) ==
    [p \in Processes |-> [i \in DOMAIN process_threads[p] |->
        CASE <<p, i>> = next -> "RUNNING"
          [] <<p, i>> = current_thread /\ <<p, i>> # next -> "READY"
          [] OTHER -> process_threads[p][i]]]

process_scheduler ==
    /\ Chosen # NULL
    /\ process_threads' = Switch(Chosen) /\ current_thread' = Chosen
    /\ passed' = [p \in Processes |-> [i \in DOMAIN passed[p] |->
            IF p = Chosen[1] /\ i \in Ready(p) \ {Chosen[2]} THEN passed[p][i] + 1 ELSE 0]]
    /\ UNCHANGED <<interrupts, created>>

Next ==
    \/ create_process \/ create_kernel_thread \/ create_user_thread
    \/ Load \/ Wake \/ Stop \/ process_scheduler

Spec == Init /\ [][Next]_vars

-----------------------------------------------------------------------------
\* However threads are stopped and woken, no thread runs but the current one.
OneRunning == \A t \in Threads : State(t) = "RUNNING" => t = current_thread

\* While any thread but the current one is ready, in whatever process of the
\* list, a call of process_scheduler switches to one that is; and a ready
\* thread is not passed over, by calls that choose threads of its process, more
\* often than the process has other threads.
ReadyThreadsGetTurns ==
    /\ (\E t \in Threads : State(t) = "READY" /\ t # current_thread)
       => Chosen # NULL /\ State(Chosen) = "READY"
    /\ \A t \in Threads : passed[t[1]][t[2]] < Len(process_threads[t[1]])
=============================================================================
