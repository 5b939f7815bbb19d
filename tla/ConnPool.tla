------------------------------- MODULE ConnPool -------------------------------
(***************************************************************************)
(* ConnectionPool::with_conn of connection_pool.rs: callers that take a    *)
(* permit of the limiter, run a closure with a connection on a thread for  *)
(* blocking work, and wait for it; composed with the cancellation of       *)
(* util/futures.rs.  The future of a call is itself made cancelable, with  *)
(* a guard of the application, and the closure makes one so with the       *)
(* handle it is given.  Others get connections without a permit.           *)
(*                                                                         *)
(* tokio's semaphore and threads, and the r2d2 pool, are external.  The    *)
(* database stays up here; Gg20Gateway has one that goes down.             *)
(***************************************************************************)
EXTENDS Integers, Sequences, FiniteSets

CONSTANTS
    Callers,     \* calls of with_conn
    Borrowers,   \* calls of get
    PoolSize,    \* the connections, and the permits
    App,         \* the application's guard
    Shared       \* {App} if that may be a SharedCancelGuard

Task(c)  == <<c, "task">>
Outer(c) == <<c, "outer">>
Users    == Callers \X {"task", "outer"}

(* Each call has a guard of its own, known by the caller. *)
Guards == Callers \cup {App}

ASSUME NamesAssumption ==
    /\ App \notin Callers \cup Borrowers
    /\ Callers \cap Borrowers = {}
    /\ Guards \cap Users = {}
    /\ Shared \subseteq {App}
ASSUME PoolAssumption ==
    /\ IsFiniteSet(Callers) /\ IsFiniteSet(Borrowers)
    /\ PoolSize \in Nat \ {0}

VARIABLES
    call,         \* where each call stands
    queue,        \* the calls that wait for a permit, the first served first
    permits,      \* the calls that hold one
    task,         \* where the blocking task of each call stands
    borrower,     \* where each borrower stands
    conns,        \* the callers, as their tasks, and borrowers with a connection
    available,    \* the availability flag
    guard, refs, cancel_senders, step, future    \* see Cancel

Futures == INSTANCE Cancel WITH
    GuardOf <- [u \in Users |-> IF u[2] = "task" THEN u[1] ELSE App]

futuresVars == <<guard, refs, cancel_senders, step, future>>
poolVars    == <<call, queue, permits, task, borrower, conns, available>>
vars        == <<poolVars, futuresVars>>

Ended == {"ok", "error", "cancel"}

Init ==
    /\ call = [c \in Callers |-> "new"]
    /\ queue = <<>>
    /\ permits = {}
    /\ task = [c \in Callers |-> "none"]
    /\ borrower = [b \in Borrowers |-> "new"]
    /\ conns = {}
    /\ available = TRUE
    /\ Futures!CancelInit

-----------------------------------------------------------------------------
(* The application. *)

MakeGuard   == Futures!NewGuard(App) /\ UNCHANGED poolVars
CancelAll   == Futures!DropGuard(App) /\ UNCHANGED poolVars

(* with_conn(..).cancelable(..), before its first poll. *)
Wrap(c) ==
    /\ call[c] = "new"
    /\ \/ Futures!Register(Outer(c))
       \/ Futures!RegisterCanceled(Outer(c))
       \/ Futures!RegisterByGuard(Outer(c))
    /\ UNCHANGED poolVars

(* The rest of a call on a handle, and what is dropped on the way. *)
HandleStep(u)  == (Futures!Push(u) \/ Futures!LetGo(u)) /\ UNCHANGED poolVars
DropListsStep  == Futures!Dropping /\ UNCHANGED poolVars

-----------------------------------------------------------------------------
(* The future of a call.  Its Cancelable looks for a cancellation before   *)
(* it polls it.                                                            *)

Polled(c) == step[Outer(c)] = "idle" /\ future[Outer(c)] = "open"

(* get_ready, and the call's place in the queue of the limiter. *)
GetReady(c) ==
    /\ call[c] = "new" /\ Polled(c) /\ available
    /\ call' = [call EXCEPT ![c] = "queued"]
    /\ queue' = Append(queue, c)
    /\ UNCHANGED <<permits, task, borrower, conns, available, futuresVars>>

(* The flag is down. *)
Refuse(c) ==
    /\ call[c] = "new" /\ ~available
    /\ Futures!PollReady(Outer(c))
    /\ call' = [call EXCEPT ![c] = "error"]
    /\ UNCHANGED <<queue, permits, task, borrower, conns, available>>

(* Faulty: with an extra permit, as query_semaphore has them. *)
GrantedExtra(c) ==
    \E i \in 1 .. PoolSize + 1 - Cardinality(permits) :
        i <= Len(queue) /\ queue[i] = c

(* The limiter gives the permits that are left to the first in the queue. *)
Granted(c) ==
    \E i \in 1 .. PoolSize - Cardinality(permits) :
        i <= Len(queue) /\ queue[i] = c

Without(c) ==
    LET i == CHOOSE j \in DOMAIN queue : queue[j] = c IN
    IF \A j \in DOMAIN queue : queue[j] # c
      THEN queue
      ELSE SubSeq(queue, 1, i - 1) \o SubSeq(queue, i + 1, Len(queue))

(* The permit is acquired, and the task spawned. *)
Start(c) ==
    /\ call[c] = "queued" /\ Polled(c) /\ Granted(c)
    /\ call' = [call EXCEPT ![c] = "awaiting"]
    /\ queue' = Without(c)
    /\ permits' = permits \cup {c}
    /\ task' = [task EXCEPT ![c] = "scheduled"]
    /\ Futures!NewGuard(c)
    /\ UNCHANGED <<borrower, conns, available>>

(* The task has ended: drop(cancel_guard), ... *)
Receive(c) ==
    /\ call[c] = "awaiting" /\ Polled(c)
    /\ task[c] \in Ended
    /\ call' = [call EXCEPT ![c] = "answering"]
    /\ Futures!DropGuard(c)
    /\ UNCHANGED <<queue, permits, task, borrower, conns, available>>

(* ... and its result is returned, and the permit with it: a cancellation  *)
(* that comes meanwhile is too late.                                       *)
Answer(c) ==
    /\ call[c] = "answering" /\ guard[c] = "gone"
    /\ call' = [call EXCEPT ![c] = IF task[c] = "cancel" THEN "panicked" ELSE task[c]]
    /\ permits' = permits \ {c}
    /\ Futures!Forget(Outer(c))
    /\ UNCHANGED <<queue, task, borrower, conns, available>>

(* The future is dropped where it waits: it is cancelled, or whoever polls *)
(* it gives it up, as FutureExtension::timeout does.                       *)
Dropped(c) ==
    /\ call[c] \in {"new", "queued", "awaiting"}
    /\ call' = [call EXCEPT ![c] = "leaving"]
    /\ queue' = Without(c)
    /\ UNCHANGED <<permits, task, borrower, conns, available>>

Canceled(c) == Dropped(c) /\ Futures!PollCanceled(Outer(c))
GiveUp(c)   == Dropped(c) /\ Futures!Forget(Outer(c))

(* Its guard is dropped, then its permit. *)
LeaveGuard(c) == call[c] = "leaving" /\ Futures!DropGuard(c) /\ UNCHANGED poolVars

(* Faulty: only the ordinary way out returns the permit. *)
LeaveKeeping(c) ==
    /\ call[c] = "leaving" /\ guard[c] \in {"none", "gone"}
    /\ call' = [call EXCEPT ![c] = "left"]
    /\ UNCHANGED <<queue, permits, task, borrower, conns, available, futuresVars>>

Leave(c) ==
    /\ call[c] = "leaving" /\ guard[c] \in {"none", "gone"}
    /\ call' = [call EXCEPT ![c] = "left"]
    /\ permits' = permits \ {c}
    /\ UNCHANGED <<queue, task, borrower, conns, available, futuresVars>>

-----------------------------------------------------------------------------
(* The task of a call: whether or not anyone waits for it. *)

End(c, result) ==
    /\ task' = [task EXCEPT ![c] = result]
    /\ conns' = conns \ {c}
    /\ UNCHANGED <<call, queue, permits, borrower, available>>

(* check_cancel, before a connection is got and after. *)
Check(c) ==
    /\ task[c] \in {"scheduled", "connected"}
    /\ \/ /\ Futures!NotCanceled(Task(c))
          /\ task' = [task EXCEPT
                ![c] = IF @ = "scheduled" THEN "checkout" ELSE "running"]
          /\ UNCHANGED <<call, queue, permits, borrower, conns, available>>
       \/ /\ Futures!CannotUpgrade(Task(c)) /\ UNCHANGED futuresVars
          /\ End(c, "cancel")

Checkout(c) ==
    /\ task[c] = "checkout" /\ step[Task(c)] = "idle"
    /\ Cardinality(conns) < PoolSize
    /\ task' = [task EXCEPT ![c] = "connected"]
    /\ conns' = conns \cup {c}
    /\ available' = TRUE
    /\ UNCHANGED <<call, queue, permits, borrower, futuresVars>>

(* connection_timeout: DatabaseUnavailable. *)
CheckoutTimeout(c) ==
    /\ task[c] = "checkout" /\ step[Task(c)] = "idle"
    /\ Cardinality(conns) >= PoolSize
    /\ task' = [task EXCEPT ![c] = "error"]
    /\ available' = FALSE
    /\ UNCHANGED <<call, queue, permits, borrower, conns, futuresVars>>

(* The closure has its result, ... *)
Finish(c) ==
    /\ task[c] = "running" /\ step[Task(c)] = "idle"
    /\ \E result \in {"ok", "error"} : End(c, result)
    /\ UNCHANGED futuresVars

(* ... or makes a future cancelable with its handle, and waits for it.     *)
Await(c) ==
    /\ task[c] = "running"
    /\ Futures!Register(Task(c)) \/ Futures!RegisterCanceled(Task(c))
    /\ task' = [task EXCEPT ![c] = "waiting"]
    /\ UNCHANGED <<call, queue, permits, borrower, conns, available>>

AwaitCanceled(c) ==
    /\ task[c] = "waiting"
    /\ Futures!PollCanceled(Task(c))
    /\ End(c, "cancel")

AwaitReady(c) ==
    /\ task[c] = "waiting"
    /\ Futures!PollReady(Task(c))
    /\ task' = [task EXCEPT ![c] = "running"]
    /\ UNCHANGED <<call, queue, permits, borrower, conns, available>>

-----------------------------------------------------------------------------
(* ConnectionPool::get, and r2d2 by itself. *)

Borrow(b) ==
    /\ borrower[b] = "new"
    /\ borrower' = [borrower EXCEPT ![b] = IF available THEN "waiting" ELSE "done"]
    /\ UNCHANGED <<call, queue, permits, task, conns, available, futuresVars>>

BorrowCheckout(b) ==
    /\ borrower[b] = "waiting"
    /\ Cardinality(conns) < PoolSize
    /\ borrower' = [borrower EXCEPT ![b] = "holding"]
    /\ conns' = conns \cup {b}
    /\ available' = TRUE
    /\ UNCHANGED <<call, queue, permits, task, futuresVars>>

BorrowTimeout(b) ==
    /\ borrower[b] = "waiting"
    /\ Cardinality(conns) >= PoolSize
    /\ borrower' = [borrower EXCEPT ![b] = "done"]
    /\ available' = FALSE
    /\ UNCHANGED <<call, queue, permits, task, conns, futuresVars>>

GiveBack(b) ==
    /\ borrower[b] = "holding"
    /\ borrower' = [borrower EXCEPT ![b] = "done"]
    /\ conns' = conns \ {b}
    /\ UNCHANGED <<call, queue, permits, task, available, futuresVars>>

(* get_fdw: a pool of its own, with users of its own that may keep all of  *)
(* its connections, but the same flag; it tries until its `timeout` says   *)
(* to stop.                                                                *)
BorrowFdw(b) ==
    /\ borrower[b] = "new" /\ available
    /\ borrower' = [borrower EXCEPT ![b] = "waiting_fdw"]
    /\ UNCHANGED <<call, queue, permits, task, conns, available, futuresVars>>

FdwCheckout(b) ==
    /\ borrower[b] = "waiting_fdw"
    /\ borrower' = [borrower EXCEPT ![b] = "done"]
    /\ available' = TRUE
    /\ UNCHANGED <<call, queue, permits, task, conns, futuresVars>>

FdwTimeout(b) ==
    /\ borrower[b] = "waiting_fdw"
    /\ \E stop \in BOOLEAN :
         borrower' = [borrower EXCEPT ![b] = IF stop THEN "done" ELSE @]
    /\ available' = FALSE
    /\ UNCHANGED <<call, queue, permits, task, conns, futuresVars>>

(* The pool opens a connection in place of an old one. *)
Acquire ==
    /\ ~available /\ Cardinality(conns) < PoolSize
    /\ available' = TRUE
    /\ UNCHANGED <<call, queue, permits, task, borrower, conns, futuresVars>>

-----------------------------------------------------------------------------
Poll(c) ==
    Start(c) \/ Receive(c) \/ Answer(c) \/ Canceled(c) \/ LeaveGuard(c) \/ Leave(c)

Run(c) ==
    \/ Check(c) \/ Checkout(c) \/ CheckoutTimeout(c)
    \/ Finish(c) \/ Await(c) \/ AwaitCanceled(c)

Lend(b) == BorrowCheckout(b) \/ BorrowTimeout(b) \/ GiveBack(b)

Next ==
    \/ MakeGuard \/ CancelAll \/ DropListsStep \/ Acquire
    \/ \E u \in Users : HandleStep(u)
    \/ \E c \in Callers : \/ Wrap(c) \/ GetReady(c) \/ Refuse(c) \/ GiveUp(c)
                          \/ Poll(c) \/ Run(c) \/ AwaitReady(c)
    \/ \E b \in Borrowers : \/ Borrow(b) \/ Lend(b)
                            \/ BorrowFdw(b) \/ FdwCheckout(b) \/ FdwTimeout(b)

Spec == Init /\ [][Next]_vars

(* Futures that can go on are polled, and threads run.  Nobody owes a      *)
(* call, nor a cancellation; and what a closure waits for need not come.   *)
Fairness ==
    /\ \A c \in Callers : WF_vars(Poll(c)) /\ WF_vars(Run(c))
    /\ \A b \in Borrowers : WF_vars(Lend(b))
    /\ \A u \in Users : WF_vars(HandleStep(u))
    /\ WF_vars(DropListsStep)

FairSpec == Spec /\ Fairness

-----------------------------------------------------------------------------
(* The types; and the limiter never gives out more permits than the pool   *)
(* has connections.                                                        *)
TypeOK ==
    /\ call \in [Callers -> {"new", "queued", "awaiting", "answering", "ok", "error",
                             "panicked", "leaving", "left"}]
    /\ queue \in Seq(Callers)
    /\ permits \subseteq Callers /\ Cardinality(permits) <= PoolSize
    /\ task \in [Callers -> {"none", "scheduled", "checkout", "connected",
                             "running", "waiting"} \cup Ended]
    /\ borrower \in [Borrowers -> {"new", "waiting", "holding", "waiting_fdw", "done"}]
    /\ conns \subseteq Callers \cup Borrowers
    /\ available \in BOOLEAN
    /\ Futures!CancelTypeOK

(* with_conn never panics: a task that is waited for never sees its own    *)
(* call as cancelled, at any of the places where it asks.                  *)
NeverPanics == \A c \in Callers : call[c] # "panicked"

(* The limiter keeps its promise: a task whose caller holds a permit finds *)
(* a connection, unless one is with a borrower, or with a task whose       *)
(* caller has left.                                                        *)
WaitsOnlyForStrangers ==
    \A c \in permits :
        task[c] = "checkout" /\ Cardinality(conns) >= PoolSize
            => ~(conns \subseteq permits)

CanceledIffGone == Futures!CanceledIffGone

(* When the application drops its guard, or a caller leaves for another    *)
(* reason, the cancellation passes through the call's own guard to what    *)
(* its closure waits for: the task ends and its connection comes back for  *)
(* good, even if what the closure waits for never comes.                   *)
CancelCascades ==
    \A c \in Callers :
        call[c] = "left" \/ guard[App] = "gone" ~> [](c \notin conns)

(* If what closures wait for always comes, a call in the queue is answered *)
(* or its caller leaves; an answer is not a panic.                         *)
CallersAnswered ==
    (\A d \in Callers : []<>(task[d] # "waiting"))
        => \A c \in Callers : call[c] = "queued" ~> call[c] \in {"ok", "error", "left"}

(* The closure of a caller that has left before the last check is never    *)
(* run, however long its task waits for a thread and for a connection.     *)
Late(c) == call[c] = "left" /\ task[c] \in {"scheduled", "checkout", "connected"}

LateNeverRuns == [][\A c \in Callers : Late(c) => task'[c] # "running"]_vars

=============================================================================
