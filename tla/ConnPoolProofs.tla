---------------------------- MODULE ConnPoolProofs ----------------------------
(***************************************************************************)
(* What with_conn promises its callers, for any number of callers, of      *)
(* borrowers and of connections.  What is known of the guards comes from   *)
(* CancelProofs: the steps of the pool are steps of Cancel.                *)
(***************************************************************************)
EXTENDS ConnPool, FiniteSetTheorems, SequenceTheorems, TLAPS

Cancels == INSTANCE CancelProofs WITH
    GuardOf <- [u \in Users |-> IF u[2] = "task" THEN u[1] ELSE App]

-----------------------------------------------------------------------------
LEMMA HandlesOK == Cancels!HandlesAssumption
  BY NamesAssumption DEF Cancels!HandlesAssumption, Users, Guards

LEMMA UsersOfCallers ==
    ASSUME NEW c \in Callers
    PROVE  /\ c \in Guards /\ c # App
           /\ Task(c) \in Users /\ Outer(c) \in Users /\ Task(c) # Outer(c)
           /\ Task(c)[1] = c /\ Task(c)[2] = "task" /\ Outer(c)[2] # "task"
  BY NamesAssumption DEF Guards, Users, Task, Outer

LEMMA GuardOfTask ==
    ASSUME NEW c \in Callers
    PROVE  [u \in Users |-> IF u[2] = "task" THEN u[1] ELSE App][Task(c)] = c
  BY UsersOfCallers

LEMMA SameInit == Futures!CancelInit => Cancels!CancelInit
  BY DEF Futures!CancelInit, Cancels!CancelInit

LEMMA SameNext == Futures!CancelNext => Cancels!CancelNext
  BY DEF Futures!CancelNext, Cancels!CancelNext,
         Futures!NewGuard, Cancels!NewGuard, Futures!DropGuard, Cancels!DropGuard,
         Futures!NotCanceled, Cancels!NotCanceled, Futures!CanUpgrade, Cancels!CanUpgrade,
         Futures!CannotUpgrade, Cancels!CannotUpgrade, Futures!Upgrade, Cancels!Upgrade,
         Futures!Register, Cancels!Register,
         Futures!RegisterCanceled, Cancels!RegisterCanceled,
         Futures!RegisterByGuard, Cancels!RegisterByGuard, Futures!Push, Cancels!Push,
         Futures!LetGo, Cancels!LetGo, Futures!PollCanceled, Cancels!PollCanceled,
         Futures!PollReady, Cancels!PollReady, Futures!Forget, Cancels!Forget,
         Futures!Dropping, Cancels!Dropping, Futures!GuardGone, Cancels!GuardGone,
         Futures!DropSender, Cancels!DropSender, Futures!LetGone, Cancels!LetGone

(* Every step of the pool is a step of the guards, or leaves them alone. *)
LEMMA NextIsCancelNext == [Next]_vars => [Futures!CancelNext]_futuresVars
<1> SUFFICES ASSUME Next
             PROVE  Futures!CancelNext \/ UNCHANGED futuresVars
  BY DEF vars, futuresVars
<1> USE UsersOfCallers
<1>1. ASSUME MakeGuard \/ CancelAll \/ DropListsStep \/ Acquire
             \/ \E u \in Users : HandleStep(u)
      PROVE  Futures!CancelNext \/ UNCHANGED futuresVars
  <2>1. App \in Guards
    BY DEF Guards
  <2>2. QED
    BY <1>1, <2>1 DEF MakeGuard, CancelAll, DropListsStep, Acquire, HandleStep, Futures!CancelNext
<1>2. ASSUME NEW c \in Callers,
             Wrap(c) \/ GetReady(c) \/ Refuse(c) \/ GiveUp(c) \/ Poll(c)
      PROVE  Futures!CancelNext \/ UNCHANGED futuresVars
  BY <1>2 DEF Wrap, GetReady, Refuse, GiveUp, Poll, Start, Receive, Answer, Canceled,
              LeaveGuard, Leave, Futures!CancelNext
<1>3. ASSUME NEW c \in Callers, Run(c) \/ AwaitReady(c)
      PROVE  Futures!CancelNext \/ UNCHANGED futuresVars
  BY <1>3 DEF Run, Check, Checkout, CheckoutTimeout, Finish, Await, AwaitCanceled,
              AwaitReady, Futures!CancelNext
<1>4. ASSUME NEW b \in Borrowers,
             Borrow(b) \/ Lend(b) \/ BorrowFdw(b) \/ FdwCheckout(b) \/ FdwTimeout(b)
      PROVE  Futures!CancelNext \/ UNCHANGED futuresVars
  BY <1>4 DEF Borrow, Lend, BorrowCheckout, BorrowTimeout, GiveBack, BorrowFdw,
              FdwCheckout, FdwTimeout
<1>5. QED
  BY <1>1, <1>2, <1>3, <1>4 DEF Next

-----------------------------------------------------------------------------
(* The invariant. *)

(* TypeOK, but for the state of Cancel. *)
PoolTypeOK ==
    /\ call \in [Callers -> {"new", "queued", "awaiting", "answering", "ok", "error",
                             "panicked", "leaving", "left"}]
    /\ queue \in Seq(Callers)
    /\ permits \subseteq Callers
    /\ task \in [Callers -> {"none", "scheduled", "checkout", "connected",
                             "running", "waiting"} \cup Ended]
    /\ borrower \in [Borrowers -> {"new", "waiting", "holding", "waiting_fdw", "done"}]
    /\ conns \subseteq Callers \cup Borrowers
    /\ available \in BOOLEAN

(* A call holds its guard until its task has ended, and has let it go when *)
(* the caller has left.                                                    *)
CallInv ==
    \A c \in Callers :
        /\ call[c] = "awaiting" => guard[c] = "held" /\ task[c] # "cancel"
        /\ call[c] = "answering" => task[c] \in {"ok", "error"}
        /\ call[c] # "panicked"
        /\ call[c] = "left" => guard[c] # "held"
        /\ guard[c] = "none" => task[c] = "none"

(* Tasks have connections only while they use them. *)
ConnsInv ==
    \A c \in Callers : c \in conns => task[c] \in {"connected", "running", "waiting"}

PermitsInv == Cardinality(permits) <= PoolSize

PoolInv == PoolTypeOK /\ CallInv /\ ConnsInv /\ PermitsInv

Inv == PoolInv /\ Cancels!CancelInv

LEMMA PoolInit == Init => PoolInv
<1> SUFFICES ASSUME Init PROVE PoolInv
  OBVIOUS
<1>1. PoolTypeOK
  BY DEF Init, PoolTypeOK
<1>2. CallInv
  BY NamesAssumption DEF Init, CallInv, Futures!CancelInit, Guards
<1>3. ConnsInv
  BY DEF Init, ConnsInv
<1>4. PermitsInv
  BY PoolAssumption, FS_EmptySet DEF Init, PermitsInv
<1>5. QED
  BY <1>1, <1>2, <1>3, <1>4 DEF PoolInv

(* What a task finds, as its guard is held. *)
LEMMA HeldIsAlive ==
    ASSUME Inv, NEW c \in Callers, guard[c] = "held"
    PROVE  refs[c] # {} /\ future[Task(c)] \notin {"closed", "canceled"}
<1>1. c \in Guards /\ Task(c) \in Users
  BY UsersOfCallers
<1>2. refs[c] # {}
  BY <1>1 DEF Inv, Cancels!CancelInv, Cancels!RefsInv
<1>3. future[Task(c)] \in {"closed", "canceled"} => refs[c] = {}
  BY <1>1, GuardOfTask DEF Inv, Cancels!CancelInv, Cancels!SendersInv
<1>4. QED
  BY <1>2, <1>3

LEMMA CancelSeen ==
    ASSUME NEW c \in Callers, Futures!CannotUpgrade(Task(c))
    PROVE  refs[c] = {}
  BY GuardOfTask, UsersOfCallers DEF Futures!CannotUpgrade

LEMMA LeavingTheQueue ==
    ASSUME PoolTypeOK, NEW c
    PROVE  Without(c) \in Seq(Callers)
<1> DEFINE i == CHOOSE j \in DOMAIN queue : queue[j] = c
<1>1. CASE \A j \in DOMAIN queue : queue[j] # c
  BY <1>1 DEF Without, PoolTypeOK
<1>2. CASE \E j \in DOMAIN queue : queue[j] = c
  <2>1. i \in 1 .. Len(queue)
    BY <1>2 DEF PoolTypeOK
  <2>2. SubSeq(queue, 1, i - 1) \in Seq(Callers) /\ SubSeq(queue, i + 1, Len(queue)) \in Seq(Callers)
    <3> HIDE DEF i
    <3>1. \A j \in 1 .. Len(queue) : queue[j] \in Callers
      BY DEF PoolTypeOK
    <3>2. Len(queue) \in Nat
      BY DEF PoolTypeOK
    <3>3. \A j \in 1 .. i - 1 : queue[j] \in Callers
      BY <2>1, <3>1, <3>2
    <3>4. \A j \in i + 1 .. Len(queue) : queue[j] \in Callers
      BY <2>1, <3>1, <3>2
    <3>5. QED
      BY <2>1, <3>2, <3>3, <3>4, SubSeqProperties
  <2>3. QED
    BY <1>2, <2>2 DEF Without
<1>3. QED
  BY <1>1, <1>2

(* The steps of the guards and of the handles, with the calls as they are. *)
LEMMA ApplicationStep ==
    ASSUME Inv, MakeGuard \/ CancelAll \/ DropListsStep
                \/ (\E u \in Users : HandleStep(u)) \/ (\E c \in Callers : Wrap(c))
    PROVE  PoolInv'
<1>1. UNCHANGED poolVars
  BY DEF MakeGuard, CancelAll, DropListsStep, HandleStep, Wrap
<1>2. guard \in [Guards -> {"none", "held", "dropping", "gone"}]
  BY DEF Inv, Cancels!CancelInv, Cancels!CancelTypeOK
<1>3. \A c \in Callers :
        /\ guard[c] = "held" => guard'[c] = "held"
        /\ guard'[c] = "held" => guard[c] = "held"
        /\ guard'[c] = "none" => guard[c] = "none"
  BY <1>2, UsersOfCallers
     DEF MakeGuard, CancelAll, DropListsStep, HandleStep, Wrap, Futures!NewGuard,
         Futures!DropGuard, Futures!Dropping, Futures!GuardGone, Futures!DropSender,
         Futures!LetGone, Futures!Push, Futures!LetGo, Futures!Register, Futures!Upgrade,
         Futures!RegisterCanceled, Futures!RegisterByGuard, Guards
<1>4. CallInv'
  BY <1>1, <1>3 DEF Inv, PoolInv, CallInv, poolVars
<1>5. QED
  BY <1>1, <1>4 DEF Inv, PoolInv, PoolTypeOK, ConnsInv, PermitsInv, poolVars

(* Permits are given out one by one, while there are some. *)
LEMMA PermitsCounted ==
    ASSUME PoolInv, NEW c \in Callers
    PROVE  /\ Cardinality(permits \ {c}) <= PoolSize
           /\ Granted(c) => Cardinality(permits \cup {c}) <= PoolSize
<1>1. IsFiniteSet(permits)
  BY PoolAssumption, FS_Subset DEF PoolInv, PoolTypeOK
<1>2. Cardinality(permits) \in Nat /\ Cardinality(permits) <= PoolSize
  BY <1>1, FS_CardinalityType DEF PoolInv, PermitsInv
<1>3. Cardinality(permits \ {c}) <= PoolSize
  <2>1. IsFiniteSet(permits \ {c}) /\ Cardinality(permits \ {c}) <= Cardinality(permits)
    BY <1>1, FS_Subset
  <2>2. QED
    BY <1>2, <2>1, FS_CardinalityType, PoolAssumption
<1>4. ASSUME Granted(c)
      PROVE  Cardinality(permits \cup {c}) <= PoolSize
  <2>1. Cardinality(permits) + 1 <= PoolSize
    BY <1>2, <1>4, PoolAssumption DEF Granted
  <2>2. Cardinality(permits \cup {c}) <= Cardinality(permits) + 1
    BY <1>1, <1>2, FS_AddElement
  <2>3. IsFiniteSet(permits \cup {c})
    BY <1>1, FS_AddElement
  <2>4. QED
    BY <1>2, <2>1, <2>2, <2>3, FS_CardinalityType, PoolAssumption
<1>5. QED
  BY <1>3, <1>4

-----------------------------------------------------------------------------
(* The steps of a call. *)

LEMMA GuardsTyped ==
    ASSUME Inv
    PROVE  guard \in [Guards -> {"none", "held", "dropping", "gone"}]
  BY DEF Inv, Cancels!CancelInv, Cancels!CancelTypeOK

(* The steps of a call up to its answer leave the connections alone, ... *)
LEMMA CallType ==
    ASSUME Inv, NEW c \in Callers,
           GetReady(c) \/ Refuse(c) \/ GiveUp(c) \/ Poll(c)
    PROVE  PoolTypeOK' /\ ConnsInv'
<1> USE DEF Inv, PoolInv
<1>1. Without(c) \in Seq(Callers) /\ Append(queue, c) \in Seq(Callers)
  BY LeavingTheQueue DEF PoolTypeOK
<1>2. queue' \in Seq(Callers)
  BY <1>1 DEF GetReady, Refuse, GiveUp, Poll, Start, Receive, Answer, Canceled, Dropped,
              LeaveGuard, Leave, PoolTypeOK, poolVars
<1>3. permits' \subseteq Callers
  BY DEF GetReady, Refuse, GiveUp, Poll, Start, Receive, Answer, Canceled, Dropped,
         LeaveGuard, Leave, PoolTypeOK, poolVars
<1>4. UNCHANGED <<borrower, conns, available>>
  BY DEF GetReady, Refuse, GiveUp, Poll, Start, Receive, Answer, Canceled, Dropped,
         LeaveGuard, Leave, poolVars
<1>5. UNCHANGED task \/ (task' = [task EXCEPT ![c] = "scheduled"] /\ task[c] = "none")
  BY DEF GetReady, Refuse, GiveUp, Poll, Start, Receive, Answer, Canceled, Dropped,
         LeaveGuard, Leave, poolVars, CallInv, Futures!NewGuard
<1>6. call' \in [Callers -> {"new", "queued", "awaiting", "answering", "ok", "error",
                            "panicked", "leaving", "left"}]
  <2>1. Answer(c) => task[c] \in {"ok", "error"}
    BY DEF Answer, CallInv
  <2>2. QED
    BY <2>1 DEF GetReady, Refuse, GiveUp, Poll, Start, Receive, Answer, Canceled, Dropped,
         LeaveGuard, Leave, PoolTypeOK, poolVars
<1>7. QED
  BY <1>2, <1>3, <1>4, <1>5, <1>6 DEF PoolTypeOK, ConnsInv

(* ... never take a permit that is not granted, ... *)
LEMMA CallPermits ==
    ASSUME Inv, NEW c \in Callers,
           GetReady(c) \/ Refuse(c) \/ GiveUp(c) \/ Poll(c)
    PROVE  PermitsInv'
<1>1. \/ permits' = permits
      \/ permits' = permits \ {c}
      \/ permits' = permits \cup {c} /\ Granted(c)
  BY DEF GetReady, Refuse, GiveUp, Poll, Start, Receive, Answer, Canceled, Dropped,
         LeaveGuard, Leave, poolVars
<1>2. QED
  BY <1>1, PermitsCounted DEF Inv, PoolInv, PermitsInv

(* ... and drop the guard of the call only once the task has ended, or     *)
(* when the caller leaves.                                                 *)
LEMMA CallGuards ==
    ASSUME Inv, NEW c \in Callers,
           GetReady(c) \/ Refuse(c) \/ GiveUp(c) \/ Poll(c)
    PROVE  CallInv'
<1> USE GuardsTyped, UsersOfCallers DEF Inv, PoolInv, PoolTypeOK, CallInv
<1> SUFFICES ASSUME NEW d \in Callers
             PROVE  /\ call'[d] = "awaiting" => guard'[d] = "held" /\ task'[d] # "cancel"
                    /\ call'[d] = "answering" => task'[d] \in {"ok", "error"}
                    /\ call'[d] # "panicked"
                    /\ call'[d] = "left" => guard'[d] # "held"
                    /\ guard'[d] = "none" => task'[d] = "none"
  BY DEF CallInv
<1>1. CASE GetReady(c)
  BY <1>1 DEF GetReady, futuresVars
<1>2. CASE Refuse(c)
  BY <1>2 DEF Refuse, Futures!PollReady
<1>3. CASE Start(c)
  BY <1>3 DEF Start, Futures!NewGuard
<1>4. CASE Receive(c)
  BY <1>4 DEF Receive, Futures!DropGuard, Ended
<1>5. CASE Answer(c)
  <2>1. task[c] \in {"ok", "error"}
    BY <1>5 DEF Answer
  <2>2. QED
    BY <1>5, <2>1 DEF Answer, Futures!Forget
<1>6. CASE Canceled(c) \/ GiveUp(c)
  BY <1>6 DEF Canceled, GiveUp, Dropped, Futures!PollCanceled, Futures!Forget
<1>7. CASE LeaveGuard(c)
  BY <1>7 DEF LeaveGuard, Futures!DropGuard, poolVars
<1>8. CASE Leave(c)
  BY <1>8 DEF Leave, futuresVars
<1>9. QED
  BY <1>1, <1>2, <1>3, <1>4, <1>5, <1>6, <1>7, <1>8 DEF Poll

-----------------------------------------------------------------------------
(* The steps of the tasks and of the others. *)

LEMMA TaskStep ==
    ASSUME Inv, NEW c \in Callers, Run(c) \/ AwaitReady(c)
    PROVE  PoolInv'
<1> USE DEF Inv, PoolInv
<1>1. UNCHANGED <<call, queue, permits, borrower, guard>>
  BY DEF Run, Check, Checkout, CheckoutTimeout, Finish, Await, AwaitCanceled, AwaitReady, End,
         futuresVars, Futures!NotCanceled, Futures!Register, Futures!RegisterCanceled,
         Futures!Upgrade, Futures!PollCanceled, Futures!PollReady
<1>2. available' \in BOOLEAN
  BY DEF Run, Check, Checkout, CheckoutTimeout, Finish, Await, AwaitCanceled, AwaitReady, End,
         PoolTypeOK
<1>3. \E result \in {"checkout", "connected", "running", "waiting"} \cup Ended :
        /\ task' = [task EXCEPT ![c] = result]
        /\ result = "cancel" => guard[c] # "held"
        /\ conns' \in SUBSET (Callers \cup Borrowers)
        /\ conns' \ {c} = conns \ {c}
        /\ c \in conns' => result \in {"connected", "running", "waiting"}
        /\ task[c] \notin Ended \cup {"none"}
  <2> USE DEF PoolTypeOK, ConnsInv, Ended
  <2>1. CASE Check(c)
    <3>1. Futures!CannotUpgrade(Task(c)) => guard[c] # "held"
      BY HeldIsAlive, CancelSeen
    <3>2. CASE Futures!CannotUpgrade(Task(c)) /\ End(c, "cancel")
      BY <2>1, <3>1, <3>2 DEF Check, End
    <3>3. CASE task[c] = "scheduled" /\ task' = [task EXCEPT ![c] = "checkout"] /\ conns' = conns
      BY <3>3
    <3>4. CASE task[c] = "connected" /\ task' = [task EXCEPT ![c] = "running"] /\ conns' = conns
      BY <3>4
    <3>5. QED
      BY <2>1, <3>2, <3>3, <3>4 DEF Check
  <2>2. CASE Checkout(c)
    BY <2>2 DEF Checkout
  <2>3. CASE CheckoutTimeout(c)
    BY <2>3 DEF CheckoutTimeout
  <2>4. CASE Finish(c)
    BY <2>4 DEF Finish, End
  <2>5. CASE Await(c)
    BY <2>5 DEF Await
  <2>6. CASE AwaitCanceled(c)
    <3>1. guard[c] # "held"
      BY <2>6, HeldIsAlive DEF AwaitCanceled, Futures!PollCanceled
    <3>2. QED
      BY <2>6, <3>1 DEF AwaitCanceled, End
  <2>7. CASE AwaitReady(c)
    BY <2>7 DEF AwaitReady
  <2>8. QED
    BY <2>1, <2>2, <2>3, <2>4, <2>5, <2>6, <2>7 DEF Run
<1>4. PoolTypeOK'
  BY <1>1, <1>2, <1>3 DEF PoolTypeOK
<1>5. CallInv'
  BY <1>1, <1>3 DEF CallInv, PoolTypeOK, Ended
<1>6. ConnsInv'
  BY <1>3 DEF ConnsInv, PoolTypeOK
<1>7. PermitsInv'
  BY <1>1 DEF PermitsInv
<1>8. QED
  BY <1>4, <1>5, <1>6, <1>7

LEMMA OthersStep ==
    ASSUME Inv,
           Acquire \/ \E b \in Borrowers :
               Borrow(b) \/ Lend(b) \/ BorrowFdw(b) \/ FdwCheckout(b) \/ FdwTimeout(b)
    PROVE  PoolInv'
<1> USE DEF Inv, PoolInv
<1>1. UNCHANGED <<call, queue, permits, task, guard>>
  BY DEF Acquire, Borrow, Lend, BorrowCheckout, BorrowTimeout, GiveBack, BorrowFdw,
         FdwCheckout, FdwTimeout, futuresVars
<1>2. available' \in BOOLEAN
  BY DEF Acquire, Borrow, Lend, BorrowCheckout, BorrowTimeout, GiveBack, BorrowFdw,
         FdwCheckout, FdwTimeout, PoolTypeOK
<1>3. conns' \subseteq Callers \cup Borrowers /\ conns' \cap Callers \subseteq conns
  BY NamesAssumption DEF Acquire, Borrow, Lend, BorrowCheckout, BorrowTimeout, GiveBack,
         BorrowFdw, FdwCheckout, FdwTimeout, PoolTypeOK
<1>4. borrower' \in [Borrowers -> {"new", "waiting", "holding", "waiting_fdw", "done"}]
  BY DEF Acquire, Borrow, Lend, BorrowCheckout, BorrowTimeout, GiveBack, BorrowFdw,
         FdwCheckout, FdwTimeout, PoolTypeOK
<1>5. QED
  BY <1>1, <1>2, <1>3, <1>4 DEF PoolTypeOK, CallInv, ConnsInv, PermitsInv

-----------------------------------------------------------------------------
LEMMA InvInit == Init => Inv
<1>1. Init => Cancels!CancelInv
  BY HandlesOK, SameInit, Cancels!InitInv DEF Init
<1>2. QED
  BY <1>1, PoolInit DEF Inv

LEMMA InvStep == Inv /\ [Next]_vars => Inv'
<1> SUFFICES ASSUME Inv, [Next]_vars
             PROVE  Inv'
  OBVIOUS
<1>1. Cancels!CancelInv'
  <2>1. [Cancels!CancelNext]_Cancels!cancelVars
    BY NextIsCancelNext, SameNext DEF futuresVars, Cancels!cancelVars
  <2>2. QED
    BY <2>1, HandlesOK, Cancels!StepInv DEF Inv
<1>2. PoolInv'
  <2>1. CASE \E c \in Callers : GetReady(c) \/ Refuse(c) \/ GiveUp(c) \/ Poll(c)
    BY <2>1, CallType, CallPermits, CallGuards DEF PoolInv
  <2>2. CASE \E c \in Callers : Run(c) \/ AwaitReady(c)
    BY <2>2, TaskStep
  <2>3. CASE MakeGuard \/ CancelAll \/ DropListsStep
             \/ (\E u \in Users : HandleStep(u)) \/ (\E c \in Callers : Wrap(c))
    BY <2>3, ApplicationStep
  <2>4. CASE Acquire \/ \E b \in Borrowers :
               Borrow(b) \/ Lend(b) \/ BorrowFdw(b) \/ FdwCheckout(b) \/ FdwTimeout(b)
    BY <2>4, OthersStep
  <2>5. CASE UNCHANGED vars
    BY <2>5 DEF Inv, PoolInv, PoolTypeOK, CallInv, ConnsInv, PermitsInv, vars, poolVars, futuresVars
  <2>6. QED
    BY <2>1, <2>2, <2>3, <2>4, <2>5 DEF Next
<1>3. QED
  BY <1>1, <1>2 DEF Inv

LEMMA InvHolds == Spec => []Inv
  BY InvInit, InvStep, PTL DEF Spec

(* The state of the pool is well typed. *)
THEOREM TypeCorrect == Spec => []TypeOK
<1>1. Inv => TypeOK
  BY DEF Inv, PoolInv, PoolTypeOK, PermitsInv, TypeOK, Ended, Cancels!CancelInv,
         Cancels!CancelTypeOK, Futures!CancelTypeOK
<1>2. QED
  BY <1>1, InvHolds, PTL

(* What with_conn does with guards and handles is what Cancel allows       *)
(* (connection_pool.rs, with util/futures.rs): an implementation of it.    *)
THEOREM CallsUseGuards == Spec => Futures!CancelSpec
<1>1. Init => Futures!CancelInit
  BY DEF Init
<1>2. [Next]_vars => [Futures!CancelNext]_Futures!cancelVars
  BY NextIsCancelNext DEF futuresVars, Futures!cancelVars
<1>3. QED
  BY <1>1, <1>2, PTL DEF Spec, Futures!CancelSpec

(* In the pool, too, a guard cancels what it guards when it is gone, and   *)
(* not before: the guard of a call and that of the application.            *)
THEOREM FuturesCanceled == Spec => []CanceledIffGone
<1>1. Inv => Cancels!CanceledIffGone
  BY HandlesOK, Cancels!InvImplies DEF Inv
<1>2. Cancels!CanceledIffGone => CanceledIffGone
  BY DEF CanceledIffGone, Cancels!CanceledIffGone, Futures!CanceledIffGone
<1>3. QED
  BY <1>1, <1>2, InvHolds, PTL

(* with_conn never panics: while a caller waits for its task it holds the  *)
(* guard of the call, so neither check of the task nor a future of the     *)
(* closure is cancelled (connection_pool.rs:403).                          *)
THEOREM CallsNeverPanic == Spec => []NeverPanics
<1>1. Inv => NeverPanics
  BY DEF Inv, PoolInv, CallInv, NeverPanics
<1>2. QED
  BY <1>1, InvHolds, PTL

(* The limiter: with a permit in hand a task waits for a connection only   *)
(* if somebody without one has some (connection_pool.rs:345, 368).         *)
THEOREM PermitsSuffice == Spec => []WaitsOnlyForStrangers
<1>1. ASSUME Inv, NEW c \in permits, task[c] = "checkout",
             Cardinality(conns) >= PoolSize, conns \subseteq permits
      PROVE  FALSE
  <2> USE DEF Inv, PoolInv
  <2>1. c \in Callers /\ c \notin conns
    BY <1>1 DEF PoolTypeOK, ConnsInv
  <2>2. IsFiniteSet(permits)
    BY <1>1, PoolAssumption, FS_Subset DEF PoolTypeOK
  <2>3. IsFiniteSet(permits \ {c}) /\ Cardinality(permits \ {c}) = Cardinality(permits) - 1
    BY <1>1, <2>2, FS_RemoveElement
  <2>4. Cardinality(conns) <= Cardinality(permits \ {c})
    BY <1>1, <2>1, <2>3, FS_Subset
  <2>5. Cardinality(permits) \in Nat /\ Cardinality(permits) <= PoolSize
    BY <1>1, <2>2, FS_CardinalityType DEF PermitsInv
  <2>6. IsFiniteSet(conns)
    BY <1>1, <2>2, FS_Subset
  <2>7. QED
    BY <1>1, <2>3, <2>4, <2>5, <2>6, FS_CardinalityType, PoolAssumption
<1>2. Inv => WaitsOnlyForStrangers
  BY <1>1 DEF WaitsOnlyForStrangers
<1>3. QED
  BY <1>2, InvHolds, PTL

LEMMA OnlyItsTask ==
    ASSUME NEW c \in Callers, NEW u \in Users,
           [v \in Users |-> IF v[2] = "task" THEN v[1] ELSE App][u] = c
    PROVE  u = Task(c)
<1>1. u[2] = "task" /\ u[1] = c
  BY UsersOfCallers
<1>2. QED
  BY <1>1 DEF Users, Task

LEMMA LateIsCanceled ==
    ASSUME Inv, NEW c \in Callers, Late(c), step[Task(c)] = "idle"
    PROVE  refs[c] = {}
<1> USE DEF Inv, Cancels!CancelInv
<1>1. c \in Guards
  BY UsersOfCallers
<1>2. guard[c] # "held"
  BY DEF Late, PoolInv, CallInv
<1>3. ASSUME NEW g \in Guards, g \in refs[c]
      PROVE  FALSE
  BY <1>1, <1>2, <1>3 DEF Cancels!RefsInv
<1>4. ASSUME NEW u \in Users, u \in refs[c]
      PROVE  FALSE
  <2>1. [v \in Users |-> IF v[2] = "task" THEN v[1] ELSE App][u] = c /\ Cancels!Inside(u)
    BY <1>1, <1>4 DEF Cancels!RefsInv
  <2>2. u = Task(c)
    BY <2>1, OnlyItsTask
  <2>3. QED
    BY <2>1, <2>2 DEF Cancels!Inside
<1>5. refs[c] \subseteq Guards \cup Users
  BY <1>1 DEF Cancels!CancelTypeOK
<1>6. QED
  BY <1>3, <1>4, <1>5

(* Only the last check leads a late task to its closure. *)
LEMMA RunAfterCheck ==
    ASSUME Inv, Next, NEW c \in Callers, Late(c), task'[c] = "running"
    PROVE  Futures!NotCanceled(Task(c))
<1> USE DEF Inv, PoolInv, PoolTypeOK
<1>1. task[c] \in {"scheduled", "checkout", "connected"}
  BY DEF Late
<1>2. PICK d \in Callers : Start(d) \/ Run(d) \/ AwaitReady(d)
  BY <1>1 DEF Next, Poll, MakeGuard, CancelAll, DropListsStep, Acquire, HandleStep, Wrap,
         GetReady, Refuse, GiveUp, Receive, Answer, Canceled, Dropped, LeaveGuard, Leave,
         Borrow, Lend, BorrowCheckout, BorrowTimeout, GiveBack, BorrowFdw, FdwCheckout,
         FdwTimeout, poolVars
<1>3. d = c
  BY <1>1, <1>2 DEF Start, Run, Check, Checkout, CheckoutTimeout, Finish, Await, AwaitCanceled,
                    AwaitReady, End
<1>4. QED
  BY <1>1, <1>2, <1>3 DEF Start, Run, Check, Checkout, CheckoutTimeout, Finish, Await,
                    AwaitCanceled, AwaitReady, End, Ended

(* Once its caller has left, the last check of a task cannot find the      *)
(* guard: the closure is not run (connection_pool.rs:387).                 *)
THEOREM LateTasksEnd == Spec => LateNeverRuns
<1>1. ASSUME Inv, Next, NEW c \in Callers, Late(c), task'[c] = "running"
      PROVE  FALSE
  <2>1. step[Task(c)] = "idle" /\ refs[c] # {}
    BY <1>1, RunAfterCheck, GuardOfTask DEF Futures!NotCanceled, Futures!CanUpgrade
  <2>2. QED
    BY <1>1, <2>1, LateIsCanceled
<1>2. Inv /\ [Next]_vars => [\A c \in Callers : Late(c) => task'[c] # "running"]_vars
  BY <1>1
<1>3. QED
  BY <1>2, InvHolds, PTL DEF Spec, LateNeverRuns

=============================================================================
