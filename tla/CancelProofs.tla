----------------------------- MODULE CancelProofs -----------------------------
(***************************************************************************)
(* That a guard cancels what it guards, and only when it is gone, for any  *)
(* number of guards and of users of their handles.                         *)
(***************************************************************************)
EXTENDS Cancel, TLAPS

Inside(u) == step[u] \in {"adding", "leaving"}

(* A list is kept alive by its guard while that is held, and by the users  *)
(* that are inside a call on its handle; one that was never made holds     *)
(* nothing.                                                                *)
RefsInv ==
    /\ \A g \in Guards : g \in refs[g] <=> guard[g] = "held"
    /\ \A g \in Guards, h \in Guards : h \in refs[g] => h = g
    /\ \A g \in Guards, u \in Users : u \in refs[g] <=> GuardOf[u] = g /\ Inside(u)
    /\ \A g \in Guards : guard[g] = "none" => refs[g] = {} /\ cancel_senders[g] = {}

(* A sender is in the list, or on its way there, until the list is         *)
(* dropped, which nothing keeps alive any more then.                       *)
SendersInv ==
    \A u \in Users :
        /\ future[u] = "open" => u \in cancel_senders[GuardOf[u]] \/ step[u] = "adding"
        /\ future[u] \in {"closed", "canceled"}
             => guard[GuardOf[u]] # "none" /\ refs[GuardOf[u]] = {}

CancelInv == CancelTypeOK /\ RefsInv /\ SendersInv

USE DEF CancelTypeOK

LEMMA InitInv == ASSUME HandlesAssumption, CancelInit PROVE CancelInv
<1>1. CancelTypeOK
  BY DEF CancelInit, HandlesAssumption
<1>2. RefsInv
  BY DEF CancelInit, RefsInv, Inside
<1>3. SendersInv
  BY DEF CancelInit, SendersInv
<1>4. QED
  BY <1>1, <1>2, <1>3 DEF CancelInv

(* Each action keeps the invariant. *)
LEMMA StepInv ==
    ASSUME HandlesAssumption, CancelInv, [CancelNext]_cancelVars
    PROVE  CancelInv'
<1> USE DEF CancelInv, HandlesAssumption
<1> DEFINE Keeps == CancelTypeOK' /\ RefsInv' /\ SendersInv'
<1> SUFFICES Keeps
  OBVIOUS
<1>1. ASSUME NEW g \in Guards, NewGuard(g)
      PROVE  Keeps
  <2>1. CancelTypeOK'
    BY <1>1 DEF NewGuard
  <2>2. RefsInv'
    BY <1>1 DEF NewGuard, RefsInv, Inside
  <2>3. SendersInv'
    BY <1>1 DEF NewGuard, RefsInv, SendersInv
  <2>4. QED
    BY <2>1, <2>2, <2>3
<1>2. ASSUME NEW g \in Guards, DropGuard(g)
      PROVE  Keeps
  <2>1. CancelTypeOK'
    BY <1>2 DEF DropGuard
  <2>2. RefsInv'
    BY <1>2 DEF DropGuard, RefsInv, Inside
  <2>3. SendersInv'
    BY <1>2 DEF DropGuard, RefsInv, SendersInv
  <2>4. QED
    BY <2>1, <2>2, <2>3
<1>3. ASSUME NEW g \in Guards, GuardGone(g)
      PROVE  Keeps
  <2>1. CancelTypeOK'
    BY <1>3 DEF GuardGone
  <2>2. RefsInv' /\ SendersInv'
    BY <1>3 DEF GuardGone, RefsInv, SendersInv, Inside
  <2>3. QED
    BY <2>1, <2>2
<1>4. ASSUME NEW u \in Users, DropSender(u)
      PROVE  Keeps
  <2>1. CancelTypeOK'
    BY <1>4 DEF DropSender
  <2>2. RefsInv'
    BY <1>4 DEF DropSender, RefsInv, Inside
  <2>3. SendersInv'
    BY <1>4 DEF DropSender, RefsInv, SendersInv
  <2>4. QED
    BY <2>1, <2>2, <2>3
<1>5. ASSUME NEW u \in Users, LetGone(u)
      PROVE  Keeps
  <2>1. CancelTypeOK'
    BY <1>5 DEF LetGone
  <2>2. RefsInv' /\ SendersInv'
    BY <1>5 DEF LetGone, RefsInv, SendersInv, Inside
  <2>3. QED
    BY <2>1, <2>2
<1>6. ASSUME NEW u \in Users, NotCanceled(u)
      PROVE  Keeps
  <2>1. CancelTypeOK'
    BY <1>6 DEF NotCanceled, Upgrade
  <2>2. RefsInv'
    BY <1>6 DEF NotCanceled, CanUpgrade, Upgrade, RefsInv, Inside
  <2>3. SendersInv'
    BY <1>6 DEF NotCanceled, CanUpgrade, Upgrade, SendersInv
  <2>4. QED
    BY <2>1, <2>2, <2>3
<1>7. ASSUME NEW u \in Users, Register(u)
      PROVE  Keeps
  <2>1. CancelTypeOK'
    BY <1>7 DEF Register, Upgrade
  <2>2. RefsInv'
    BY <1>7 DEF Register, CanUpgrade, Upgrade, RefsInv, Inside
  <2>3. SendersInv'
    BY <1>7 DEF Register, CanUpgrade, Upgrade, SendersInv
  <2>4. QED
    BY <2>1, <2>2, <2>3
<1>8. ASSUME NEW u \in Users, RegisterCanceled(u)
      PROVE  Keeps
  <2>1. CancelTypeOK'
    BY <1>8 DEF RegisterCanceled
  <2>2. RefsInv' /\ SendersInv'
    BY <1>8 DEF RegisterCanceled, CannotUpgrade, RefsInv, SendersInv, Inside
  <2>3. QED
    BY <2>1, <2>2
<1>9. ASSUME NEW u \in Users, RegisterByGuard(u)
      PROVE  Keeps
  <2>1. CancelTypeOK'
    BY <1>9 DEF RegisterByGuard
  <2>2. RefsInv'
    BY <1>9 DEF RegisterByGuard, RefsInv, Inside
  <2>3. SendersInv'
    BY <1>9 DEF RegisterByGuard, SendersInv
  <2>4. QED
    BY <2>1, <2>2, <2>3
<1>10. ASSUME NEW u \in Users, Push(u)
       PROVE  Keeps
  <2>1. CancelTypeOK'
    BY <1>10 DEF Push
  <2>2. RefsInv'
    BY <1>10 DEF Push, RefsInv, Inside
  <2>3. SendersInv'
    BY <1>10 DEF Push, SendersInv
  <2>4. QED
    BY <2>1, <2>2, <2>3
<1>11. ASSUME NEW u \in Users, LetGo(u)
       PROVE  Keeps
  <2>1. CancelTypeOK'
    BY <1>11 DEF LetGo
  <2>2. RefsInv'
    BY <1>11 DEF LetGo, RefsInv, Inside
  <2>3. SendersInv'
    BY <1>11 DEF LetGo, SendersInv
  <2>4. QED
    BY <2>1, <2>2, <2>3
<1>12. ASSUME NEW u \in Users, PollCanceled(u) \/ PollReady(u) \/ Forget(u)
       PROVE  Keeps
  <2>1. CancelTypeOK'
    BY <1>12 DEF PollCanceled, PollReady, Forget
  <2>2. RefsInv' /\ SendersInv'
    BY <1>12 DEF PollCanceled, PollReady, Forget, RefsInv, SendersInv, Inside
  <2>3. QED
    BY <2>1, <2>2
<1>13. CASE UNCHANGED cancelVars
  BY <1>13 DEF cancelVars, RefsInv, SendersInv, Inside
<1>14. QED
  BY <1>1, <1>2, <1>3, <1>4, <1>5, <1>6, <1>7, <1>8, <1>9, <1>10, <1>11, <1>12, <1>13
     DEF CancelNext, Dropping

LEMMA InvImplies ==
    ASSUME HandlesAssumption, CancelInv
    PROVE  CanceledIffGone
<1> SUFFICES ASSUME NEW u \in Users
             PROVE  LET g == GuardOf[u] IN
                    /\ future[u] \in {"closed", "canceled"} => guard[g] \in {"dropping", "gone"}
                    /\ future[u] = "open" /\ guard[g] \in {"dropping", "gone"}
                         => refs[g] # {} \/ u \in cancel_senders[g]
  BY DEF CanceledIffGone
<1>1. GuardOf[u] \in Guards
  BY DEF HandlesAssumption
<1>2. future[u] \in {"closed", "canceled"} => guard[GuardOf[u]] \in {"dropping", "gone"}
  BY <1>1 DEF CancelInv, RefsInv, SendersInv
<1>3. future[u] = "open" => refs[GuardOf[u]] # {} \/ u \in cancel_senders[GuardOf[u]]
  BY <1>1 DEF CancelInv, RefsInv, SendersInv, Inside
<1>4. QED
  BY <1>2, <1>3

(* For any guards, users and handles: futures are cancelled when their     *)
(* guard is gone, all of them, and not before (util/futures.rs).           *)
THEOREM GuardsCancel ==
    ASSUME HandlesAssumption
    PROVE  CancelSpec => [](CancelTypeOK /\ CanceledIffGone)
<1>1. CancelInit => CancelInv
  BY InitInv
<1>2. CancelInv /\ [CancelNext]_cancelVars => CancelInv'
  BY StepInv
<1>3. CancelInv => CancelTypeOK /\ CanceledIffGone
  BY InvImplies DEF CancelInv
<1>4. QED
  BY <1>1, <1>2, <1>3, PTL DEF CancelSpec

=============================================================================
