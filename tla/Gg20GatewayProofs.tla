--------------------------- MODULE Gg20GatewayProofs ---------------------------
(***************************************************************************)
(* What the gateway promises of a key it reports, what the nodes promise   *)
(* of their connections, and that the parties of a signature are in the    *)
(* places the others take them to be, for any number of nodes, of          *)
(* requests, of connections and of threads.                                *)
(***************************************************************************)
EXTENDS Gg20Gateway, FiniteSetTheorems, TLAPS

Held(t) == task[t] = "use" \/ (t[1] \in Signs /\ task[t] \in {"join", "compute"})

Stored(g, i) ==
    \E m \in DOMAIN keys[NodeOf(<<g, i>>)] :
        keys[NodeOf(<<g, i>>)][m] = [key |-> g, index |-> entries[g][i].index]

(* What most steps need of the types; the rest of TypeOK is in SizeInv.    *)
ShapeInv ==
    /\ entries \in [Requests -> Seq(Entry)]
    /\ \A g \in Requests : Len(entries[g]) <= MaxParties
    /\ leg \in [Tasks -> {"delayed", "sent", "ok", "error"}]
    /\ task \in [Tasks -> {"none", "get", "wait", "use", "join", "compute"} \cup Ended]
    /\ conns \in [Nodes -> SUBSET Tasks]
    /\ keys \in [Nodes -> Seq(Share)]
    /\ up \in [Nodes -> BOOLEAN]
    /\ report \in [Requests -> {"none", "ok", "error"}]
    /\ faults \in Nat

(* Nothing was done for a request that nobody has made yet. *)
FreshInv ==
    \A g \in Requests : entries[g] = <<>> =>
        /\ report[g] = "none"
        /\ \A i \in 1 .. MaxParties : leg[<<g, i>>] = "delayed" /\ task[<<g, i>>] = "none"

(* Only a leg that was sent has a task. *)
CalledInv == \A t \in Tasks : leg[t] = "delayed" => task[t] = "none"

(* The chain from the answer of the gateway to the tables of the nodes. *)
ChainInv ==
    /\ \A g \in Keygens : \A i \in Legs(g) : task[<<g, i>>] = "done" => Stored(g, i)
    /\ \A g \in Keygens : \A i \in Legs(g) : leg[<<g, i>>] = "ok" => task[<<g, i>>] = "done"
    /\ \A g \in Keygens : report[g] = "ok" => \A i \in Legs(g) : leg[<<g, i>>] = "ok"

(* The connections out of a pool are those of the tasks that use one. *)
HeldInv == \A n \in Nodes : conns[n] = {t \in At(n) : Held(t)}

UpInv == faults = 0 => \A n \in Nodes : up[n]

LEMMA InitInv == Init => ShapeInv /\ FreshInv /\ CalledInv /\ ChainInv /\ HeldInv /\ UpInv
<1> SUFFICES ASSUME Init
             PROVE  ShapeInv /\ FreshInv /\ CalledInv /\ ChainInv /\ HeldInv /\ UpInv
  OBVIOUS
<1>1. ShapeInv
  BY SizesAssumption DEF Init, ShapeInv, Requests
<1>2. FreshInv
  BY DEF Init, FreshInv, Tasks
<1>3. ChainInv
  BY <1>2 DEF Init, ChainInv, Legs, Requests
<1>4. HeldInv
  <2>1. \A t \in Tasks : ~Held(t)
    BY DEF Init, Held
  <2> QED
    BY <2>1 DEF Init, HeldInv, At
<1>5. UpInv
  BY DEF Init, UpInv
<1>6. CalledInv
  BY DEF Init, CalledInv
<1> QED
  BY <1>1, <1>2, <1>3, <1>4, <1>5, <1>6

Ascending(s) == \A i, j \in DOMAIN s : i < j => s[i].index < s[j].index

(* A signature names parties of its key in the order of their indices.     *)
LEMMA SignEntries ==
    ASSUME ShapeInv, NEW g \in Signs, AskSign(g)
    PROVE  /\ \E s \in Seq(Entry) : /\ entries' = [entries EXCEPT ![g] = s]
                                    /\ Len(s) <= MaxParties /\ Ascending(s)
           /\ \E k \in Keygens : key' = [key EXCEPT ![g] = k]
<1>1. PICK k \in Keygens : \E n \in 2 .. Len(entries[k]) : \E pick \in [1 .. n -> Legs(k)] :
         /\ \E s \in ByIndex([i \in 1 .. n |-> entries[k][pick[i]]]) :
              entries' = [entries EXCEPT ![g] = s]
         /\ key' = [key EXCEPT ![g] = k]
  BY DEF AskSign
<1>2. PICK n \in 2 .. Len(entries[k]) : \E pick \in [1 .. n -> Legs(k)] :
         \E s \in ByIndex([i \in 1 .. n |-> entries[k][pick[i]]]) :
              entries' = [entries EXCEPT ![g] = s]
  BY <1>1
<1>3. PICK pick \in [1 .. n -> Legs(k)] :
         \E s \in ByIndex([i \in 1 .. n |-> entries[k][pick[i]]]) :
              entries' = [entries EXCEPT ![g] = s]
  BY <1>2
<1> DEFINE p == [i \in 1 .. n |-> entries[k][pick[i]]]
<1>4. entries[k] \in Seq(Entry) /\ Len(entries[k]) <= MaxParties
  BY DEF ShapeInv, Requests
<1>5. n \in Nat /\ n <= MaxParties
  BY <1>4, SizesAssumption
<1>6. p \in [1 .. n -> Entry]
  BY <1>4 DEF Legs
<1>7. PICK s \in ByIndex(p) : entries' = [entries EXCEPT ![g] = s]
  BY <1>3
<1>8. DOMAIN p = 1 .. n /\ {p[i] : i \in DOMAIN p} \subseteq Entry
  BY <1>6
<1> HIDE DEF p
<1>9. s \in [1 .. n -> Entry] /\ Ascending(s)
  BY <1>7, <1>8 DEF ByIndex, Ascending
<1>10. s \in Seq(Entry) /\ Len(s) = n
  BY <1>5, <1>9
<1> QED
  BY <1>1, <1>5, <1>7, <1>9, <1>10

(* The parties of a key are numbered. *)
LEMMA KeygenEntries ==
    ASSUME NEW g \in Keygens, AskKeygen(g)
    PROVE  \E s \in Seq(Entry) : /\ entries' = [entries EXCEPT ![g] = s]
                                 /\ Len(s) <= MaxParties /\ Ascending(s)
<1>1. PICK n \in 2 .. MaxParties : \E nodes \in [1 .. n -> Nodes] :
         entries' = [entries EXCEPT ![g] = [i \in 1 .. n |-> [index |-> i, node |-> nodes[i]]]]
  BY DEF AskKeygen
<1>2. PICK nodes \in [1 .. n -> Nodes] :
         entries' = [entries EXCEPT ![g] = [i \in 1 .. n |-> [index |-> i, node |-> nodes[i]]]]
  BY <1>1
<1> DEFINE s == [i \in 1 .. n |-> [index |-> i, node |-> nodes[i]]]
<1>3. n \in Nat /\ n <= MaxParties
  BY SizesAssumption
<1>4. \A i \in 1 .. n : [index |-> i, node |-> nodes[i]] \in Entry
  BY <1>3, SizesAssumption DEF Entry
<1>5. s \in [1 .. n -> Entry]
  BY <1>4
<1>6. s \in Seq(Entry) /\ Len(s) = n
  BY <1>3, <1>5
<1>7. Ascending(s)
  BY <1>3 DEF Ascending
<1> HIDE DEF s
<1> QED
  BY <1>2, <1>3, <1>6, <1>7 DEF s

LEMMA ShapeStep ==
    ASSUME ShapeInv, [Next]_vars
    PROVE  ShapeInv'
<1> USE RequestsAssumption, SizesAssumption
<1> USE DEF ShapeInv
<1>1. ASSUME NEW g \in Keygens, AskKeygen(g) PROVE ShapeInv'
  <2>1. PICK s \in Seq(Entry) : /\ entries' = [entries EXCEPT ![g] = s]
                               /\ Len(s) <= MaxParties
    BY <1>1, KeygenEntries
  <2>2. /\ entries' \in [Requests -> Seq(Entry)]
        /\ \A h \in Requests : Len(entries'[h]) <= MaxParties
    BY <2>1
  <2> QED BY <1>1, <2>2 DEF AskKeygen, nodeVars
<1>2. ASSUME NEW g \in Signs, AskSign(g) PROVE ShapeInv'
  <2>1. PICK s \in Seq(Entry) : /\ entries' = [entries EXCEPT ![g] = s]
                               /\ Len(s) <= MaxParties
    BY <1>2, SignEntries
  <2>2. /\ entries' \in [Requests -> Seq(Entry)]
        /\ \A h \in Requests : Len(entries'[h]) <= MaxParties
    BY <2>1
  <2> QED BY <1>2, <2>2 DEF AskSign, nodeVars
<1>3. ASSUME NEW g \in Requests, NEW i \in Legs(g), Call(g, i) PROVE ShapeInv'
  BY <1>3 DEF Call
<1>4. ASSUME NEW g \in Requests, NEW i \in Legs(g), Receive(g, i) PROVE ShapeInv'
  BY <1>4 DEF Receive, nodeVars
<1>5. ASSUME NEW g \in Requests, NEW i \in Legs(g), Timeout(g, i) PROVE ShapeInv'
  BY <1>5 DEF Timeout, nodeVars
<1>6. ASSUME NEW g \in Requests, Report(g) PROVE ShapeInv'
  BY <1>6 DEF Report, nodeVars
<1>7. ASSUME NEW n \in Nodes, NEW t \in At(n), Store(t) PROVE ShapeInv'
  <2>1. t \in Tasks /\ t[2] \in Legs(t[1]) /\ NodeOf(t) = n
    BY DEF At
  <2>2. entries[t[1]][t[2]] \in Entry
    BY <1>7, <2>1 DEF Store, Legs, Requests
  <2> DEFINE s == [key |-> t[1], index |-> entries[t[1]][t[2]].index]
  <2>3. s \in Share
    BY <1>7, <2>2 DEF Store, Entry, Share
  <2> HIDE DEF s
  <2>4. keys' = [keys EXCEPT ![n] = Append(@, s)] \/ keys' = keys
    BY <1>7, <2>1 DEF Store, s
  <2>5. keys' \in [Nodes -> Seq(Share)]
    <3>1. Append(keys[n], s) \in Seq(Share)
      BY <2>3
    <3> QED
      BY <2>4, <3>1
  <2>6. \E o \in {"done", "dberror"} : End(t, o)
    BY <1>7 DEF Store
  <2>7. UNCHANGED <<entries, leg, up, report, faults>>
    BY <1>7 DEF Store, gatewayVars
  <2> QED
    BY <2>1, <2>5, <2>6, <2>7 DEF End, Ended
<1>8. ASSUME NEW n \in Nodes, NEW t \in At(n), Handle(t) \/ Break(t), ~Store(t)
      PROVE  ShapeInv'
  <2>1. t \in Tasks /\ NodeOf(t) = n
    BY DEF At
  <2>2. UNCHANGED <<entries, leg, keys, up, report>>
    BY <1>8 DEF Handle, Get, Checkout, CheckoutTimeout, Find, Join, Compute, Break, gatewayVars
  <2>3. faults' \in Nat
    BY <1>8 DEF Handle, Get, Checkout, CheckoutTimeout, Find, Join, Compute, Break
  <2>4. \E o \in {"get", "wait", "use", "join", "compute"} \cup Ended : task' = [task EXCEPT ![t] = o]
    BY <1>8 DEF Handle, Get, Checkout, CheckoutTimeout, Find, Join, Compute, Break, End, Ended
  <2>5. \/ conns' = conns
        \/ conns' = [m \in Nodes |-> conns[m] \ {t}]
        \/ conns' = [conns EXCEPT ![n] = @ \cup {t}]
    BY <1>8, <2>1 DEF Handle, Get, Checkout, CheckoutTimeout, Find, Join, Compute, Break, End
  <2>6. conns' \in [Nodes -> SUBSET Tasks]
    <3>1. conns[n] \cup {t} \in SUBSET Tasks /\ \A m \in Nodes : conns[m] \ {t} \in SUBSET Tasks
      BY <2>1
    <3> QED
      BY <2>5, <3>1
  <2> QED
    BY <2>1, <2>2, <2>3, <2>4, <2>6
<1>9. ASSUME NEW n \in Nodes, Acquire(n) \/ ConnectionError(n) PROVE ShapeInv'
  BY <1>9 DEF Acquire, ConnectionError, gatewayVars
<1>10. ASSUME NEW n \in Nodes, GoDown(n) \/ ComeUp(n) PROVE ShapeInv'
  <2>1. UNCHANGED <<entries, leg, task, conns, keys, report>>
    BY <1>10 DEF GoDown, ComeUp, gatewayVars, nodeVars
  <2>2. up' \in [Nodes -> BOOLEAN] /\ faults' \in Nat
    <3>1. faults' \in Nat
      BY <1>10 DEF GoDown, ComeUp
    <3>2. \E b \in BOOLEAN : up' = [up EXCEPT ![n] = b]
      BY <1>10, Zenon DEF GoDown, ComeUp
    <3> QED
      BY <3>1, <3>2
  <2> QED
    BY <2>1, <2>2
<1>11. CASE UNCHANGED vars
  BY <1>11 DEF vars, gatewayVars, nodeVars
<1> QED
  BY <1>1, <1>2, <1>3, <1>4, <1>5, <1>6, <1>7, <1>8, <1>9, <1>10, <1>11
     DEF Next, Rest, Answer

(* A task that moves was called, so its request has entries. *)
LEMMA MovingWasAsked ==
    ASSUME NEW g \in Requests, NEW i \in Legs(g)
    PROVE  entries[g] # <<>>
BY DEF Legs

LEMMA MovingTask ==
    ASSUME NEW n \in Nodes, NEW t \in At(n)
    PROVE  /\ t \in Tasks /\ NodeOf(t) = n /\ t = <<t[1], t[2]>>
           /\ t[1] \in Requests /\ t[2] \in 1 .. MaxParties /\ t[2] \in Legs(t[1])
           /\ entries[t[1]] # <<>>
BY MovingWasAsked DEF At, Tasks

LEMMA FreshStep ==
    ASSUME ShapeInv, FreshInv, [Next]_vars
    PROVE  FreshInv'
<1>1. ASSUME NEW g \in Requests, AskKeygen(g) \/ AskSign(g) PROVE FreshInv'
  <2>1. entries[g] = <<>> /\ \A h \in Requests \ {g} : entries'[h] = entries[h]
    BY <1>1 DEF AskKeygen, AskSign, ShapeInv
  <2>2. UNCHANGED <<leg, report, task>>
    BY <1>1 DEF AskKeygen, AskSign, nodeVars
  <2> QED
    BY <2>1, <2>2 DEF FreshInv
<1>2. ASSUME NEW g \in Requests, NEW i \in Legs(g), Call(g, i) \/ Receive(g, i) \/ Timeout(g, i)
      PROVE  FreshInv'
  <2>1. entries[g] # <<>>
    BY MovingWasAsked
  <2>2. \A h \in Requests, j \in 1 .. MaxParties : h # g =>
          leg'[<<h, j>>] = leg[<<h, j>>] /\ task'[<<h, j>>] = task[<<h, j>>]
    BY <1>2 DEF Call, Receive, Timeout, nodeVars, ShapeInv, Tasks
  <2>3. UNCHANGED <<entries, report>>
    BY <1>2 DEF Call, Receive, Timeout
  <2> QED
    BY <2>1, <2>2, <2>3 DEF FreshInv
<1>3. ASSUME NEW g \in Requests, Report(g) PROVE FreshInv'
  <2>1. entries[g] # <<>> /\ \A h \in Requests \ {g} : report'[h] = report[h]
    BY <1>3 DEF Report, ShapeInv
  <2>2. UNCHANGED <<entries, leg, task>>
    BY <1>3 DEF Report, nodeVars
  <2> QED
    BY <2>1, <2>2 DEF FreshInv
<1>4. ASSUME NEW n \in Nodes, NEW t \in At(n), Handle(t) \/ Break(t) PROVE FreshInv'
  <2>1. UNCHANGED <<entries, leg, report>> /\ \E o : task' = [task EXCEPT ![t] = o]
    BY <1>4 DEF Handle, Get, Checkout, CheckoutTimeout, Store, Find, Join, Compute, Break,
                End, gatewayVars
  <2>2. \A h \in Requests, j \in 1 .. MaxParties : h # t[1] => task'[<<h, j>>] = task[<<h, j>>]
    BY <2>1, MovingTask DEF ShapeInv, Tasks
  <2> QED
    BY <2>1, <2>2, MovingTask DEF FreshInv
<1>5. ASSUME NEW n \in Nodes, Acquire(n) \/ ConnectionError(n) \/ GoDown(n) \/ ComeUp(n)
      PROVE  FreshInv'
  <2>1. UNCHANGED <<entries, leg, report, task>>
    BY <1>5 DEF Acquire, ConnectionError, GoDown, ComeUp, gatewayVars, nodeVars
  <2> QED
    BY <2>1 DEF FreshInv
<1>6. CASE UNCHANGED vars
  BY <1>6 DEF vars, gatewayVars, nodeVars, FreshInv
<1> QED
  BY <1>1, <1>2, <1>3, <1>4, <1>5, <1>6 DEF Next, Rest, Answer, Requests

LEMMA CalledStep ==
    ASSUME ShapeInv, CalledInv, [Next]_vars
    PROVE  CalledInv'
<1>1. ASSUME NEW g \in Requests, AskKeygen(g) \/ AskSign(g) \/ Report(g) PROVE CalledInv'
  BY <1>1 DEF AskKeygen, AskSign, Report, nodeVars, CalledInv
<1>2. ASSUME NEW g \in Requests, NEW i \in Legs(g), Call(g, i) \/ Receive(g, i) \/ Timeout(g, i)
      PROVE  CalledInv'
  BY <1>2 DEF Call, Receive, Timeout, nodeVars, ShapeInv, CalledInv
<1>3. ASSUME NEW n \in Nodes, NEW t \in At(n), Handle(t) \/ Break(t) PROVE CalledInv'
  <2>1. UNCHANGED leg /\ task[t] # "none" /\ \E o : task' = [task EXCEPT ![t] = o]
    BY <1>3 DEF Handle, Get, Checkout, CheckoutTimeout, Store, Find, Join, Compute, Break,
                End, gatewayVars
  <2> QED
    BY <2>1, MovingTask DEF ShapeInv, CalledInv
<1>4. ASSUME NEW n \in Nodes, Acquire(n) \/ ConnectionError(n) \/ GoDown(n) \/ ComeUp(n)
      PROVE  CalledInv'
  BY <1>4 DEF Acquire, ConnectionError, GoDown, ComeUp, gatewayVars, nodeVars, CalledInv
<1>5. CASE UNCHANGED vars
  BY <1>5 DEF vars, gatewayVars, nodeVars, CalledInv
<1> QED
  BY <1>1, <1>2, <1>3, <1>4, <1>5 DEF Next, Rest, Answer, Requests

(* A stored share stays where it is: tables only grow, and what a request  *)
(* names does not change.                                                  *)
LEMMA StoredStays ==
    ASSUME ShapeInv, NEW g \in Keygens, NEW i \in Legs(g), Stored(g, i),
           entries' = entries,
           keys' = keys \/ \E n \in Nodes : \E s \in Share : keys' = [keys EXCEPT ![n] = Append(@, s)]
    PROVE  Stored(g, i)'
<1> DEFINE n == NodeOf(<<g, i>>)
<1>1. entries[g][i] \in Entry
  BY DEF ShapeInv, Legs, Requests
<1>2. n \in Nodes /\ n' = n
  BY <1>1 DEF NodeOf, Entry
<1>3. PICK m \in DOMAIN keys[n] : keys[n][m] = [key |-> g, index |-> entries[g][i].index]
  BY DEF Stored
<1> HIDE DEF n
<1>4. keys[n] \in Seq(Share)
  BY <1>2 DEF ShapeInv
<1>5. \A s \in Share : m \in DOMAIN Append(keys[n], s) /\ Append(keys[n], s)[m] = keys[n][m]
  BY <1>3, <1>4
<1>6. keys'[n] = keys[n] \/ \E s \in Share : keys'[n] = Append(keys[n], s)
  BY <1>2 DEF ShapeInv
<1>7. m \in DOMAIN keys'[n] /\ keys'[n][m] = keys[n][m]
  BY <1>3, <1>5, <1>6
<1> QED
  BY <1>2, <1>3, <1>7 DEF Stored, n

LEMMA ChainStep ==
    ASSUME ShapeInv, FreshInv, CalledInv, ChainInv, [Next]_vars
    PROVE  ChainInv'
<1> USE RequestsAssumption
<1>1. ASSUME NEW g \in Requests, AskKeygen(g) \/ AskSign(g) PROVE ChainInv'
  <2>1. entries[g] = <<>> /\ \A h \in Requests \ {g} : entries'[h] = entries[h]
    BY <1>1 DEF AskKeygen, AskSign, ShapeInv
  <2>2. UNCHANGED <<leg, report, task, keys>>
    BY <1>1 DEF AskKeygen, AskSign, nodeVars
  <2>3. ShapeInv'
    BY ShapeStep
  <2>4. \A i \in Legs(g)' : g \in Keygens => i \in 1 .. MaxParties
    BY <2>3, SizesAssumption DEF ShapeInv, Legs
  <2>5. report[g] = "none" /\ \A i \in 1 .. MaxParties : leg[<<g, i>>] = "delayed" /\ task[<<g, i>>] = "none"
    BY <2>1 DEF FreshInv
  <2>6. \A h \in Keygens \ {g} : /\ Legs(h)' = Legs(h)
                                /\ \A i \in Legs(h) : Stored(h, i)' = Stored(h, i)
    BY <2>1, <2>2 DEF Legs, Stored, NodeOf, Requests
  <2> QED
    BY <2>2, <2>4, <2>5, <2>6 DEF ChainInv
<1>2. ASSUME NEW g \in Requests, NEW i \in Legs(g), Call(g, i) \/ Receive(g, i) \/ Timeout(g, i)
      PROVE  ChainInv'
  <2>1. UNCHANGED <<entries, report, keys>>
    BY <1>2 DEF Call, Receive, Timeout, nodeVars
  <2>2. \A h \in Keygens : Legs(h)' = Legs(h) /\ \A j \in Legs(h) : Stored(h, j)' = Stored(h, j)
    BY <2>1 DEF Legs, Stored, NodeOf
  <2>3. \A h \in Keygens : \A j \in Legs(h) : <<h, j>> \in Tasks
    BY SizesAssumption DEF ShapeInv, Legs, Tasks, Requests
  <2>4. leg[<<g, i>>] \in {"delayed", "sent"}
    BY <1>2 DEF Call, Receive, Timeout
  <2>5. \A h \in Keygens : \A j \in Legs(h) : leg[<<h, j>>] = "ok" => leg'[<<h, j>>] = "ok"
    BY <1>2, <2>3, <2>4 DEF Call, Receive, Timeout, ShapeInv
  <2>6. \A h \in Keygens : \A j \in Legs(h) : task[<<h, j>>] = "done" <=> task'[<<h, j>>] = "done"
    <3>1. CASE Call(g, i)
      <4>1. leg[<<g, i>>] = "delayed" /\ \A t \in Tasks : t # <<g, i>> => task'[t] = task[t]
        BY <3>1 DEF Call, ShapeInv
      <4>2. <<g, i>> \in Tasks => task[<<g, i>>] # "done" /\ task'[<<g, i>>] # "done"
        BY <3>1, <4>1 DEF Call, ShapeInv, CalledInv
      <4> QED
        BY <4>1, <4>2, <2>3
    <3>2. CASE Receive(g, i) \/ Timeout(g, i)
      BY <3>2 DEF Receive, Timeout, nodeVars
    <3> QED
      BY <1>2, <3>1, <3>2
  <2>7. \A h \in Keygens : \A j \in Legs(h) :
           leg'[<<h, j>>] = "ok" => leg[<<h, j>>] = "ok" \/ task[<<h, j>>] = "done"
    BY <1>2, <2>3 DEF Call, Receive, Timeout, ShapeInv
  <2> QED
    BY <2>1, <2>2, <2>5, <2>6, <2>7 DEF ChainInv
<1>3. ASSUME NEW g \in Requests, Report(g) PROVE ChainInv'
  <2>1. UNCHANGED <<entries, leg, task, keys>>
    BY <1>3 DEF Report, nodeVars
  <2>2. \A h \in Keygens : Legs(h)' = Legs(h) /\ \A j \in Legs(h) : Stored(h, j)' = Stored(h, j)
    BY <2>1 DEF Legs, Stored, NodeOf
  <2>3. \A h \in Keygens : report'[h] = "ok" =>
           report[h] = "ok" \/ \A j \in Legs(h) : leg[<<h, j>>] = "ok"
    BY <1>3 DEF Report, ShapeInv, Requests
  <2> QED
    BY <2>1, <2>2, <2>3 DEF ChainInv
<1>4. ASSUME NEW n \in Nodes, NEW t \in At(n), Handle(t) \/ Break(t) PROVE ChainInv'
  <2>1. UNCHANGED <<entries, leg, report>> /\ \E o : task' = [task EXCEPT ![t] = o]
    BY <1>4 DEF Handle, Get, Checkout, CheckoutTimeout, Store, Find, Join, Compute, Break,
                End, gatewayVars
  <2>2. keys' = keys \/ \E m \in Nodes : \E s \in Share : keys' = [keys EXCEPT ![m] = Append(@, s)]
    <3>1. CASE Store(t)
      <4>1. entries[t[1]][t[2]] \in Entry
        BY <3>1, MovingTask DEF Store, Legs, ShapeInv
      <4>2. [key |-> t[1], index |-> entries[t[1]][t[2]].index] \in Share
        BY <3>1, <4>1 DEF Store, Entry, Share
      <4> QED
        BY <3>1, <4>2, MovingTask DEF Store
    <3>2. CASE ~Store(t)
      BY <1>4, <3>2 DEF Handle, Get, Checkout, CheckoutTimeout, Find, Join, Compute, Break
    <3> QED
      BY <3>1, <3>2
  <2>3. \A h \in Keygens : Legs(h)' = Legs(h) /\ \A j \in Legs(h) : <<h, j>> \in Tasks
    BY <2>1, SizesAssumption DEF ShapeInv, Legs, Tasks, Requests
  <2>4. \A h \in Keygens : \A j \in Legs(h) : Stored(h, j) => Stored(h, j)'
    BY <2>1, <2>2, StoredStays
  <2>5. task[t] # "done" /\ \A u \in Tasks : u # t => task'[u] = task[u]
    BY <1>4, <2>1 DEF ShapeInv, Handle, Get, Checkout, CheckoutTimeout, Store, Find, Join, Compute, Break
  <2>6. ASSUME t[1] \in Keygens, task'[t] = "done" PROVE Stored(t[1], t[2])'
    <3>1. Store(t) /\ up[NodeOf(t)]
      BY <1>4, <2>6, MovingTask DEF ShapeInv, Handle, Get, Checkout, CheckoutTimeout, Store, Find,
            Join, Compute, Break, End
    <3>2. keys[n] \in Seq(Share) /\ entries[t[1]][t[2]] \in Entry
      BY <2>6, MovingTask DEF Legs, ShapeInv
    <3> DEFINE s == [key |-> t[1], index |-> entries[t[1]][t[2]].index]
    <3>3. s \in Share
      BY <2>6, <3>2 DEF Entry, Share
    <3>4. keys' = [keys EXCEPT ![n] = Append(@, s)]
      BY <3>1, MovingTask DEF Store
    <3> HIDE DEF s
    <3>5. keys'[n] = Append(keys[n], s)
      BY <3>4 DEF ShapeInv
    <3>6. Len(keys[n]) + 1 \in DOMAIN keys'[n] /\ keys'[n][Len(keys[n]) + 1] = s
      BY <3>2, <3>3, <3>5
    <3>7. NodeOf(<<t[1], t[2]>>)' = n
      BY <2>1, MovingTask DEF NodeOf
    <3> QED
      BY <2>1, <3>6, <3>7 DEF Stored, s
  <2>7. ASSUME NEW h \in Keygens, NEW j \in Legs(h), task'[<<h, j>>] = "done"
        PROVE  Stored(h, j)'
    <3>1. CASE t = <<h, j>>
      BY <2>6, <2>7, <3>1
    <3>2. CASE t # <<h, j>>
      BY <2>3, <2>4, <2>5, <2>7, <3>2 DEF ChainInv
    <3> QED
      BY <3>1, <3>2
  <2>8. \A h \in Keygens : \A j \in Legs(h) : task[<<h, j>>] = "done" => task'[<<h, j>>] = "done"
    BY <2>3, <2>5
  <2> QED
    BY <2>1, <2>3, <2>7, <2>8 DEF ChainInv
<1>5. ASSUME NEW n \in Nodes, Acquire(n) \/ ConnectionError(n) \/ GoDown(n) \/ ComeUp(n)
      PROVE  ChainInv'
  <2>1. UNCHANGED <<entries, leg, report, task, keys>>
    BY <1>5 DEF Acquire, ConnectionError, GoDown, ComeUp, gatewayVars, nodeVars
  <2> QED
    BY <2>1 DEF ChainInv, Legs, Stored, NodeOf
<1>6. CASE UNCHANGED vars
  BY <1>6 DEF vars, gatewayVars, nodeVars, ChainInv, Legs, Stored, NodeOf
<1> QED
  BY <1>1, <1>2, <1>3, <1>4, <1>5, <1>6 DEF Next, Rest, Answer, Requests

(* A handler keeps its connection, takes one, or ends without one. *)
LEMMA HandlerKinds ==
    ASSUME ShapeInv, NEW n \in Nodes, NEW t \in At(n), Handle(t) \/ Break(t)
    PROVE  /\ entries' = entries
           /\ \A u \in Tasks : u # t => task'[u] = task[u]
           /\ \/ Held(t)' = Held(t) /\ conns' = conns
              \/ ~Held(t)' /\ conns' = [m \in Nodes |-> conns[m] \ {t}]
              \/ Held(t)' /\ conns' = [conns EXCEPT ![n] = @ \cup {t}]
<1> USE RequestsAssumption, MovingTask DEF ShapeInv
<1>1. entries' = entries /\ \E o : task' = [task EXCEPT ![t] = o]
  BY DEF Handle, Get, Checkout, CheckoutTimeout, Store, Find, Join, Compute, Break,
         End, gatewayVars
<1>2. \A u \in Tasks : u # t => task'[u] = task[u]
  BY <1>1
<1> DEFINE Kinds == \/ Held(t)' = Held(t) /\ conns' = conns
                    \/ ~Held(t)' /\ conns' = [m \in Nodes |-> conns[m] \ {t}]
                    \/ Held(t)' /\ conns' = [conns EXCEPT ![n] = @ \cup {t}]
<1>3. ASSUME NEW o \in Ended, End(t, o) PROVE Kinds
  BY <1>3 DEF End, Ended, Held
<1>4. ASSUME Get(t) PROVE Kinds
  <2>1. task[t] = "get" /\ task'[t] \in {"wait", "starved"} /\ conns' = conns
    BY <1>4 DEF Get
  <2> QED
    BY <2>1 DEF Held
<1>5. ASSUME Checkout(t) PROVE Kinds
  <2>1. task'[t] = "use" /\ conns' = [conns EXCEPT ![n] = @ \cup {t}]
    BY <1>5 DEF Checkout
  <2> QED
    BY <2>1 DEF Held
<1>6. ASSUME CheckoutTimeout(t) PROVE Kinds
  <2>1. task[t] = "wait" /\ task'[t] = "starved" /\ conns' = conns
    BY <1>6 DEF CheckoutTimeout
  <2> QED
    BY <2>1 DEF Held
<1>7. ASSUME Store(t) PROVE Kinds
  BY <1>3, <1>7 DEF Store, Ended
<1>8. ASSUME Find(t) PROVE Kinds
  <2>1. CASE \E o \in Ended : End(t, o)
    BY <1>3, <2>1
  <2>2. CASE ~ \E o \in Ended : End(t, o)
    <3>1. t[1] \in Signs /\ task[t] = "use" /\ task'[t] = "join" /\ conns' = conns
      BY <1>8, <2>2 DEF Find, Ended
    <3> QED
      BY <3>1 DEF Held
  <2> QED
    BY <2>1, <2>2
<1>9. ASSUME Join(t) PROVE Kinds
  <2>1. task[t] = "join" /\ task'[t] = "compute" /\ conns' = conns
    BY <1>9 DEF Join
  <2> QED
    BY <2>1 DEF Held
<1>10. ASSUME Compute(t) PROVE Kinds
  <2>1. CASE t[1] \in Keygens
    <3>1. t[1] \notin Signs /\ task[t] = "compute" /\ task'[t] = "get" /\ conns' = conns
      BY <1>10, <2>1 DEF Compute
    <3> QED
      BY <3>1 DEF Held
  <2>2. CASE t[1] \notin Keygens
    BY <1>3, <1>10, <2>2 DEF Compute, Ended
  <2> QED
    BY <2>1, <2>2
<1>11. ASSUME Break(t) PROVE Kinds
  BY <1>3, <1>11 DEF Break, Ended
<1>12. Kinds
  BY <1>4, <1>5, <1>6, <1>7, <1>8, <1>9, <1>10, <1>11 DEF Handle
<1> QED
  BY <1>1, <1>2, <1>12

LEMMA HeldStep ==
    ASSUME ShapeInv, FreshInv, CalledInv, HeldInv, [Next]_vars
    PROVE  HeldInv'
<1> USE RequestsAssumption
<1>1. ASSUME NEW g \in Requests, AskKeygen(g) \/ AskSign(g) PROVE HeldInv'
  <2>1. entries[g] = <<>> /\ \A h \in Requests \ {g} : entries'[h] = entries[h]
    BY <1>1 DEF AskKeygen, AskSign, ShapeInv
  <2>2. UNCHANGED <<conns, task>>
    BY <1>1 DEF AskKeygen, AskSign, nodeVars
  <2>3. \A t \in Tasks : Held(t)' = Held(t)
    BY <2>2 DEF Held
  <2>4. \A t \in Tasks : t[1] = g => ~Held(t)
    BY <2>1 DEF FreshInv, Held, Tasks
  <2>5. \A n \in Nodes : \A t \in Tasks : t[1] # g => (t \in At(n) <=> t \in At(n)')
    BY <2>1 DEF At, Legs, NodeOf, Tasks
  <2>6. \A n \in Nodes : {t \in At(n) : Held(t)}' = {t \in At(n) : Held(t)}
    BY <2>3, <2>4, <2>5 DEF At
  <2> QED
    BY <2>2, <2>6 DEF HeldInv
<1>2. ASSUME NEW g \in Requests, NEW i \in Legs(g), Call(g, i) PROVE HeldInv'
  <2>1. UNCHANGED <<entries, conns>>
    BY <1>2 DEF Call
  <2>2. \A t \in Tasks : t # <<g, i>> => task'[t] = task[t]
    BY <1>2 DEF Call, ShapeInv
  <2>3. \A t \in Tasks : t = <<g, i>> => ~Held(t) /\ ~Held(t)'
    BY <1>2 DEF Call, CalledInv, ShapeInv, Held
  <2>4. \A t \in Tasks : Held(t)' = Held(t)
    BY <2>2, <2>3 DEF Held
  <2>5. \A n \in Nodes : {t \in At(n) : Held(t)}' = {t \in At(n) : Held(t)}
    BY <2>1, <2>4 DEF At, Legs, NodeOf
  <2> QED
    BY <2>1, <2>5 DEF HeldInv
<1>3. ASSUME NEW n \in Nodes, NEW t \in At(n), Handle(t) \/ Break(t) PROVE HeldInv'
  <2>1. entries' = entries /\ \A u \in Tasks : u # t => Held(u)' = Held(u)
    BY <1>3, HandlerKinds DEF Held
  <2>2. \A m \in Nodes : At(m)' = At(m)
    BY <2>1 DEF At, Legs, NodeOf
  <2>3. \A m \in Nodes : m # n => t \notin At(m)
    BY DEF At
  <2>4. \A m \in Nodes : At(m) \subseteq Tasks
    BY DEF At
  <2>5. CASE Held(t)' = Held(t) /\ conns' = conns
    BY <2>1, <2>2, <2>4, <2>5 DEF HeldInv
  <2>6. CASE ~Held(t)' /\ conns' = [m \in Nodes |-> conns[m] \ {t}]
    BY <2>1, <2>2, <2>4, <2>6 DEF HeldInv
  <2>7. CASE Held(t)' /\ conns' = [conns EXCEPT ![n] = @ \cup {t}]
    BY <2>1, <2>2, <2>3, <2>4, <2>7 DEF HeldInv, ShapeInv
  <2> QED
    BY <1>3, <2>5, <2>6, <2>7, HandlerKinds
<1>4. ASSUME NEW g \in Requests, Report(g) \/ \E i \in Legs(g) : Receive(g, i) \/ Timeout(g, i)
      PROVE  HeldInv'
  <2>1. UNCHANGED <<entries, conns, task>>
    BY <1>4 DEF Report, Receive, Timeout, nodeVars
  <2> QED
    BY <2>1 DEF HeldInv, Held, At, Legs, NodeOf
<1>5. ASSUME NEW n \in Nodes, Acquire(n) \/ ConnectionError(n) \/ GoDown(n) \/ ComeUp(n)
      PROVE  HeldInv'
  <2>1. UNCHANGED <<entries, conns, task>>
    BY <1>5 DEF Acquire, ConnectionError, GoDown, ComeUp, gatewayVars, nodeVars
  <2> QED
    BY <2>1 DEF HeldInv, Held, At, Legs, NodeOf
<1>6. CASE UNCHANGED vars
  BY <1>6 DEF vars, gatewayVars, nodeVars, HeldInv, Held, At, Legs, NodeOf
<1> QED
  BY <1>1, <1>2, <1>3, <1>4, <1>5, <1>6 DEF Next, Rest, Answer, Requests

LEMMA UpStep ==
    ASSUME ShapeInv, UpInv, [Next]_vars
    PROVE  UpInv'
<1>1. ASSUME NEW n \in Nodes, NEW t \in At(n), Break(t) PROVE UpInv'
  BY <1>1 DEF Break, ShapeInv, UpInv
<1>2. ASSUME NEW n \in Nodes, GoDown(n) PROVE UpInv'
  BY <1>2 DEF GoDown, ShapeInv, UpInv
<1>3. ASSUME NEW n \in Nodes, ComeUp(n) PROVE UpInv'
  BY <1>3 DEF ComeUp, ShapeInv, UpInv
<1>4. CASE UNCHANGED <<up, faults>>
  BY <1>4 DEF UpInv
<1>5. ASSUME NEW n \in Nodes, NEW t \in At(n), Handle(t) PROVE UNCHANGED <<up, faults>>
  BY <1>5 DEF Handle, Get, Checkout, CheckoutTimeout, Store, Find, Join, Compute
<1>6. ASSUME NEW g \in Requests, AskKeygen(g) \/ AskSign(g) \/ Report(g) PROVE UNCHANGED <<up, faults>>
  BY <1>6 DEF AskKeygen, AskSign, Report
<1>7. ASSUME NEW g \in Requests, NEW i \in Legs(g), Call(g, i) \/ Receive(g, i) \/ Timeout(g, i)
      PROVE  UNCHANGED <<up, faults>>
  BY <1>7 DEF Call, Receive, Timeout
<1>8. ASSUME NEW n \in Nodes, Acquire(n) \/ ConnectionError(n) PROVE UNCHANGED <<up, faults>>
  BY <1>8 DEF Acquire, ConnectionError
<1>9. CASE UNCHANGED vars
  BY <1>4, <1>9 DEF vars
<1> QED
  BY <1>1, <1>2, <1>3, <1>4, <1>5, <1>6, <1>7, <1>8, <1>9 DEF Next, Rest, Answer, Requests

-----------------------------------------------------------------------------
GatewayInv == ShapeInv /\ FreshInv /\ CalledInv /\ ChainInv /\ HeldInv /\ UpInv

LEMMA GatewayInvariant == Spec => []GatewayInv
<1>1. Init => GatewayInv
  BY InitInv DEF GatewayInv
<1>2. GatewayInv /\ [Next]_vars => GatewayInv'
  BY ShapeStep, FreshStep, CalledStep, ChainStep, HeldStep, UpStep DEF GatewayInv
<1> QED
  BY <1>1, <1>2, PTL DEF Spec

(* Whatever fails or answers late, a key the gateway reports is in the     *)
(* table of every node it names, under the index it names there.           *)
THEOREM ReportsAreKept == Spec => []ReportedIsStored
<1>1. GatewayInv => ReportedIsStored
  <2> SUFFICES ASSUME GatewayInv, NEW g \in Keygens, report[g] = "ok", NEW i \in Legs(g)
               PROVE  Stored(g, i)
    BY DEF ReportedIsStored, Stored
  <2> QED
    BY DEF GatewayInv, ChainInv
<1> QED
  BY <1>1, GatewayInvariant, PTL

LEMMA TasksFinite == IsFiniteSet(Tasks)
<1>1. IsFiniteSet(Requests)
  BY FinitenessAssumption, FS_Union DEF Requests
<1>2. IsFiniteSet(1 .. MaxParties)
  BY SizesAssumption, FS_Interval
<1> QED
  BY <1>1, <1>2, FS_Product DEF Tasks

(* Every connection comes back: a handler waits in vain only while others  *)
(* are at work with all of them.                                           *)
THEOREM ConnectionsComeBack == Spec => TimeoutOnlyIfBusy
<1> DEFINE Busy == \A n \in Nodes : \A t \in At(n) :
        (task[t] = "wait" /\ task'[t] = "starved" /\ faults = 0) => Cardinality(AtWork(n)) > PoolSize
<1>1. GatewayInv /\ [Next]_vars => [Busy]_vars
  <2> SUFFICES ASSUME GatewayInv, [Next]_vars, NEW n \in Nodes, NEW t \in At(n),
                      task[t] = "wait", task'[t] = "starved", faults = 0
               PROVE  Cardinality(AtWork(n)) > PoolSize
    OBVIOUS
  <2>1. CheckoutTimeout(t)
    <3>1. t \in Tasks /\ ~UNCHANGED task
      BY MovingTask
    <3>2. ASSUME NEW m \in Nodes, NEW u \in At(m), Handle(u) \/ Break(u) PROVE CheckoutTimeout(t)
      <4>1. u = t
        BY <3>1, <3>2, HandlerKinds DEF GatewayInv
      <4> QED
        BY <3>1, <3>2, <4>1 DEF Handle, Get, Checkout, Store, Find, Join, Compute, Break,
              GatewayInv, ShapeInv
    <3>3. ASSUME NEW g \in Requests, NEW i \in Legs(g), Call(g, i) PROVE FALSE
      BY <3>1, <3>3 DEF Call, GatewayInv, ShapeInv
    <3>4. ASSUME NEW g \in Requests,
                 AskKeygen(g) \/ AskSign(g) \/ Report(g) \/ \E i \in Legs(g) : Receive(g, i) \/ Timeout(g, i)
          PROVE  FALSE
      BY <3>1, <3>4 DEF AskKeygen, AskSign, Report, Receive, Timeout, nodeVars
    <3>5. ASSUME NEW m \in Nodes, Acquire(m) \/ ConnectionError(m) \/ GoDown(m) \/ ComeUp(m) PROVE FALSE
      BY <3>1, <3>5 DEF Acquire, ConnectionError, GoDown, ComeUp, nodeVars
    <3>6. ~UNCHANGED vars
      BY <3>1 DEF vars, nodeVars
    <3> QED
      BY <3>2, <3>3, <3>4, <3>5, <3>6 DEF Next, Rest, Answer, Requests
  <2>2. ~(Cardinality(conns[n]) < PoolSize)
    BY <2>1, MovingTask DEF CheckoutTimeout, HasFree, GatewayInv, UpInv
  <2>3. conns[n] \cup {t} \subseteq AtWork(n) /\ t \notin conns[n]
    BY DEF GatewayInv, HeldInv, Held, AtWork
  <2>4. AtWork(n) \subseteq Tasks
    BY DEF AtWork, At
  <2>5. IsFiniteSet(AtWork(n)) /\ IsFiniteSet(conns[n])
    BY <2>3, <2>4, TasksFinite, FS_Subset
  <2>6. /\ Cardinality(conns[n] \cup {t}) = Cardinality(conns[n]) + 1
        /\ IsFiniteSet(conns[n] \cup {t})
    BY <2>3, <2>5, FS_AddElement
  <2>7. Cardinality(conns[n] \cup {t}) <= Cardinality(AtWork(n))
    BY <2>3, <2>5, FS_Subset
  <2>8. Cardinality(conns[n]) \in Nat /\ Cardinality(AtWork(n)) \in Nat /\ PoolSize \in Nat
    BY <2>5, FS_CardinalityType, SizesAssumption
  <2> QED
    BY <2>2, <2>6, <2>7, <2>8
<1> QED
  BY <1>1, GatewayInvariant, PTL DEF Spec, TimeoutOnlyIfBusy

-----------------------------------------------------------------------------
(* The rest of the types. *)

SizeInv ==
    /\ key \in [Signs -> Requests]
    /\ share \in [Tasks -> 0 .. MaxParties]
    /\ room \in [Requests -> Seq(1 .. MaxParties)]
    /\ \A n \in Nodes : Cardinality(conns[n]) <= PoolSize
    /\ available \in [Nodes -> BOOLEAN]
    /\ timeouts \in 0 .. MaxTimeouts
    /\ faults \in 0 .. MaxFaults

(* What a step of a handler does to its task, its share and its room: it   *)
(* joins, it finds its share, or it goes on without either.                *)
Joins(t) ==
    /\ task[t] = "join" /\ task'[t] = "compute"
    /\ room' = [room EXCEPT ![t[1]] = Append(@, t[2])]
    /\ share' = share

Finds(t) ==
    /\ t[1] \in Signs /\ task[t] = "use" /\ task'[t] = "join"
    /\ up[NodeOf(t)]
    /\ share' = [share EXCEPT ![t] = entries[t[1]][t[2]].index]
    /\ room' = room

GoesOn(t) ==
    /\ \/ task'[t] \in Ended
       \/ task[t] \in {"get", "wait"} /\ task'[t] \in {"wait", "use"}
       \/ t[1] \in Keygens /\ task[t] = "compute" /\ task'[t] = "get"
    /\ UNCHANGED <<share, room>>

LEMMA HandlerMoves ==
    ASSUME ShapeInv, NEW n \in Nodes, NEW t \in At(n), Handle(t) \/ Break(t)
    PROVE  /\ UNCHANGED <<entries, leg, key>>
           /\ task' \in [Tasks -> {"none", "get", "wait", "use", "join", "compute"} \cup Ended]
           /\ \A u \in Tasks : u # t => task'[u] = task[u]
           /\ task[t] \notin Ended \cup {"none"}
           /\ Joins(t) \/ Finds(t) \/ GoesOn(t)
<1> USE MovingTask DEF ShapeInv
<1>1. UNCHANGED <<entries, leg, key>>
  BY DEF Handle, Get, Checkout, CheckoutTimeout, Store, Find, Join, Compute, Break, gatewayVars
<1>2. task[t] \in {"get", "wait", "use", "join", "compute"}
  BY DEF Handle, Get, Checkout, CheckoutTimeout, Store, Find, Join, Compute, Break
<1>3. \E o \in {"get", "wait", "use", "join", "compute"} \cup Ended : task' = [task EXCEPT ![t] = o]
  BY DEF Handle, Get, Checkout, CheckoutTimeout, Store, Find, Join, Compute, Break, End, Ended
<1>4. /\ task' \in [Tasks -> {"none", "get", "wait", "use", "join", "compute"} \cup Ended]
      /\ \A u \in Tasks : u # t => task'[u] = task[u]
  BY <1>3
<1>5. ASSUME NEW o \in Ended, End(t, o), UNCHANGED <<share, room>> PROVE GoesOn(t)
  BY <1>5 DEF End, GoesOn
<1>6. ASSUME Get(t) PROVE GoesOn(t)
  BY <1>6 DEF Get, GoesOn, Ended
<1>7. ASSUME Checkout(t) PROVE GoesOn(t)
  BY <1>7 DEF Checkout, GoesOn
<1>8. ASSUME CheckoutTimeout(t) PROVE GoesOn(t)
  BY <1>8 DEF CheckoutTimeout, GoesOn, Ended
<1>9. ASSUME Store(t) PROVE GoesOn(t)
  BY <1>5, <1>9 DEF Store, Ended
<1>10. ASSUME Find(t) PROVE Finds(t) \/ GoesOn(t)
  <2> DEFINE found == Matching(NodeOf(t), key[t[1]], entries[t[1]][t[2]].index)
  <2>1. CASE up[NodeOf(t)] /\ found # {}
    <3>1. PICK m \in found : share' = [share EXCEPT ![t] = keys[NodeOf(t)][m].index]
      BY <1>10, <2>1 DEF Find
    <3>2. keys[NodeOf(t)][m].index = entries[t[1]][t[2]].index
      BY <3>1 DEF Matching
    <3>3. t[1] \in Signs /\ task[t] = "use" /\ task'[t] = "join" /\ room' = room
      BY <1>10, <2>1 DEF Find
    <3> QED
      BY <2>1, <3>1, <3>2, <3>3 DEF Finds
  <2>2. CASE ~(up[NodeOf(t)] /\ found # {})
    <3>1. End(t, "dberror") /\ UNCHANGED <<share, room>>
      BY <1>10, <2>2 DEF Find
    <3> QED
      BY <1>5, <3>1 DEF Ended
  <2> QED
    BY <2>1, <2>2
<1>11. ASSUME Join(t) PROVE Joins(t)
  BY <1>11 DEF Join, Joins
<1>12. ASSUME Compute(t) PROVE GoesOn(t)
  <2>1. CASE t[1] \in Keygens
    BY <1>12, <2>1 DEF Compute, GoesOn
  <2>2. CASE t[1] \notin Keygens
    BY <1>5, <1>12, <2>2 DEF Compute, Ended
  <2> QED
    BY <2>1, <2>2
<1>13. ASSUME Break(t) PROVE GoesOn(t)
  BY <1>5, <1>13 DEF Break, Ended
<1>14. Joins(t) \/ Finds(t) \/ GoesOn(t)
  BY <1>6, <1>7, <1>8, <1>9, <1>10, <1>11, <1>12, <1>13 DEF Handle
<1>15. task[t] \notin Ended \cup {"none"}
  BY <1>2 DEF Ended
<1> QED
  BY <1>1, <1>4, <1>14, <1>15

LEMMA SizeInit == Init => SizeInv
<1> SUFFICES ASSUME Init PROVE SizeInv
  OBVIOUS
<1>1. \A n \in Nodes : Cardinality(conns[n]) <= PoolSize
  BY SizesAssumption, FS_EmptySet DEF Init
<1>2. key \in [Signs -> Requests]
  BY DEF Init, Requests
<1> QED
  BY <1>1, <1>2, SizesAssumption DEF Init, SizeInv

LEMMA SizeStep ==
    ASSUME ShapeInv, SizeInv, [Next]_vars
    PROVE  SizeInv'
<1> USE SizesAssumption DEF SizeInv
<1>1. ASSUME NEW g \in Keygens, AskKeygen(g) PROVE SizeInv'
  BY <1>1 DEF AskKeygen, nodeVars
<1>2. ASSUME NEW g \in Signs, AskSign(g) PROVE SizeInv'
  <2>1. \E k \in Keygens : key' = [key EXCEPT ![g] = k]
    BY <1>2, SignEntries
  <2>2. key' \in [Signs -> Requests]
    BY <2>1 DEF Requests
  <2> QED
    BY <1>2, <2>2 DEF AskSign, nodeVars
<1>3. ASSUME NEW g \in Requests, NEW i \in Legs(g), Call(g, i) PROVE SizeInv'
  BY <1>3 DEF Call
<1>4. ASSUME NEW g \in Requests, NEW i \in Legs(g), Receive(g, i) PROVE SizeInv'
  BY <1>4 DEF Receive, nodeVars
<1>5. ASSUME NEW g \in Requests, NEW i \in Legs(g), Timeout(g, i) PROVE SizeInv'
  BY <1>5 DEF Timeout, nodeVars
<1>6. ASSUME NEW g \in Requests, Report(g) PROVE SizeInv'
  BY <1>6 DEF Report, nodeVars
<1>7. ASSUME NEW n \in Nodes, NEW t \in At(n), Handle(t) \/ Break(t) PROVE SizeInv'
  <2>1. t \in Tasks /\ NodeOf(t) = n /\ t[1] \in Requests /\ t[2] \in 1 .. MaxParties
    BY MovingTask
  <2>2. key' = key /\ (Joins(t) \/ Finds(t) \/ GoesOn(t))
    BY <1>7, HandlerMoves
  <2>3. share' \in [Tasks -> 0 .. MaxParties]
    <3>1. entries[t[1]][t[2]] \in Entry
      BY MovingTask DEF ShapeInv, Legs
    <3>2. entries[t[1]][t[2]].index \in 0 .. MaxParties
      BY <3>1 DEF Entry
    <3> QED
      BY <2>1, <2>2, <3>2 DEF Joins, Finds, GoesOn
  <2>4. room' \in [Requests -> Seq(1 .. MaxParties)]
    <3>1. Append(room[t[1]], t[2]) \in Seq(1 .. MaxParties)
      BY <2>1
    <3>2. room' = room \/ room' = [room EXCEPT ![t[1]] = Append(room[t[1]], t[2])]
      BY <2>2 DEF Joins, Finds, GoesOn
    <3>3. room \in [Requests -> Seq(1 .. MaxParties)]
      OBVIOUS
    <3> QED
      BY <2>1, <3>1, <3>2, <3>3
  <2>5. UNCHANGED timeouts /\ available' \in [Nodes -> BOOLEAN]
    <3>1. UNCHANGED timeouts
      BY <1>7 DEF Handle, Get, Checkout, CheckoutTimeout, Store, Find, Join, Compute, Break, gatewayVars
    <3>2. available' = available \/ \E b \in BOOLEAN : available' = [available EXCEPT ![n] = b]
      BY <1>7, <2>1, Zenon DEF Handle, Get, Checkout, CheckoutTimeout, Store, Find, Join, Compute, Break
    <3> QED
      BY <3>1, <3>2
  <2>6. faults' \in 0 .. MaxFaults
    BY <1>7 DEF Handle, Get, Checkout, CheckoutTimeout, Store, Find, Join, Compute, Break
  <2>7. \A m \in Nodes : Cardinality(conns'[m]) <= PoolSize
    <3> SUFFICES ASSUME NEW m \in Nodes PROVE Cardinality(conns'[m]) <= PoolSize
      OBVIOUS
    <3>1. IsFiniteSet(conns[m]) /\ Cardinality(conns[m]) \in Nat /\ Cardinality(conns[m]) <= PoolSize
      BY TasksFinite, FS_Subset, FS_CardinalityType DEF ShapeInv
    <3>2. CASE ~Checkout(t)
      <4>1. conns' = conns \/ conns' = [k \in Nodes |-> conns[k] \ {t}]
        BY <1>7, <3>2 DEF Handle, Get, CheckoutTimeout, Store, Find, Join, Compute, Break, End
      <4>2. conns'[m] \subseteq conns[m]
        BY <4>1
      <4>3. Cardinality(conns'[m]) <= Cardinality(conns[m]) /\ Cardinality(conns'[m]) \in Nat
        BY <3>1, <4>2, FS_Subset, FS_CardinalityType
      <4> QED
        BY <3>1, <4>3
    <3>3. CASE Checkout(t)
      <4>1. conns' = [conns EXCEPT ![n] = @ \cup {t}] /\ Cardinality(conns[n]) < PoolSize
        BY <2>1, <3>3 DEF Checkout, HasFree
      <4>2. CASE m = n
        <5>1. conns'[m] = conns[m] \cup {t}
          BY <4>1, <4>2 DEF ShapeInv
        <5>2. \/ Cardinality(conns[m] \cup {t}) = Cardinality(conns[m])
              \/ Cardinality(conns[m] \cup {t}) = Cardinality(conns[m]) + 1
          BY <3>1, FS_AddElement
        <5>3. Cardinality(conns[m]) < PoolSize /\ PoolSize \in Nat
          BY <4>1, <4>2
        <5>4. Cardinality(conns[m] \cup {t}) <= PoolSize
          BY <3>1, <5>2, <5>3
        <5> QED
          BY <5>1, <5>4
      <4>3. CASE m # n
        BY <3>1, <4>1, <4>3 DEF ShapeInv
      <4> QED
        BY <4>2, <4>3
    <3> QED
      BY <3>2, <3>3
  <2> QED
    BY <2>2, <2>3, <2>4, <2>5, <2>6, <2>7
<1>8. ASSUME NEW n \in Nodes, Acquire(n) \/ ConnectionError(n) PROVE SizeInv'
  <2>1. \E b \in BOOLEAN : available' = [available EXCEPT ![n] = b]
    BY <1>8, Zenon DEF Acquire, ConnectionError
  <2>2. UNCHANGED <<key, share, room, conns, timeouts, faults>>
    BY <1>8 DEF Acquire, ConnectionError, gatewayVars
  <2> QED
    BY <2>1, <2>2
<1>9. ASSUME NEW n \in Nodes, GoDown(n) \/ ComeUp(n) PROVE SizeInv'
  BY <1>9 DEF GoDown, ComeUp, gatewayVars, nodeVars
<1>10. CASE UNCHANGED vars
  BY <1>10 DEF vars, gatewayVars, nodeVars
<1> QED
  BY <1>1, <1>2, <1>3, <1>4, <1>5, <1>6, <1>7, <1>8, <1>9, <1>10 DEF Next, Rest, Answer

(* The types hold, and no pool has more connections out than it has.       *)
THEOREM TypeCorrect == Spec => []TypeOK
<1>1. Init => ShapeInv /\ SizeInv
  BY InitInv, SizeInit
<1>2. (ShapeInv /\ SizeInv) /\ [Next]_vars => (ShapeInv /\ SizeInv)'
  BY ShapeStep, SizeStep
<1>3. ShapeInv /\ SizeInv => TypeOK
  BY DEF ShapeInv, SizeInv, TypeOK
<1> QED
  BY <1>1, <1>2, <1>3, PTL DEF Spec

-----------------------------------------------------------------------------
(* The parties of a signature join its room in the order of their places,  *)
(* when each is called once those before it have joined or never will.     *)

IsIn(g, i) == \E p \in DOMAIN room[g] : room[g][p] = i

(* Party i of request g is not in its room, and will not be. *)
Gone(g, i) ==
    /\ ~IsIn(g, i)
    /\ \/ task[<<g, i>>] \in Ended
       \/ task[<<g, i>>] = "none" /\ leg[<<g, i>>] = "error"

EntryInv == \A g \in Requests : Ascending(entries[g])

(* Where a task can stand that has joined its room. *)
HasJoined(g) ==
    Ended \cup (IF g \in Keygens THEN {"compute", "get", "wait", "use"} ELSE {"compute"})

RoomInv ==
    \A g \in Requests :
        /\ \A p \in DOMAIN room[g] :
             room[g][p] \in Legs(g) /\ task[<<g, room[g][p]>>] \in HasJoined(g)
        /\ \A p, q \in DOMAIN room[g] : room[g][p] = room[g][q] => p = q

ShareInv ==
    \A g \in Signs : \A i \in Legs(g) :
        IsIn(g, i) \/ task[<<g, i>>] = "join" => share[<<g, i>>] = entries[g][i].index

CallOrderInv ==
    \A g \in Requests : \A i \in Legs(g) : task[<<g, i>>] # "none" =>
        \A j \in 1 .. i - 1 : IsIn(g, j) \/ Gone(g, j)

OrderInv ==
    \A g \in Requests : \A p \in DOMAIN room[g] : \A j \in 1 .. room[g][p] - 1 :
        Gone(g, j) \/ \E q \in 1 .. p - 1 : room[g][q] = j

PlaceInv ==
    /\ ShapeInv /\ FreshInv /\ CalledInv /\ SizeInv
    /\ EntryInv /\ RoomInv /\ ShareInv /\ CallOrderInv /\ OrderInv

LEMMA PlaceInit == Init => PlaceInv
<1> SUFFICES ASSUME Init PROVE PlaceInv
  OBVIOUS
<1>1. \A g \in Requests : entries[g] = <<>> /\ room[g] = <<>> /\ Legs(g) = {}
  BY DEF Init, Legs
<1>2. EntryInv /\ RoomInv /\ CallOrderInv /\ OrderInv
  BY <1>1 DEF EntryInv, Ascending, RoomInv, CallOrderInv, OrderInv
<1>3. ShareInv
  BY <1>1 DEF ShareInv, Requests
<1> QED
  BY <1>2, <1>3, InitInv, SizeInit DEF PlaceInv

LEMMA LegTask ==
    ASSUME ShapeInv, NEW g \in Requests, NEW i \in Legs(g)
    PROVE  i \in 1 .. MaxParties /\ i \in Nat /\ i >= 1 /\ <<g, i>> \in Tasks /\ entries[g][i] \in Entry
  BY SizesAssumption DEF ShapeInv, Legs, Tasks

LEMMA RoomType ==
    ASSUME SizeInv, NEW g \in Requests
    PROVE  /\ room[g] \in Seq(1 .. MaxParties)
           /\ \A p \in DOMAIN room[g] : p \in Nat /\ p >= 1 /\ room[g][p] \in 1 .. MaxParties
<1>1. room[g] \in Seq(1 .. MaxParties)
  BY DEF SizeInv
<1>2. DOMAIN room[g] = 1 .. Len(room[g]) /\ Len(room[g]) \in Nat
  BY <1>1
<1>3. \A p \in 1 .. Len(room[g]) : room[g][p] \in 1 .. MaxParties
  <2> DEFINE S == 1 .. MaxParties
             r == room[g]
  <2>1. r \in Seq(S)
    BY <1>1
  <2> HIDE DEF S, r
  <2>2. \A p \in 1 .. Len(r) : r[p] \in S
    BY <2>1
  <2> QED
    BY <2>2 DEF S, r
<1> QED
  BY <1>1, <1>2, <1>3

(* Steps in which nobody joins, and nobody comes back. *)
LEMMA OrderKept ==
    ASSUME PlaceInv, entries' = entries, room' = room,
           \A h \in Requests : \A j \in 1 .. MaxParties : Gone(h, j) => Gone(h, j)',
           \A h \in Requests : \A i \in Legs(h) : task'[<<h, i>>] # "none" =>
               \/ task[<<h, i>>] # "none"
               \/ \A j \in 1 .. i - 1 : IsIn(h, j) \/ Gone(h, j)
    PROVE  CallOrderInv' /\ OrderInv'
<1>1. \A h \in Requests : Legs(h)' = Legs(h) /\ \A j : IsIn(h, j)' = IsIn(h, j)
  BY DEF Legs, IsIn
<1>2. ASSUME NEW h \in Requests, NEW i \in Legs(h), NEW j \in 1 .. i - 1
      PROVE  j \in 1 .. MaxParties
  <2>1. i \in 1 .. MaxParties
    BY LegTask DEF PlaceInv
  <2> QED
    BY <2>1, SizesAssumption
<1>3. CallOrderInv'
  <2> SUFFICES ASSUME NEW h \in Requests, NEW i \in Legs(h), task'[<<h, i>>] # "none",
                      NEW j \in 1 .. i - 1
               PROVE  IsIn(h, j)' \/ Gone(h, j)'
    BY <1>1 DEF CallOrderInv
  <2>1. IsIn(h, j) \/ Gone(h, j)
    BY DEF PlaceInv, CallOrderInv
  <2> QED
    BY <1>1, <1>2, <2>1
<1>4. OrderInv'
  <2> SUFFICES ASSUME NEW h \in Requests, NEW p \in DOMAIN room[h], NEW j \in 1 .. room[h][p] - 1
               PROVE  Gone(h, j)' \/ \E q \in 1 .. p - 1 : room[h][q] = j
    BY DEF OrderInv
  <2>1. Gone(h, j) \/ \E q \in 1 .. p - 1 : room[h][q] = j
    BY DEF PlaceInv, OrderInv
  <2>2. j \in 1 .. MaxParties
    BY RoomType, SizesAssumption DEF PlaceInv
  <2> QED
    BY <2>1, <2>2
<1> QED
  BY <1>3, <1>4

LEMMA AskPlaces ==
    ASSUME PlaceInv, NEW g \in Requests,
           NEW s \in Seq(Entry), Len(s) <= MaxParties, Ascending(s),
           entries[g] = <<>>, entries' = [entries EXCEPT ![g] = s],
           UNCHANGED <<leg, task, share, room>>
    PROVE  EntryInv' /\ RoomInv' /\ ShareInv' /\ CallOrderInv' /\ OrderInv'
<1>1. /\ entries'[g] = s /\ \A h \in Requests \ {g} : entries'[h] = entries[h]
      /\ \A h \in Requests \ {g} : Legs(h)' = Legs(h)
  BY DEF PlaceInv, ShapeInv, Legs
<1>2. Legs(g) = {}
  BY DEF Legs
<1>3. DOMAIN room[g] = {}
  BY <1>2 DEF PlaceInv, RoomInv
<1>4. \A i \in 1 .. MaxParties : task[<<g, i>>] = "none"
  BY DEF PlaceInv, FreshInv
<1>5. \A i \in Legs(g)' : task[<<g, i>>] = "none"
  <2>1. Legs(g)' = 1 .. Len(s)
    BY <1>1 DEF Legs
  <2> QED
    BY <1>4, <2>1, SizesAssumption
<1>6. \A h \in Requests : \A j : IsIn(h, j)' = IsIn(h, j) /\ Gone(h, j)' = Gone(h, j)
  BY DEF IsIn, Gone
<1>7. EntryInv'
  BY <1>1 DEF EntryInv, PlaceInv
<1>8. RoomInv'
  <2>1. ASSUME NEW h \in Requests, NEW p \in DOMAIN room[h]
        PROVE  room[h][p] \in Legs(h)' /\ task[<<h, room[h][p]>>] \in HasJoined(h)
    BY <1>1, <1>3 DEF PlaceInv, RoomInv
  <2>2. \A h \in Requests : \A p, q \in DOMAIN room[h] : room[h][p] = room[h][q] => p = q
    BY DEF PlaceInv, RoomInv
  <2> QED
    BY <2>1, <2>2 DEF RoomInv, HasJoined
<1>9. ShareInv'
  <2> SUFFICES ASSUME NEW h \in Signs, NEW i \in Legs(h)', IsIn(h, i) \/ task[<<h, i>>] = "join"
               PROVE  share[<<h, i>>] = entries'[h][i].index
    BY <1>6 DEF ShareInv, Requests
  <2>1. h # g
    BY <1>3, <1>5 DEF IsIn
  <2>2. h \in Requests \ {g}
    BY <2>1 DEF Requests
  <2> QED
    BY <1>1, <2>2 DEF PlaceInv, ShareInv
<1>10. CallOrderInv'
  <2> SUFFICES ASSUME NEW h \in Requests, NEW i \in Legs(h)', task[<<h, i>>] # "none",
                      NEW j \in 1 .. i - 1
               PROVE  IsIn(h, j) \/ Gone(h, j)
    BY <1>6 DEF CallOrderInv
  <2>1. h \in Requests \ {g}
    BY <1>5
  <2> QED
    BY <1>1, <2>1 DEF PlaceInv, CallOrderInv
<1>11. OrderInv'
  BY <1>6 DEF PlaceInv, OrderInv
<1> QED
  BY <1>7, <1>8, <1>9, <1>10, <1>11

(* A leg is called when those before it are in the room or gone. *)
LEMMA CallPlaces ==
    ASSUME PlaceInv, NEW g \in Requests, NEW i \in Legs(g), CallInTurn(g, i)
    PROVE  EntryInv' /\ RoomInv' /\ ShareInv' /\ CallOrderInv' /\ OrderInv'
<1> USE RequestsAssumption
<1>1. UNCHANGED <<entries, share, room>> /\ leg[<<g, i>>] = "delayed"
  BY DEF CallInTurn, Call
<1>2. /\ <<g, i>> \in Tasks /\ task[<<g, i>>] = "none"
      /\ \A u \in Tasks : u # <<g, i>> => task'[u] = task[u] /\ leg'[u] = leg[u]
      /\ task'[<<g, i>>] = IF g \in Keygens THEN "join" ELSE "get"
  BY LegTask DEF CallInTurn, Call, PlaceInv, ShapeInv, CalledInv
<1>3. ~IsIn(g, i) /\ ~Gone(g, i)
  <2>1. task[<<g, i>>] \notin HasJoined(g)
    BY <1>2 DEF HasJoined, Ended
  <2>2. ~IsIn(g, i)
    BY <2>1 DEF IsIn, PlaceInv, RoomInv
  <2>3. ~Gone(g, i)
    BY <1>1, <1>2 DEF Gone, Ended
  <2> QED
    BY <2>2, <2>3
<1>4. \A h \in Requests : Legs(h)' = Legs(h) /\ \A j : IsIn(h, j)' = IsIn(h, j)
  BY <1>1 DEF Legs, IsIn
<1>5. EntryInv'
  BY <1>1 DEF EntryInv, PlaceInv
<1>6. RoomInv'
  <2>1. ASSUME NEW h \in Requests, NEW p \in DOMAIN room[h]
        PROVE  room[h][p] \in Legs(h) /\ task'[<<h, room[h][p]>>] \in HasJoined(h)
    <3>1. room[h][p] \in Legs(h) /\ task[<<h, room[h][p]>>] \in HasJoined(h)
      BY DEF PlaceInv, RoomInv
    <3>2. <<h, room[h][p]>> \in Tasks
      BY <3>1, LegTask DEF PlaceInv
    <3>3. <<h, room[h][p]>> # <<g, i>>
      BY <1>3 DEF IsIn
    <3> QED
      BY <1>2, <3>1, <3>2, <3>3
  <2>2. \A h \in Requests : \A p, q \in DOMAIN room[h] : room[h][p] = room[h][q] => p = q
    BY DEF PlaceInv, RoomInv
  <2> QED
    BY <1>1, <1>4, <2>1, <2>2 DEF RoomInv, HasJoined
<1>7. ShareInv'
  <2> SUFFICES ASSUME NEW h \in Signs, NEW k \in Legs(h), IsIn(h, k) \/ task'[<<h, k>>] = "join"
               PROVE  share[<<h, k>>] = entries[h][k].index
    BY <1>1, <1>4 DEF ShareInv, Requests
  <2>1. <<h, k>> \in Tasks
    BY LegTask DEF PlaceInv, Requests
  <2>2. IsIn(h, k) \/ task[<<h, k>>] = "join"
    BY <1>2, <2>1
  <2> QED
    BY <2>2 DEF PlaceInv, ShareInv
<1>8. ASSUME NEW j \in 1 .. i - 1 PROVE IsIn(g, j) \/ Gone(g, j)
  <2>1. j \in Legs(g) /\ j < i
    BY LegTask DEF Legs, PlaceInv, ShapeInv
  <2>2. entries[g][j].index < entries[g][i].index
    <3>1. entries[g] \in Seq(Entry) /\ Ascending(entries[g])
      BY DEF PlaceInv, ShapeInv, EntryInv
    <3>2. i \in DOMAIN entries[g] /\ j \in DOMAIN entries[g]
      BY <2>1, <3>1 DEF Legs
    <3> QED
      BY <2>1, <3>1, <3>2 DEF Ascending
  <2> QED
    BY <2>1, <2>2 DEF CallInTurn, InTurn, IsIn, Gone
<1>9. \A h \in Requests : \A j \in 1 .. MaxParties : Gone(h, j) => Gone(h, j)'
  <2> SUFFICES ASSUME NEW h \in Requests, NEW j \in 1 .. MaxParties, Gone(h, j)
               PROVE  Gone(h, j)'
    OBVIOUS
  <2>1. <<h, j>> \in Tasks /\ <<h, j>> # <<g, i>>
    BY <1>3 DEF Tasks
  <2> QED
    BY <1>2, <1>4, <2>1 DEF Gone
<1>10. \A h \in Requests : \A k \in Legs(h) : task'[<<h, k>>] # "none" =>
               \/ task[<<h, k>>] # "none"
               \/ \A j \in 1 .. k - 1 : IsIn(h, j) \/ Gone(h, j)
  <2> SUFFICES ASSUME NEW h \in Requests, NEW k \in Legs(h), task'[<<h, k>>] # "none",
                      task[<<h, k>>] = "none"
               PROVE  \A j \in 1 .. k - 1 : IsIn(h, j) \/ Gone(h, j)
    OBVIOUS
  <2>1. <<h, k>> \in Tasks
    BY LegTask DEF PlaceInv
  <2>2. h = g /\ k = i
    BY <1>2, <2>1
  <2> QED
    BY <1>8, <2>2
<1>11. CallOrderInv' /\ OrderInv'
  BY <1>1, <1>9, <1>10, OrderKept
<1> QED
  BY <1>5, <1>6, <1>7, <1>11

(* What the gateway learns of a leg, and what happens to the nodes. *)
LEMMA LegPlaces ==
    ASSUME PlaceInv, UNCHANGED <<entries, task, share, room>>,
           \A t \in Tasks : leg'[t] = leg[t] \/ task[t] \in Ended \/ leg'[t] = "error"
    PROVE  EntryInv' /\ RoomInv' /\ ShareInv' /\ CallOrderInv' /\ OrderInv'
<1>1. EntryInv' /\ RoomInv'
  BY DEF PlaceInv, EntryInv, RoomInv, Legs, HasJoined
<1>2. ShareInv'
  BY DEF PlaceInv, ShareInv, Legs, IsIn
<1>3. \A h \in Requests : \A j \in 1 .. MaxParties : Gone(h, j) => Gone(h, j)'
  <2> SUFFICES ASSUME NEW h \in Requests, NEW j \in 1 .. MaxParties, Gone(h, j)
               PROVE  Gone(h, j)'
    OBVIOUS
  <2>1. <<h, j>> \in Tasks
    BY DEF Tasks
  <2> QED
    BY <2>1 DEF Gone, IsIn
<1>4. CallOrderInv' /\ OrderInv'
  BY <1>3, OrderKept
<1> QED
  BY <1>1, <1>2, <1>4

(* A handler that does not join. *)
LEMMA HandlerPlaces ==
    ASSUME PlaceInv, NEW n \in Nodes, NEW t \in At(n), Handle(t) \/ Break(t), ~Joins(t)
    PROVE  EntryInv' /\ RoomInv' /\ ShareInv' /\ CallOrderInv' /\ OrderInv'
<1> DEFINE g == t[1]
           i == t[2]
<1> USE RequestsAssumption
<1>1. /\ UNCHANGED <<entries, leg>> /\ \A u \in Tasks : u # t => task'[u] = task[u]
      /\ task[t] \notin Ended \cup {"none"}
      /\ Finds(t) \/ GoesOn(t)
  BY HandlerMoves DEF PlaceInv
<1>2. t = <<g, i>> /\ t \in Tasks /\ g \in Requests /\ i \in Legs(g)
  BY MovingTask
<1> HIDE DEF g, i
<1>3. room' = room
  BY <1>1 DEF Finds, GoesOn
<1>4. \A h \in Requests : Legs(h)' = Legs(h) /\ \A j : IsIn(h, j)' = IsIn(h, j)
  BY <1>1, <1>3 DEF Legs, IsIn
<1>5. EntryInv'
  BY <1>1 DEF EntryInv, PlaceInv
<1>6. ~Gone(g, i) /\ \A h \in Requests : \A j \in 1 .. MaxParties : Gone(h, j) => Gone(h, j)'
  <2>1. ~Gone(g, i)
    BY <1>1, <1>2 DEF Gone
  <2>2. ASSUME NEW h \in Requests, NEW j \in 1 .. MaxParties, Gone(h, j)
        PROVE  Gone(h, j)'
    <3>1. <<h, j>> \in Tasks /\ <<h, j>> # t
      BY <1>2, <2>1, <2>2 DEF Tasks
    <3> QED
      BY <1>1, <1>4, <2>2, <3>1 DEF Gone
  <2> QED
    BY <2>1, <2>2
<1>7. \A h \in Requests : \A k \in Legs(h) : task'[<<h, k>>] # "none" => task[<<h, k>>] # "none"
  BY <1>1, <1>2, LegTask DEF PlaceInv
<1>8. CallOrderInv' /\ OrderInv'
  BY <1>1, <1>3, <1>6, <1>7, OrderKept
<1>9. IsIn(g, i) => task'[t] \in HasJoined(g) /\ GoesOn(t)
  <2> SUFFICES ASSUME IsIn(g, i) PROVE task'[t] \in HasJoined(g) /\ GoesOn(t)
    OBVIOUS
  <2>1. task[t] \in HasJoined(g)
    BY <1>2 DEF IsIn, PlaceInv, RoomInv
  <2>2. ~Finds(t)
    BY <1>2, <2>1 DEF Finds, HasJoined, Ended
  <2>3. task'[t] \in HasJoined(g)
    BY <1>1, <1>2, <2>1, <2>2 DEF GoesOn, HasJoined, Ended
  <2> QED
    BY <1>1, <2>2, <2>3
<1>10. RoomInv'
  <2>1. ASSUME NEW h \in Requests, NEW p \in DOMAIN room[h]
        PROVE  room[h][p] \in Legs(h) /\ task'[<<h, room[h][p]>>] \in HasJoined(h)
    <3>1. room[h][p] \in Legs(h) /\ task[<<h, room[h][p]>>] \in HasJoined(h)
      BY DEF PlaceInv, RoomInv
    <3>2. <<h, room[h][p]>> \in Tasks
      BY <3>1, LegTask DEF PlaceInv
    <3>3. CASE <<h, room[h][p]>> = t
      <4>1. h = g /\ room[h][p] = i
        BY <1>2, <3>3
      <4>2. IsIn(g, i)
        BY <4>1 DEF IsIn
      <4> QED
        BY <1>9, <3>1, <3>3, <4>1, <4>2
    <3>4. CASE <<h, room[h][p]>> # t
      BY <1>1, <3>1, <3>2, <3>4
    <3> QED
      BY <3>3, <3>4
  <2>2. \A h \in Requests : \A p, q \in DOMAIN room[h] : room[h][p] = room[h][q] => p = q
    BY DEF PlaceInv, RoomInv
  <2> QED
    BY <1>3, <1>4, <2>1, <2>2 DEF RoomInv, HasJoined
<1>11. ShareInv'
  <2> SUFFICES ASSUME NEW h \in Signs, NEW k \in Legs(h), IsIn(h, k) \/ task'[<<h, k>>] = "join"
               PROVE  share'[<<h, k>>] = entries[h][k].index
    BY <1>1, <1>4 DEF ShareInv, Requests
  <2>1. <<h, k>> \in Tasks
    BY LegTask DEF PlaceInv, Requests
  <2>2. share \in [Tasks -> 0 .. MaxParties]
    BY DEF PlaceInv, SizeInv
  <2>3. CASE <<h, k>> # t
    <3>1. share'[<<h, k>>] = share[<<h, k>>]
      BY <1>1, <2>1, <2>2, <2>3 DEF Finds, GoesOn
    <3>2. IsIn(h, k) \/ task[<<h, k>>] = "join"
      BY <1>1, <2>1, <2>3
    <3> QED
      BY <3>1, <3>2 DEF PlaceInv, ShareInv
  <2>4. CASE <<h, k>> = t
    <3>1. h = g /\ k = i
      BY <1>2, <2>4
    <3>2. CASE Finds(t)
      BY <1>2, <2>2, <2>4, <3>1, <3>2 DEF Finds
    <3>3. CASE GoesOn(t)
      <4>1. task'[t] # "join"
        BY <3>3 DEF GoesOn, Ended
      <4>2. IsIn(h, k)
        BY <2>4, <4>1
      <4> QED
        BY <3>3, <4>2 DEF GoesOn, PlaceInv, ShareInv
    <3> QED
      BY <1>1, <3>2, <3>3
  <2> QED
    BY <2>3, <2>4
<1> QED
  BY <1>5, <1>8, <1>10, <1>11

(* A party that joins comes after those before it. *)
LEMMA JoinPlaces ==
    ASSUME PlaceInv, NEW n \in Nodes, NEW t \in At(n), Handle(t) \/ Break(t), Joins(t)
    PROVE  EntryInv' /\ RoomInv' /\ ShareInv' /\ CallOrderInv' /\ OrderInv'
<1> DEFINE g == t[1]
           i == t[2]
<1> USE RequestsAssumption
<1>1. UNCHANGED <<entries, leg, share>> /\ \A u \in Tasks : u # t => task'[u] = task[u]
  BY HandlerMoves DEF PlaceInv, Joins
<1>2. t = <<g, i>> /\ t \in Tasks /\ g \in Requests /\ i \in Legs(g)
  BY MovingTask
<1>3. task[t] = "join" /\ task'[t] = "compute"
  BY DEF Joins
<1> DEFINE old == room[g]
           new == Append(old, i)
<1>4. room' = [room EXCEPT ![g] = new]
  BY DEF Joins
<1> HIDE DEF g, i
<1>5. old \in Seq(1 .. MaxParties) /\ room \in [Requests -> Seq(1 .. MaxParties)]
  BY <1>2 DEF PlaceInv, SizeInv
<1>6. room'[g] = new /\ \A h \in Requests \ {g} : room'[h] = room[h]
  BY <1>2, <1>4, <1>5
<1>7. /\ DOMAIN old = 1 .. Len(old) /\ DOMAIN new = 1 .. Len(old) + 1 /\ Len(old) \in Nat
      /\ new[Len(old) + 1] = i /\ \A p \in 1 .. Len(old) : new[p] = old[p]
  <2> DEFINE S == 1 .. MaxParties
  <2>1. old \in Seq(S) /\ i \in S
    BY <1>2, <1>5, LegTask DEF PlaceInv
  <2> HIDE DEF S, old
  <2> QED
    BY <2>1
<1> HIDE DEF old, new
<1>8. \A p \in DOMAIN new : p \in DOMAIN old \/ p = Len(old) + 1
  BY <1>7
<1>9. ~IsIn(g, i)
  <2>1. task[t] \notin HasJoined(g)
    BY <1>3 DEF HasJoined, Ended
  <2> QED
    BY <1>2, <2>1 DEF IsIn, PlaceInv, RoomInv
<1>10. \A h \in Requests : /\ Legs(h)' = Legs(h)
                          /\ \A j : IsIn(h, j)' <=> IsIn(h, j) \/ <<h, j>> = <<g, i>>
  <2>1. ASSUME NEW h \in Requests \ {g}, NEW j PROVE IsIn(h, j)' <=> IsIn(h, j)
    BY <1>6 DEF IsIn
  <2>2. ASSUME NEW j PROVE IsIn(g, j)' <=> IsIn(g, j) \/ j = i
    <3>1. IsIn(g, j) => IsIn(g, j)'
      BY <1>6, <1>7 DEF IsIn, old
    <3>2. j = i => IsIn(g, j)'
      BY <1>6, <1>7 DEF IsIn
    <3>3. IsIn(g, j)' => IsIn(g, j) \/ j = i
      BY <1>6, <1>7, <1>8 DEF IsIn, old
    <3> QED
      BY <3>1, <3>2, <3>3
  <2>3. \A h \in Requests : Legs(h)' = Legs(h)
    BY <1>1 DEF Legs
  <2> QED
    BY <2>1, <2>2, <2>3
<1>11. \A h \in Requests : \A j \in 1 .. MaxParties : Gone(h, j) => Gone(h, j)'
  <2> SUFFICES ASSUME NEW h \in Requests, NEW j \in 1 .. MaxParties, Gone(h, j)
               PROVE  Gone(h, j)'
    OBVIOUS
  <2>1. <<h, j>> \in Tasks
    BY DEF Tasks
  <2>2. <<h, j>> # t
    BY <1>3 DEF Gone, Ended
  <2> QED
    BY <1>1, <1>2, <1>10, <2>1, <2>2 DEF Gone
<1>12. EntryInv'
  BY <1>1 DEF EntryInv, PlaceInv
<1>13. RoomInv'
  <2>1. ASSUME NEW h \in Requests, NEW p \in DOMAIN room'[h]
        PROVE  room'[h][p] \in Legs(h) /\ task'[<<h, room'[h][p]>>] \in HasJoined(h)
    <3>1. CASE room'[h][p] = i /\ h = g
      BY <1>2, <1>3, <3>1 DEF HasJoined
    <3>2. CASE ~(room'[h][p] = i /\ h = g)
      <4>1. p \in DOMAIN room[h] /\ room'[h][p] = room[h][p]
        BY <1>6, <1>7, <1>8, <2>1, <3>2 DEF old
      <4>2. room[h][p] \in Legs(h) /\ task[<<h, room[h][p]>>] \in HasJoined(h)
        BY <4>1 DEF PlaceInv, RoomInv
      <4>3. <<h, room[h][p]>> \in Tasks /\ <<h, room[h][p]>> # t
        BY <1>2, <3>2, <4>1, <4>2, LegTask DEF PlaceInv
      <4> QED
        BY <1>1, <4>1, <4>2, <4>3
    <3> QED
      BY <3>1, <3>2
  <2>2. ASSUME NEW h \in Requests, NEW p \in DOMAIN room'[h], NEW q \in DOMAIN room'[h],
               room'[h][p] = room'[h][q]
        PROVE  p = q
    <3>1. CASE h # g
      BY <1>6, <2>2, <3>1 DEF PlaceInv, RoomInv
    <3>2. CASE h = g
      <4>1. \A k \in 1 .. Len(old) : new[k] # i
        BY <1>7, <1>9 DEF IsIn, old
      <4>2. p \in DOMAIN new /\ q \in DOMAIN new /\ new[p] = new[q]
        BY <1>6, <2>2, <3>2
      <4>3. CASE p \in DOMAIN old /\ q \in DOMAIN old
        <5>1. old[p] = old[q]
          BY <1>7, <4>2, <4>3
        <5> QED
          BY <1>2, <4>3, <5>1 DEF PlaceInv, RoomInv, old
      <4>4. CASE p = Len(old) + 1 \/ q = Len(old) + 1
        BY <1>7, <1>8, <4>1, <4>2, <4>4
      <4> QED
        BY <1>8, <4>2, <4>3, <4>4
    <3> QED
      BY <3>1, <3>2
  <2> QED
    BY <1>10, <2>1, <2>2 DEF RoomInv, HasJoined
<1>14. ShareInv'
  <2> SUFFICES ASSUME NEW h \in Signs, NEW k \in Legs(h), IsIn(h, k)' \/ task'[<<h, k>>] = "join"
               PROVE  share[<<h, k>>] = entries[h][k].index
    BY <1>1, <1>10 DEF ShareInv, Requests
  <2>1. h \in Requests /\ <<h, k>> \in Tasks
    BY LegTask DEF PlaceInv, Requests
  <2>2. IsIn(h, k) \/ task[<<h, k>>] = "join"
    BY <1>1, <1>2, <1>3, <1>10, <2>1
  <2> QED
    BY <2>2 DEF PlaceInv, ShareInv
<1>15. CallOrderInv'
  <2> SUFFICES ASSUME NEW h \in Requests, NEW k \in Legs(h), task'[<<h, k>>] # "none",
                      NEW j \in 1 .. k - 1
               PROVE  IsIn(h, j)' \/ Gone(h, j)'
    BY <1>10 DEF CallOrderInv
  <2>1. <<h, k>> \in Tasks /\ k \in 1 .. MaxParties
    BY LegTask DEF PlaceInv
  <2>2. task[<<h, k>>] # "none"
    BY <1>1, <1>3, <2>1
  <2>3. IsIn(h, j) \/ Gone(h, j)
    BY <2>2 DEF PlaceInv, CallOrderInv
  <2>4. j \in 1 .. MaxParties
    BY <2>1, SizesAssumption
  <2> QED
    BY <1>10, <1>11, <2>3, <2>4
<1>16. OrderInv'
  <2> SUFFICES ASSUME NEW h \in Requests, NEW p \in DOMAIN room'[h], NEW j \in 1 .. room'[h][p] - 1
               PROVE  Gone(h, j)' \/ \E q \in 1 .. p - 1 : room'[h][q] = j
    BY DEF OrderInv
  <2>1. ASSUME p \in DOMAIN room[h], room'[h][p] = room[h][p]
        PROVE  Gone(h, j)' \/ \E q \in 1 .. p - 1 : room'[h][q] = j
    <3>1. Gone(h, j) \/ \E q \in 1 .. p - 1 : room[h][q] = j
      BY <2>1 DEF PlaceInv, OrderInv
    <3>2. j \in 1 .. MaxParties /\ p \in Nat
      BY <2>1, RoomType, SizesAssumption DEF PlaceInv
    <3>3. \A q \in 1 .. p - 1 : room'[h][q] = room[h][q]
      <4>1. CASE h # g
        BY <1>6, <4>1
      <4>2. CASE h = g
        <5>1. p \in 1 .. Len(old)
          BY <1>7, <2>1, <4>2 DEF old
        <5> QED
          BY <1>6, <1>7, <4>2, <5>1 DEF old
      <4> QED
        BY <4>1, <4>2
    <3> QED
      BY <1>11, <3>1, <3>2, <3>3
  <2>2. CASE h # g
    BY <1>6, <2>1, <2>2
  <2>3. CASE h = g /\ p \in DOMAIN old
    BY <1>6, <1>7, <2>1, <2>3 DEF old
  <2>4. CASE h = g /\ p = Len(old) + 1
    <3>1. j \in 1 .. i - 1
      BY <1>6, <1>7, <2>4
    <3>2. IsIn(g, j) \/ Gone(g, j)
      BY <1>2, <1>3, <3>1 DEF PlaceInv, CallOrderInv
    <3>3. j \in 1 .. MaxParties
      BY <1>2, <3>1, LegTask, SizesAssumption DEF PlaceInv
    <3>4. ASSUME IsIn(g, j) PROVE \E q \in 1 .. p - 1 : room'[h][q] = j
      <4>1. PICK q \in DOMAIN old : old[q] = j
        BY <3>4 DEF IsIn, old
      <4> QED
        BY <1>6, <1>7, <2>4, <4>1
    <3> QED
      BY <1>2, <1>11, <2>4, <3>2, <3>3, <3>4
  <2> QED
    BY <1>6, <1>8, <2>2, <2>3, <2>4
<1> QED
  BY <1>12, <1>13, <1>14, <1>15, <1>16

LEMMA PlaceStep ==
    ASSUME PlaceInv, [StaggeredNext]_vars
    PROVE  PlaceInv'
<1> DEFINE Places == EntryInv' /\ RoomInv' /\ ShareInv' /\ CallOrderInv' /\ OrderInv'
<1>1. [Next]_vars
  BY DEF StaggeredNext, Next, CallInTurn
<1>2. ASSUME NEW g \in Keygens, AskKeygen(g) PROVE Places
  BY <1>2, KeygenEntries, AskPlaces DEF PlaceInv, AskKeygen, nodeVars, Requests
<1>3. ASSUME NEW g \in Signs, AskSign(g) PROVE Places
  BY <1>3, SignEntries, AskPlaces DEF PlaceInv, AskSign, nodeVars, Requests
<1>4. ASSUME NEW g \in Requests, NEW i \in Legs(g), CallInTurn(g, i) PROVE Places
  BY <1>4, CallPlaces
<1>5. ASSUME NEW g \in Requests, NEW i \in Legs(g), Receive(g, i) \/ Timeout(g, i) PROVE Places
  <2>1. UNCHANGED <<entries, task, share, room>>
    BY <1>5 DEF Receive, Timeout, nodeVars
  <2>2. \A t \in Tasks : leg'[t] = leg[t] \/ task[t] \in Ended \/ leg'[t] = "error"
    BY <1>5 DEF Receive, Timeout, PlaceInv, ShapeInv
  <2> QED
    BY <2>1, <2>2, LegPlaces
<1>6. ASSUME NEW g \in Requests, Report(g) PROVE Places
  <2>1. UNCHANGED <<entries, leg, task, share, room>>
    BY <1>6 DEF Report, nodeVars
  <2> QED
    BY <2>1, LegPlaces
<1>7. ASSUME NEW n \in Nodes, NEW t \in At(n), Handle(t) \/ Break(t) PROVE Places
  BY <1>7, HandlerPlaces, JoinPlaces
<1>8. ASSUME NEW n \in Nodes, Acquire(n) \/ ConnectionError(n) \/ GoDown(n) \/ ComeUp(n)
      PROVE  Places
  <2>1. UNCHANGED <<entries, leg, task, share, room>>
    BY <1>8 DEF Acquire, ConnectionError, GoDown, ComeUp, gatewayVars, nodeVars
  <2> QED
    BY <2>1, LegPlaces
<1>9. ASSUME UNCHANGED vars PROVE Places
  <2>1. UNCHANGED <<entries, leg, task, share, room>>
    BY <1>9 DEF vars, gatewayVars, nodeVars
  <2> QED
    BY <2>1, LegPlaces
<1>10. Places
  BY <1>2, <1>3, <1>4, <1>5, <1>6, <1>7, <1>8, <1>9 DEF StaggeredNext, Rest, Answer
<1> QED
  BY <1>1, <1>10, ShapeStep, FreshStep, CalledStep, SizeStep DEF PlaceInv

(* When all have joined, each is at its place. *)
LEMMA AssembledInOrder ==
    ASSUME PlaceInv, NEW g \in Requests, Assembled(g)
    PROVE  \A p \in DOMAIN room[g] : room[g][p] = p
<1> DEFINE r == room[g]
           n == Len(entries[g])
<1>1. n \in Nat /\ Legs(g) = 1 .. n /\ Len(r) = n /\ DOMAIN r = 1 .. n
  BY DEF Assembled, Legs, PlaceInv, ShapeInv, SizeInv
<1>2. \A p \in 1 .. n : r[p] \in 1 .. n
  BY <1>1 DEF PlaceInv, RoomInv
<1>3. \A p, q \in 1 .. n : r[p] = r[q] => p = q
  BY <1>1 DEF PlaceInv, RoomInv
<1>4. \A p \in 1 .. n : \A j \in 1 .. r[p] - 1 : Gone(g, j) \/ \E q \in 1 .. p - 1 : r[q] = j
  BY <1>1 DEF PlaceInv, OrderInv
<1>5. \A j \in 1 .. n : (\E p \in 1 .. n : r[p] = j) => ~Gone(g, j)
  BY <1>1 DEF Gone, IsIn
<1> HIDE DEF r, n
<1>6. ASSUME NEW k \in 0 .. n, NEW f \in [1 .. k -> 1 .. k],
             \A p, q \in 1 .. k : f[p] = f[q] => p = q
      PROVE  \A j \in 1 .. k : \E p \in 1 .. k : f[p] = j
  <2>1. f \in Injection(1 .. k, 1 .. k)
    BY <1>6 DEF Injection, IsInjective
  <2>2. IsFiniteSet(1 .. k)
    BY <1>1, FS_Interval
  <2>3. f \in Surjection(1 .. k, 1 .. k)
    <3> DEFINE S == 1 .. k
    <3> HIDE DEF S
    <3>1. f \in Injection(S, S) /\ IsFiniteSet(S)
      BY <2>1, <2>2 DEF S
    <3>2. f \in Surjection(S, S)
      BY <3>1, FS_Injection
    <3> QED
      BY <3>2 DEF S
  <2> QED
    BY <2>3 DEF Surjection
<1>7. \A j \in 1 .. n : ~Gone(g, j)
  <2> DEFINE f == [p \in 1 .. n |-> r[p]]
  <2>1. f \in [1 .. n -> 1 .. n] /\ \A p, q \in 1 .. n : f[p] = f[q] => p = q
    BY <1>2, <1>3
  <2> HIDE DEF f
  <2>3. n \in 0 .. n
    BY <1>1
  <2>2. \A j \in 1 .. n : \E p \in 1 .. n : f[p] = j
    BY <1>6, <2>1, <2>3
  <2> QED
    BY <1>5, <2>2 DEF f
<1>8. \A p \in 1 .. n : \A j \in 1 .. r[p] - 1 : \E q \in 1 .. p - 1 : r[q] = j
  <2> SUFFICES ASSUME NEW p \in 1 .. n, NEW j \in 1 .. r[p] - 1
               PROVE  \E q \in 1 .. p - 1 : r[q] = j
    OBVIOUS
  <2>1. j \in 1 .. n
    BY <1>1, <1>2
  <2> QED
    BY <1>4, <1>7, <2>1
(* No party joined before its turn: it has all those before it ...         *)
<1>9. ASSUME NEW p \in 1 .. n PROVE r[p] <= p
  <2> SUFFICES ASSUME r[p] > p PROVE FALSE
    BY <1>1, <1>2
  <2>1. \A j \in 1 .. p : \E q \in 1 .. p - 1 : r[q] = j
    <3> SUFFICES ASSUME NEW j \in 1 .. p PROVE \E q \in 1 .. p - 1 : r[q] = j
      OBVIOUS
    <3>1. r[p] \in 1 .. n
      BY <1>2
    <3>2. j \in 1 .. r[p] - 1
      BY <1>1, <3>1
    <3> QED
      BY <1>8, <3>2
  <2> DEFINE f == [j \in 1 .. p |-> CHOOSE q \in 1 .. p - 1 : r[q] = j]
             S == 1 .. p
             T == 1 .. p - 1
  <2>2. \A j \in S : f[j] \in T /\ r[f[j]] = j
    BY <2>1
  <2>3. f \in [S -> T]
    BY <2>2
  <2>4. /\ IsFiniteSet(S) /\ Cardinality(S) = p
        /\ IsFiniteSet(T) /\ Cardinality(T) = p - 1
    BY <1>1, FS_Interval
  <2>5. Cardinality(T) < Cardinality(S)
    BY <1>1, <2>4
  <2> HIDE DEF f, S, T
  <2>6. \E x, y \in S : x # y /\ f[x] = f[y]
    BY <2>3, <2>4, <2>5, FS_PigeonHole
  <2> QED
    BY <2>2, <2>6
(* ... and so, none after it.                                              *)
<1>10. ASSUME NEW p \in 1 .. n PROVE r[p] = p
  <2> DEFINE k == p - 1
             f == [q \in 1 .. k |-> r[q]]
  <2>1. k \in 0 .. n /\ \A q \in 1 .. k : q \in 1 .. n /\ q # p
    BY <1>1
  <2>2. \A q \in 1 .. k : r[q] \in 1 .. k
    BY <1>1, <1>2, <1>9, <2>1
  <2>3. f \in [1 .. k -> 1 .. k] /\ \A x, y \in 1 .. k : f[x] = f[y] => x = y
    BY <1>3, <2>1, <2>2
  <2> HIDE DEF f
  <2>4. \A j \in 1 .. k : \E q \in 1 .. k : f[q] = j
    BY <1>6, <2>1, <2>3
  <2>5. r[p] \notin 1 .. k
    BY <1>3, <2>1, <2>4 DEF f
  <2> QED
    BY <1>1, <1>2, <1>9, <2>5
<1> QED
  BY <1>1, <1>10 DEF r

(* The nodes of a signature agree on who is who, however the client named  *)
(* them, whatever fails and whichever legs are given up, if the delay      *)
(* between the legs is long enough.                                        *)
THEOREM PlacesRight == StaggeredSpec => []PlacesAgree
<1>1. PlaceInv => PlacesAgree
  <2> SUFFICES ASSUME PlaceInv, NEW g \in Signs, Assembled(g), NEW p \in DOMAIN room[g]
               PROVE  share[<<g, room[g][p]>>] = entries[g][p].index
    BY RequestsAssumption DEF PlacesAgree, InPlace
  <2>1. room[g][p] = p
    BY AssembledInOrder DEF Requests
  <2>2. p \in Legs(g) /\ IsIn(g, p)
    BY <2>1 DEF PlaceInv, RoomInv, IsIn, Requests
  <2> QED
    BY <2>1, <2>2 DEF PlaceInv, ShareInv
<1>2. PlaceInv /\ [StaggeredNext]_vars => PlaceInv'
  BY PlaceStep
<1> QED
  BY PlaceInit, <1>1, <1>2, PTL DEF StaggeredSpec

=============================================================================
