----------------------------- MODULE Gg20Gateway -----------------------------
(***************************************************************************)
(* The gateway of GG20 (api/ecdsa/gg_2020/gateway.rs), the handlers of the *)
(* nodes it calls (key.rs), their tables of keys (models/keys.rs) and the  *)
(* pools of connections they reach them through (connection_pool.rs).      *)
(*                                                                         *)
(* A request to the gateway has a leg for each node named in it, and a leg *)
(* that is sent has a task at its node: both are named <<request, place>>. *)
(* What the parties of a computation say to each other is in               *)
(* Gg20Computation; here they join a room, and all finish or wait.         *)
(***************************************************************************)
EXTENDS Integers, Sequences, FiniteSets

CONSTANTS
    Nodes,        \* the nodes
    Keygens,      \* requests for a key ...
    Signs,        \* ... and for a signature
    MaxParties,   \* the most nodes a request names
    PoolSize,     \* the connections of a node
    Workers,      \* the threads of each node that run handlers
    MaxTimeouts,  \* how many legs the gateway may give up
    MaxFaults     \* how many computations break off or databases go down

ASSUME RequestsAssumption == Keygens \cap Signs = {}
ASSUME FinitenessAssumption == IsFiniteSet(Keygens) /\ IsFiniteSet(Signs)
ASSUME SizesAssumption ==
    /\ PoolSize \in Nat \ {0}
    /\ MaxParties \in Nat /\ MaxParties >= 2
    /\ {MaxTimeouts, MaxFaults} \subseteq Nat
ASSUME WorkersAssumption == Workers \in [Nodes -> Nat \ {0}]

VARIABLES
    entries,      \* the parties of each request, in the order of their places
    key,          \* the key a signature is asked for: the request that made it
    leg,          \* what the gateway knows of each leg
    task,         \* where the task of each leg stands
    share,        \* the index of the share the task of a signature has found
    room,         \* the places that joined the room of each request, in order
    conns,        \* the tasks that hold a connection of each node
    available,    \* the availability flag of each node's pool
    keys,         \* the table of each node: the shares of keys, oldest first
    up,           \* whether the database of each node is up
    report,       \* the answer of the gateway to each request
    timeouts,     \* legs given up so far
    faults        \* faults so far

gatewayVars == <<entries, key, leg, report, timeouts>>
nodeVars    == <<task, share, room, conns, available, keys>>
vars        == <<gatewayVars, nodeVars, up, faults>>

Requests == Keygens \cup Signs
Tasks    == Requests \X (1 .. MaxParties)
Legs(g)  == 1 .. Len(entries[g])
NodeOf(t) == entries[t[1]][t[2]].node
At(n)    == {t \in Tasks : t[2] \in Legs(t[1]) /\ NodeOf(t) = n}

Ended == {"done", "starved", "dberror", "failed", "lost"}
Entry == [index : 1 .. MaxParties, node : Nodes]
Share == [key : Keygens, index : 1 .. MaxParties]

Init ==
    /\ entries = [g \in Requests |-> <<>>]
    /\ key = [g \in Signs |-> g]
    /\ leg = [t \in Tasks |-> "delayed"]
    /\ task = [t \in Tasks |-> "none"]
    /\ share = [t \in Tasks |-> 0]
    /\ room = [g \in Requests |-> <<>>]
    /\ conns = [n \in Nodes |-> {}]
    /\ available = [n \in Nodes |-> TRUE]
    /\ keys = [n \in Nodes |-> <<>>]
    /\ up = [n \in Nodes |-> TRUE]
    /\ report = [g \in Requests |-> "none"]
    /\ timeouts = 0
    /\ faults = 0

-----------------------------------------------------------------------------
(* The gateway. *)

(* gen_keys numbers the nodes in the order the client names them, and one  *)
(* may be named twice.                                                     *)
AskKeygen(g) ==
    /\ entries[g] = <<>>
    /\ \E n \in 2 .. MaxParties : \E nodes \in [1 .. n -> Nodes] :
         entries' = [entries EXCEPT
             ![g] = [i \in 1 .. n |-> [index |-> i, node |-> nodes[i]]]]
    /\ UNCHANGED <<key, leg, report, timeouts, nodeVars, up, faults>>

(* Faulty: the parties stay in the order of the client. *)
Unsorted(picked) == {picked}

(* The parties in the order of their indices, which differ; so there is    *)
(* one such order.                                                         *)
ByIndex(picked) ==
    {s \in [DOMAIN picked -> {picked[i] : i \in DOMAIN picked}] :
        \A i, j \in DOMAIN picked : i < j => s[i].index < s[j].index}

(* sign_message: the client names some of the nodes that have the key, as  *)
(* the gateway reported them, in any order.                                *)
AskSign(g) ==
    /\ entries[g] = <<>>
    /\ \E k \in Keygens : \E n \in 2 .. Len(entries[k]) :
       \E pick \in [1 .. n -> Legs(k)] :
         /\ report[k] = "ok"
         /\ \A i, j \in 1 .. n : i # j => pick[i] # pick[j]
         /\ \E s \in ByIndex([i \in 1 .. n |-> entries[k][pick[i]]]) :
              entries' = [entries EXCEPT ![g] = s]
         /\ key' = [key EXCEPT ![g] = k]
    /\ UNCHANGED <<leg, report, timeouts, nodeVars, up, faults>>

(* request_key_gen and request_sign_message, after their delay.            *)
Call(g, i) ==
    LET t == <<g, i>> IN
    /\ i \in Legs(g) /\ leg[t] = "delayed"
    /\ leg' = [leg EXCEPT ![t] = "sent"]
    /\ task' = [task EXCEPT ![t] = IF g \in Keygens THEN "join" ELSE "get"]
    /\ UNCHANGED <<entries, key, report, timeouts, share, room, conns, available, keys, up, faults>>

Receive(g, i) ==
    LET t == <<g, i>> IN
    /\ i \in Legs(g) /\ leg[t] = "sent"
    /\ task[t] \in Ended
    /\ leg' = [leg EXCEPT ![t] = IF task[t] = "done" THEN "ok" ELSE "error"]
    /\ UNCHANGED <<entries, key, report, timeouts, nodeVars, up, faults>>

(* The limit includes the delay.  A node that was called goes on.          *)
Timeout(g, i) ==
    LET t == <<g, i>> IN
    /\ timeouts < MaxTimeouts
    /\ i \in Legs(g) /\ leg[t] \in {"delayed", "sent"}
    /\ leg' = [leg EXCEPT ![t] = "error"]
    /\ timeouts' = timeouts + 1
    /\ UNCHANGED <<entries, key, report, nodeVars, up, faults>>

(* Faulty: an answer of one node is taken for that of all. *)
ReportSome(g) ==
    /\ entries[g] # <<>> /\ report[g] = "none"
    /\ \A i \in Legs(g) : leg[<<g, i>>] \in {"ok", "error"}
    /\ report' = [report EXCEPT
         ![g] = IF \E i \in Legs(g) : leg[<<g, i>>] = "ok" THEN "ok" ELSE "error"]
    /\ UNCHANGED <<entries, key, leg, timeouts, nodeVars, up, faults>>

(* After join_all: any error makes the answer one. *)
Report(g) ==
    /\ entries[g] # <<>> /\ report[g] = "none"
    /\ \A i \in Legs(g) : leg[<<g, i>>] \in {"ok", "error"}
    /\ report' = [report EXCEPT
         ![g] = IF \E i \in Legs(g) : leg[<<g, i>>] = "error" THEN "error" ELSE "ok"]
    /\ UNCHANGED <<entries, key, leg, timeouts, nodeVars, up, faults>>

-----------------------------------------------------------------------------
(* The pool of a node. *)

(* Faulty: one more than there are. *)
HasFreeOneMore(n) == up[n] /\ Cardinality(conns[n]) <= PoolSize

HasFree(n) == up[n] /\ Cardinality(conns[n]) < PoolSize

(* A handler that waits for its connection, or uses it, keeps its thread.  *)
Awake(n) == Cardinality({t \in At(n) : task[t] \in {"wait", "use"}}) < Workers[n]

(* ConnectionPool::get: refused at once while the flag is down. *)
Get(t) ==
    /\ task[t] = "get" /\ Awake(NodeOf(t))
    /\ task' = [task EXCEPT ![t] = IF available[NodeOf(t)] THEN "wait" ELSE "starved"]
    /\ UNCHANGED <<gatewayVars, share, room, conns, available, keys, up, faults>>

Checkout(t) ==
    LET n == NodeOf(t) IN
    /\ task[t] = "wait" /\ HasFree(n)
    /\ task' = [task EXCEPT ![t] = "use"]
    /\ conns' = [conns EXCEPT ![n] = @ \cup {t}]
    /\ available' = [available EXCEPT ![n] = TRUE]
    /\ UNCHANGED <<gatewayVars, share, room, keys, up, faults>>

(* Faulty: a wait without a limit, unless the database is down. *)
CheckoutUntimed(t) ==
    LET n == NodeOf(t) IN
    /\ task[t] = "wait" /\ ~up[n]
    /\ task' = [task EXCEPT ![t] = "starved"]
    /\ available' = [available EXCEPT ![n] = FALSE]
    /\ UNCHANGED <<gatewayVars, share, room, conns, keys, up, faults>>

(* connection_timeout, which no statement lasts for, but a computation may. *)
CheckoutTimeout(t) ==
    LET n == NodeOf(t) IN
    /\ task[t] = "wait" /\ ~HasFree(n)
    /\ ~up[n] \/ \A h \in conns[n] : task[h] # "use"
    /\ task' = [task EXCEPT ![t] = "starved"]
    /\ available' = [available EXCEPT ![n] = FALSE]
    /\ UNCHANGED <<gatewayVars, share, room, conns, keys, up, faults>>

(* The pool opens a connection, in place of an old or a broken one. *)
Acquire(n) ==
    /\ ~available[n] /\ HasFree(n)
    /\ available' = [available EXCEPT ![n] = TRUE]
    /\ UNCHANGED <<gatewayVars, task, share, room, conns, keys, up, faults>>

(* It cannot open one. *)
ConnectionError(n) ==
    /\ available[n] /\ ~up[n]
    /\ available' = [available EXCEPT ![n] = FALSE]
    /\ UNCHANGED <<gatewayVars, task, share, room, conns, keys, up, faults>>

-----------------------------------------------------------------------------
(* The handlers of a node. *)

(* A handler ends, and drops the connection it holds, if any. *)
End(t, outcome) ==
    /\ task' = [task EXCEPT ![t] = outcome]
    /\ conns' = [n \in Nodes |-> conns[n] \ {t}]

(* key_gen_key: create_key, and the answer. *)
Store(t) ==
    LET n == NodeOf(t)
        s == [key |-> t[1], index |-> entries[t[1]][t[2]].index] IN
    /\ t[1] \in Keygens /\ task[t] = "use"
    /\ IF up[n] THEN /\ keys' = [keys EXCEPT ![n] = Append(@, s)]
                     /\ End(t, "done")
                ELSE End(t, "dberror") /\ UNCHANGED keys
    /\ UNCHANGED <<gatewayVars, share, room, available, up, faults>>

(* Faulty: the index is not looked at. *)
FindAny(n, k, i) == {m \in DOMAIN keys[n] : keys[n][m].key = k}

(* find_by_pub_key: where the shares of key k with index i are. *)
Matching(n, k, i) == {m \in DOMAIN keys[n] : keys[n][m] = [key |-> k, index |-> i]}

(* key_sign_message: the oldest share that matches; the connection stays.  *)
Find(t) ==
    LET n     == NodeOf(t)
        found == Matching(n, key[t[1]], entries[t[1]][t[2]].index) IN
    /\ t[1] \in Signs /\ task[t] = "use"
    /\ IF up[n] /\ found # {}
       THEN /\ \E m \in found : /\ \A o \in found : m <= o
                                /\ share' = [share EXCEPT ![t] = keys[n][m].index]
            /\ task' = [task EXCEPT ![t] = "join"]
            /\ UNCHANGED conns
       ELSE End(t, "dberror") /\ UNCHANGED share
    /\ UNCHANGED <<gatewayVars, room, available, keys, up, faults>>

(* join_computation, in the room named by the token of the request. *)
Join(t) ==
    /\ task[t] = "join" /\ Awake(NodeOf(t))
    /\ room' = [room EXCEPT ![t[1]] = Append(@, t[2])]
    /\ task' = [task EXCEPT ![t] = "compute"]
    /\ UNCHANGED <<gatewayVars, share, conns, available, keys, up, faults>>

Assembled(g) ==
    /\ Len(room[g]) = Len(entries[g])
    /\ \A i \in Legs(g) : task[<<g, i>>] # "lost"

(* Every party is where the others take it to be.  In a key generation the *)
(* index issued is the one given; in a signature the share at each place   *)
(* is that of the party named there.                                       *)
InPlace(g) ==
    \A p \in DOMAIN room[g] :
        IF g \in Keygens THEN room[g][p] = p
        ELSE share[<<g, room[g][p]>>] = entries[g][p].index

(* Faulty: the connection is not given back. *)
ComputeKeeps(t) ==
    /\ task[t] = "compute" /\ Awake(NodeOf(t))
    /\ Assembled(t[1]) /\ InPlace(t[1])
    /\ IF t[1] \in Keygens THEN task' = [task EXCEPT ![t] = "get"] /\ UNCHANGED conns
       ELSE task' = [task EXCEPT ![t] = "done"] /\ UNCHANGED conns
    /\ UNCHANGED <<gatewayVars, share, room, available, keys, up, faults>>

(* The computation ends. *)
Compute(t) ==
    /\ task[t] = "compute" /\ Awake(NodeOf(t))
    /\ Assembled(t[1]) /\ InPlace(t[1])
    /\ IF t[1] \in Keygens THEN task' = [task EXCEPT ![t] = "get"] /\ UNCHANGED conns
       ELSE End(t, "done")
    /\ UNCHANGED <<gatewayVars, share, room, available, keys, up, faults>>

(* Where a task stands that has computed. *)
Computed(g) ==
    IF g \in Keygens THEN {"get", "wait", "use", "done", "starved", "dberror"} ELSE {"done"}

(* A computation breaks off, because of its parties or of a fault: before  *)
(* the others had all they need of this one ("lost"), or after.            *)
Break(t) ==
    LET misfit == Assembled(t[1]) /\ ~InPlace(t[1])
        others == {task[<<t[1], i>>] : i \in Legs(t[1]) \ {t[2]}} IN
    /\ task[t] \in {"join", "compute"}
    /\ misfit \/ faults < MaxFaults
    /\ faults' = IF misfit THEN faults ELSE faults + 1
    /\ \/ End(t, "failed")
       \/ others \cap Computed(t[1]) = {} /\ End(t, "lost")
    /\ UNCHANGED <<gatewayVars, share, room, available, keys, up>>

-----------------------------------------------------------------------------
(* Databases that stop and start. *)

GoDown(n) ==
    /\ up[n] /\ faults < MaxFaults
    /\ up' = [up EXCEPT ![n] = FALSE]
    /\ faults' = faults + 1
    /\ UNCHANGED <<gatewayVars, nodeVars>>

ComeUp(n) ==
    /\ ~up[n]
    /\ up' = [up EXCEPT ![n] = TRUE]
    /\ UNCHANGED <<gatewayVars, nodeVars, faults>>

Handle(t) ==
    Get(t) \/ Checkout(t) \/ CheckoutTimeout(t) \/ Store(t) \/ Find(t) \/ Join(t) \/ Compute(t)

Answer(g) == Report(g) \/ \E i \in Legs(g) : Receive(g, i)

Rest ==
    \/ \E g \in Keygens : AskKeygen(g)
    \/ \E g \in Signs : AskSign(g)
    \/ \E g \in Requests : Answer(g) \/ \E i \in Legs(g) : Timeout(g, i)
    \/ \E n \in Nodes : \/ \E t \in At(n) : Handle(t) \/ Break(t)
                        \/ Acquire(n) \/ ConnectionError(n) \/ GoDown(n) \/ ComeUp(n)

Next == Rest \/ \E g \in Requests : \E i \in Legs(g) : Call(g, i)

Spec == Init /\ [][Next]_vars

(* Legs are sent index * request_delay apart.  When that is long enough,   *)
(* the parties before one have joined the room when it is called, or never *)
(* will.                                                                   *)
InTurn(g, i) ==
    \A j \in Legs(g) : entries[g][j].index < entries[g][i].index =>
        \/ \E p \in DOMAIN room[g] : room[g][p] = j
        \/ task[<<g, j>>] \in Ended
        \/ task[<<g, j>>] = "none" /\ leg[<<g, j>>] = "error"

CallInTurn(g, i) == InTurn(g, i) /\ Call(g, i)

StaggeredNext == Rest \/ \E g \in Requests : \E i \in Legs(g) : CallInTurn(g, i)

StaggeredSpec ==
    /\ Init
    /\ [][StaggeredNext]_vars
    /\ \A t \in Tasks : WF_vars(t[2] \in Legs(t[1]) /\ Handle(t))

-----------------------------------------------------------------------------
TypeOK ==
    /\ entries \in [Requests -> Seq(Entry)]
    /\ key \in [Signs -> Requests]
    /\ leg \in [Tasks -> {"delayed", "sent", "ok", "error"}]
    /\ task \in [Tasks -> {"none", "get", "wait", "use", "join", "compute"} \cup Ended]
    /\ share \in [Tasks -> 0 .. MaxParties]
    /\ room \in [Requests -> Seq(1 .. MaxParties)]
    /\ conns \in [Nodes -> SUBSET Tasks]
    /\ \A n \in Nodes : Cardinality(conns[n]) <= PoolSize
    /\ available \in [Nodes -> BOOLEAN]
    /\ keys \in [Nodes -> Seq(Share)]
    /\ up \in [Nodes -> BOOLEAN]
    /\ report \in [Requests -> {"none", "ok", "error"}]
    /\ timeouts \in 0 .. MaxTimeouts
    /\ faults \in 0 .. MaxFaults

(* A key the gateway reports is stored at every node it names, under the   *)
(* index it names there, whichever nodes fail, answer late or lose their   *)
(* database meanwhile.                                                     *)
ReportedIsStored ==
    \A g \in Keygens : report[g] = "ok" =>
        \A i \in Legs(g) : \E m \in DOMAIN keys[NodeOf(<<g, i>>)] :
            keys[NodeOf(<<g, i>>)][m] = [key |-> g, index |-> entries[g][i].index]

(* The nodes of a signature agree on who is who: the party that joined the *)
(* room at a place has the share that `parties` names at that place, in    *)
(* whatever order the client named the nodes, and if one node has several  *)
(* shares of the key.                                                      *)
PlacesAgree == \A g \in Signs : Assembled(g) => InPlace(g)

(* A handler waits for its connection in vain only while more handlers are *)
(* at work at its node than it has connections: whatever way a handler     *)
(* ends, its connection comes back.                                        *)
AtWork(n) ==
    {t \in At(n) : \/ task[t] \in {"wait", "use"}
                  \/ (t[1] \in Signs /\ task[t] \in {"join", "compute"})}

TimeoutOnlyIfBusy ==
    [][\A n \in Nodes : \A t \in At(n) :
          (task[t] = "wait" /\ task'[t] = "starved" /\ faults = 0)
              => Cardinality(AtWork(n)) > PoolSize]_vars

(* Once its nodes are all called, every task of a request finishes, unless *)
(* something fails or some handler is left without a connection.           *)
NodesFinish ==
    \A g \in Requests :
        (entries[g] # <<>> /\ \A i \in Legs(g) : task[<<g, i>>] # "none")
            ~> \/ faults > 0
               \/ \E t \in Tasks : task[t] = "starved"
               \/ \A i \in Legs(g) : task[<<g, i>>] = "done"

(* A computation whose parties are all there goes on, although those that  *)
(* wait for the connections it holds keep the threads it runs on: a thread *)
(* comes back from its wait.  Again and again none is left that could go   *)
(* on and does not.                                                        *)
HoldersGoOn ==
    []<>(\/ faults > 0
         \/ ~\E t \in Tasks : task[t] = "compute" /\ Assembled(t[1]))

(* "we use the r2d2 callbacks to determine if the database is available or *)
(* not": the flag is down only while the database is.                      *)
FlagTellsDatabase == \A n \in Nodes : up[n] => available[n]

=============================================================================
