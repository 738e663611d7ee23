----------------------------- MODULE NodeTaints -----------------------------
(***************************************************************************)
(* The taints and the cordon that the autoscaler puts on node objects: the *)
(* optimistic updates of AddTaints and CleanTaints, taintNodesSync with    *)
(* its parallel workers and the goroutine that measures how long a taint   *)
(* takes to be seen, the clean-up by aborted deletions and after a restart *)
(* of the process, and the soft taints.  Other components change the same  *)
(* node objects, and the lister may show an older object.                  *)
(***************************************************************************)
EXTENDS Integers, FiniteSets

CONSTANTS Nodes, Clusters  \* the deployments: options and budgets of the environment

VARIABLES conf,
          node,      \* the node objects of the API server: present, keys, cordoned
          lister,    \* the objects of the lister, and whether they are still current
          main,      \* what the main loop does
          chosen,    \* the nodes of the running taintNodesSync
          tracker,   \* UpdateLatencyTracker: phase, started, finished
          deleting,  \* the nodes whose deletion is in progress
          calls,     \* the AddTaints and CleanTaints that run, by caller and node
          leaked,    \* history: a call that should have cleaned the node, or tainted it, failed
          others,    \* history: the taints that other components have put on the nodes
          budget     \* crashes, faults, edits and rounds still to come

taintVars == <<conf, node, lister, main, chosen, tracker, deleting, calls, leaked, others, budget>>

Callers == {"main", "worker", "abort"}
NoCall == [pc |-> "none"]
Running(a, n) == calls[a][n].pc \in {"get", "update"}
Idle(a) == \A n \in Nodes : calls[a][n] = NoCall

-----------------------------------------------------------------------------
\* AddTaints and CleanTaints.

\* A call starts from the object its caller holds.
Call(op, key, held) ==
  [pc |-> "update", op |-> op, key |-> key, obj |-> held, refresh |-> FALSE]

\* addTaintsToSpec, and the taints that CleanTaints keeps.  Only the hard
\* taint goes with the cordon.
Changes(call) == (call.key \in call.obj.keys) = (call.op = "clean")
Changed(call) ==
  [present |-> TRUE,
   keys |-> IF call.op = "add" THEN call.obj.keys \cup {call.key} ELSE call.obj.keys \ {call.key},
   cordoned |-> IF conf.cordon /\ call.key = "delete" THEN call.op = "add" ELSE call.obj.cordoned]

\* A write of the object makes every other copy of it out of date.
Outdate(cs, n) ==
  [a \in Callers |-> IF cs[a][n].pc = "none" THEN cs[a]
                     ELSE [cs[a] EXCEPT ![n].obj.current = FALSE]]
Write(n, object) ==
  /\ node' = [node EXCEPT ![n] = object]
  /\ lister' = [lister EXCEPT ![n].current = FALSE]
Copy(object, current) == [keys |-> object.keys, cordoned |-> object.cordoned, current |-> current]

Return(a, n, outcome) == [calls EXCEPT ![a][n] = [@ EXCEPT !.pc = outcome]]
\* The caller will not come back to a node whose call failed.
Leak(n, call) == IF call.key = "delete" THEN leaked \cup {n} ELSE leaked

\* Mutant: a conflict refreshes the version of the object but not its taints.
GetVersionOnly(a, n) ==
  /\ calls[a][n].pc = "get" /\ node[n].present
  /\ calls' = [calls EXCEPT ![a][n].pc = "update", ![a][n].obj.current = TRUE]
  /\ UNCHANGED <<conf, node, lister, main, chosen, tracker, deleting, leaked, others, budget>>

\* The newest version of the node is read.
GetNode(a, n) ==
  /\ calls[a][n].pc = "get" /\ node[n].present
  /\ calls' = [calls EXCEPT ![a][n].pc = "update", ![a][n].obj = Copy(node[n], TRUE)]
  /\ UNCHANGED <<conf, node, lister, main, chosen, tracker, deleting, leaked, others, budget>>

GetFails(a, n) ==
  /\ calls[a][n].pc = "get"
  /\ node[n].present => budget.faults > 0
  /\ calls' = Return(a, n, "error")
  /\ budget' = IF node[n].present THEN [budget EXCEPT !.faults = @ - 1] ELSE budget
  /\ leaked' = Leak(n, calls[a][n])
  /\ UNCHANGED <<conf, node, lister, main, chosen, tracker, deleting, others>>

\* Nothing to change: the latest version is read before the update is skipped.
NothingToDo(a, n) ==
  /\ calls[a][n].pc = "update" /\ ~Changes(calls[a][n])
  /\ calls' = IF calls[a][n].refresh THEN Return(a, n, "ok")
              ELSE [calls EXCEPT ![a][n].pc = "get", ![a][n].refresh = TRUE]
  /\ UNCHANGED <<conf, node, lister, main, chosen, tracker, deleting, leaked, others, budget>>

Update(a, n) ==
  /\ calls[a][n].pc = "update" /\ Changes(calls[a][n])
  /\ node[n].present /\ calls[a][n].obj.current
  /\ Write(n, Changed(calls[a][n]))
  /\ UNCHANGED <<conf, main, chosen, tracker, deleting, others>>
  /\ \/ /\ calls' = Outdate(Return(a, n, "ok"), n)
        /\ UNCHANGED <<leaked, budget>>
     \* the answer is lost
     \/ /\ budget.faults > 0
        /\ calls' = Outdate(Return(a, n, "error"), n)
        /\ leaked' = Leak(n, calls[a][n])
        /\ budget' = [budget EXCEPT !.faults = @ - 1]

\* A conflict is retried on a fresh copy until maxRetryDeadline; a later one
\* and any other error, such as of a node that is gone, is returned.
UpdateFails(a, n) ==
  /\ calls[a][n].pc = "update" /\ Changes(calls[a][n])
  /\ UNCHANGED <<conf, node, lister, main, chosen, tracker, deleting, others>>
  /\ \/ /\ node[n].present /\ ~calls[a][n].obj.current
        /\ calls' = [calls EXCEPT ![a][n].pc = "get", ![a][n].refresh = TRUE]
        /\ UNCHANGED <<leaked, budget>>
     \/ /\ node[n].present => budget.faults > 0
        /\ calls' = Return(a, n, "error")
        /\ budget' = IF node[n].present THEN [budget EXCEPT !.faults = @ - 1] ELSE budget
        /\ leaked' = Leak(n, calls[a][n])

CallStep(a, n) ==
  GetNode(a, n) \/ GetFails(a, n) \/ NothingToDo(a, n) \/ Update(a, n) \/ UpdateFails(a, n)

-----------------------------------------------------------------------------
\* taintNodesSync.

\* The workers taint the nodes they were given, as the lister showed them; the
\* start of every node is sent to the tracker first.
StartTainting(S) ==
  /\ main = "loop" /\ budget.rounds > 0
  /\ chosen' = S
  /\ main' = IF conf.dynamicDelay THEN "announce" ELSE "taint"
  /\ tracker' = IF conf.dynamicDelay THEN [phase |-> "listening", started |-> {}, finished |-> {}] ELSE tracker
  /\ calls' = [calls EXCEPT !["worker"] =
                 [n \in Nodes |-> IF n \in S THEN Call("add", "delete", lister[n]) ELSE NoCall]]
  /\ budget' = [budget EXCEPT !.rounds = @ - 1]
  /\ UNCHANGED <<conf, node, lister, deleting, leaked, others>>

\* StartTimeChan is unbuffered: the send waits for the tracker.
Announce(n) ==
  /\ main = "announce" /\ tracker.phase = "listening"
  /\ n \in chosen \ tracker.started
  /\ tracker' = [tracker EXCEPT !.started = @ \cup {n}]
  /\ main' = IF chosen \subseteq tracker.started \cup {n} THEN "taint" ELSE "announce"
  /\ UNCHANGED <<conf, node, lister, chosen, deleting, calls, leaked, others, budget>>

\* updateFinishTime, while the tracker listens and while it awaits.
Seen == {n \in tracker.started : "delete" \in lister[n].keys}
UpdateFinishTime ==
  /\ tracker.phase \in {"listening", "awaiting"}
  /\ ~(Seen \subseteq tracker.finished)
  /\ tracker' = [tracker EXCEPT !.finished = @ \cup Seen]
  /\ UNCHANGED <<conf, node, lister, main, chosen, deleting, calls, leaked, others, budget>>

Tainted == {n \in chosen : calls["worker"][n].pc = "ok"}

\* Mutant: the taints that were applied stay when another one fails.
LeavesTheTaints ==
  /\ main = "taint" /\ \A n \in chosen : calls["worker"][n].pc \in {"ok", "error"}
  /\ main' = IF Tainted # chosen THEN "loop" ELSE IF conf.dynamicDelay THEN "await" ELSE "tainted"
  /\ tracker' = IF Tainted # chosen /\ conf.dynamicDelay THEN [tracker EXCEPT !.phase = "stopped"] ELSE tracker
  /\ calls' = [calls EXCEPT !["worker"] = [n \in Nodes |-> NoCall]]
  /\ chosen' = IF Tainted # chosen THEN {} ELSE chosen
  /\ UNCHANGED <<conf, node, lister, deleting, leaked, others, budget>>

\* All workers have returned.  If one failed, the taints of the others are
\* cleaned, starting from the objects of before the tainting, and the tracker
\* is stopped.
TaintingDone ==
  /\ main = "taint" /\ \A n \in chosen : calls["worker"][n].pc \in {"ok", "error"}
  /\ main' = IF Tainted # chosen THEN "rollback" ELSE IF conf.dynamicDelay THEN "await" ELSE "tainted"
  /\ chosen' = Tainted
  /\ calls' = [calls EXCEPT !["worker"] = [n \in Nodes |-> NoCall]]
  /\ UNCHANGED <<conf, node, lister, tracker, deleting, leaked, others, budget>>

\* The clean-ups run one after the other.
Rollback(n) ==
  /\ main = "rollback" /\ n \in chosen /\ Idle("main")
  /\ calls' = [calls EXCEPT !["main"][n] = Call("clean", "delete", lister[n])]
  /\ chosen' = chosen \ {n}
  /\ UNCHANGED <<conf, node, lister, main, tracker, deleting, leaked, others, budget>>

RolledBack ==
  /\ main = "rollback" /\ chosen = {} /\ Idle("main")
  /\ main' = "loop"
  /\ tracker' = IF conf.dynamicDelay THEN [tracker EXCEPT !.phase = "stopped"] ELSE tracker
  /\ UNCHANGED <<conf, node, lister, chosen, deleting, calls, leaked, others, budget>>

\* AwaitOrStopChan is unbuffered as well; then the main loop waits for the
\* result, which comes when every taint was seen, or is abandoned.
Await ==
  /\ main = "await" /\ tracker.phase = "listening"
  /\ main' = "result"
  /\ tracker' = [tracker EXCEPT !.phase = "awaiting"]
  /\ UNCHANGED <<conf, node, lister, chosen, deleting, calls, leaked, others, budget>>

\* The latency is sent, or after waitForTaintingTimeoutDuration the channel is
\* closed: taintNodesSync returns in both cases.
Result ==
  /\ main = "result" /\ tracker.phase = "awaiting"
  /\ main' = "tainted"
  /\ tracker' = [tracker EXCEPT !.phase = "ended"]
  /\ UNCHANGED <<conf, node, lister, chosen, deleting, calls, leaked, others, budget>>

TrackerStops ==
  /\ tracker.phase = "stopped"
  /\ tracker' = [tracker EXCEPT !.phase = "ended"]
  /\ UNCHANGED <<conf, node, lister, main, chosen, deleting, calls, leaked, others, budget>>

\* The deletions start and the loop goes on.
StartDeletions ==
  /\ main = "tainted"
  /\ main' = "loop"
  /\ deleting' = deleting \cup chosen
  /\ chosen' = {}
  /\ UNCHANGED <<conf, node, lister, tracker, calls, leaked, others, budget>>

-----------------------------------------------------------------------------
\* The end of a deletion: the node goes, or the deletion is aborted and the
\* taint cleaned before the node counts as free again.
NodeDeleted(n) ==
  /\ n \in deleting /\ calls["abort"][n] = NoCall
  /\ Write(n, [present |-> FALSE, keys |-> {}, cordoned |-> FALSE])
  /\ deleting' = deleting \ {n}
  /\ calls' = Outdate(calls, n)
  /\ leaked' = leaked \ {n}
  /\ others' = [others EXCEPT ![n] = FALSE]
  /\ UNCHANGED <<conf, main, chosen, tracker, budget>>

AbortDeletion(n) ==
  /\ n \in deleting /\ calls["abort"][n] = NoCall
  /\ calls' = [calls EXCEPT !["abort"][n] = Call("clean", "delete", lister[n])]
  /\ UNCHANGED <<conf, node, lister, main, chosen, tracker, deleting, leaked, others, budget>>

EndDeletion(n) ==
  /\ calls["abort"][n].pc \in {"ok", "error"}
  /\ calls' = [calls EXCEPT !["abort"][n] = NoCall]
  /\ deleting' = deleting \ {n}
  /\ UNCHANGED <<conf, node, lister, main, chosen, tracker, leaked, others, budget>>

-----------------------------------------------------------------------------
\* UpdateSoftDeletionTaints, for one node within the budget of calls: a node
\* that the lister shows with the hard taint is left alone.
UpdateSoftTaint(n, op) ==
  /\ main = "loop" /\ Idle("main") /\ conf.softTaints /\ budget.soft > 0
  /\ "delete" \notin lister[n].keys
  /\ ("soft" \in lister[n].keys) = (op = "clean")
  /\ calls' = [calls EXCEPT !["main"][n] = Call(op, "soft", lister[n])]
  /\ budget' = [budget EXCEPT !.soft = @ - 1]
  /\ UNCHANGED <<conf, node, lister, main, chosen, tracker, deleting, leaked, others>>

MainCallReturns(n) ==
  /\ calls["main"][n].pc \in {"ok", "error"}
  /\ calls' = [calls EXCEPT !["main"][n] = NoCall]
  /\ UNCHANGED <<conf, node, lister, main, chosen, tracker, deleting, leaked, others, budget>>

\* The process dies at any time; the lister of the new one starts from the
\* objects of the server.
Crash ==
  /\ budget.crashes > 0
  /\ budget' = [budget EXCEPT !.crashes = @ - 1]
  /\ lister' = [n \in Nodes |-> Copy(node[n], TRUE)]
  /\ main' = "cleanup" /\ chosen' = {n \in Nodes : "delete" \in node[n].keys}
  /\ tracker' = [phase |-> "ended", started |-> {}, finished |-> {}]
  /\ deleting' = {} /\ leaked' = {}
  /\ calls' = [a \in Callers |-> [n \in Nodes |-> NoCall]]
  /\ UNCHANGED <<conf, node, others>>

\* cleanUpIfRequired: every node listed with the taint is cleaned, in the
\* first loop only.
CleanUp(n) ==
  /\ main = "cleanup" /\ n \in chosen /\ Idle("main")
  /\ calls' = [calls EXCEPT !["main"][n] = Call("clean", "delete", lister[n])]
  /\ chosen' = chosen \ {n}
  /\ UNCHANGED <<conf, node, lister, main, tracker, deleting, leaked, others, budget>>

CleanedUp ==
  /\ main = "cleanup" /\ chosen = {} /\ Idle("main")
  /\ main' = "loop"
  /\ UNCHANGED <<conf, node, lister, chosen, tracker, deleting, calls, leaked, others, budget>>

\* The node lister fails: nothing is cleaned up in this life of the process.
CleanUpFails ==
  /\ main = "cleanup" /\ Idle("main") /\ budget.faults > 0
  /\ main' = "loop"
  /\ chosen' = {} /\ leaked' = leaked \cup chosen
  /\ budget' = [budget EXCEPT !.faults = @ - 1]
  /\ UNCHANGED <<conf, node, lister, tracker, deleting, calls, others>>

-----------------------------------------------------------------------------
\* The environment.
Edit(n) ==
  /\ node[n].present /\ budget.edits > 0
  /\ Write(n, [node[n] EXCEPT !.keys = IF others[n] THEN @ \ {"other"} ELSE @ \cup {"other"}])
  /\ others' = [others EXCEPT ![n] = ~@]
  /\ calls' = Outdate(calls, n)
  /\ budget' = [budget EXCEPT !.edits = @ - 1]
  /\ UNCHANGED <<conf, main, chosen, tracker, deleting, leaked>>

Deliver(n) ==
  /\ ~lister[n].current
  /\ lister' = [lister EXCEPT ![n] = Copy(node[n], TRUE)]
  /\ UNCHANGED <<conf, node, main, chosen, tracker, deleting, calls, leaked, others, budget>>

TaintsInit ==
  /\ conf \in Clusters
  /\ node = [n \in Nodes |-> [present |-> TRUE, keys |-> {}, cordoned |-> FALSE]]
  /\ lister = [n \in Nodes |-> Copy(node[n], TRUE)]
  /\ main = "loop" /\ chosen = {}
  /\ tracker = [phase |-> "ended", started |-> {}, finished |-> {}]
  /\ deleting = {} /\ leaked = {}
  /\ calls = [a \in Callers |-> [n \in Nodes |-> NoCall]]
  /\ others = [n \in Nodes |-> FALSE]
  /\ budget = conf.budget

Offered == {n \in Nodes \ deleting : node[n].present}
MainStep ==
  \/ TaintingDone \/ RolledBack \/ Await \/ Result \/ StartDeletions \/ CleanedUp
  \/ \E n \in Nodes : Announce(n) \/ Rollback(n) \/ MainCallReturns(n) \/ CleanUp(n)

TrackerStep == UpdateFinishTime \/ TrackerStops
WorkerStep == \E n \in Nodes : \E a \in Callers : CallStep(a, n)
\* Nothing is left to happen.
Quiet ==
  /\ main = "loop" /\ deleting = {} /\ (\A a \in Callers : Idle(a))
  /\ budget.rounds = 0 \/ (\A n \in Nodes : ~node[n].present)

TaintsNext ==
  \/ MainStep \/ TrackerStep
  \/ Crash \/ CleanUpFails
  \/ Idle("main") /\ \E S \in SUBSET Offered : S # {} /\ StartTainting(S)
  \/ \E n \in Nodes :
       \/ NodeDeleted(n) \/ AbortDeletion(n) \/ EndDeletion(n)
       \/ \E op \in {"add", "clean"} : UpdateSoftTaint(n, op)
       \/ Edit(n) \/ Deliver(n)
  \/ WorkerStep
  \/ Quiet /\ UNCHANGED taintVars

TaintsFairness ==
  /\ WF_taintVars(MainStep)
  /\ WF_taintVars(TrackerStep)
  /\ WF_taintVars(WorkerStep)
TaintsSpec == TaintsInit /\ [][TaintsNext]_taintVars /\ TaintsFairness

-----------------------------------------------------------------------------
\* When taintNodesSync returns without an error, every node it was given
\* carries the taint on the API server, whatever the lister showed of it.
TaintedBeforeDeletion ==
  main = "tainted" => \A n \in chosen : node[n].present => "delete" \in node[n].keys

\* The updates of the autoscaler lose no change that somebody else made to the
\* taints of the node in the meantime.
OthersKept == \A n \in Nodes : others[n] <=> "other" \in node[n].keys

\* Both, of the updates by AddTaints and CleanTaints.
UpdatesTakeEffect == TaintedBeforeDeletion /\ OthersKept

\* Once nothing is under way for a node, neither the hard taint nor the cordon
\* that goes with it is left on it, unless the call that had to take them off
\* failed: neither a failed taintNodesSync, nor an aborted deletion, nor a
\* crash leaves a node unusable.
Marked(n) == "delete" \in node[n].keys \/ node[n].cordoned
NoMarkLeft ==
  main = "loop" =>
    \A n \in Nodes \ (deleting \cup leaked) : Idle("worker") /\ Idle("main") => ~Marked(n)

\* taintNodesSync returns, and the goroutine of the tracker ends with it.
Returned == main = "loop" /\ tracker.phase = "ended"
TaintingReturns == []<>Returned
=============================================================================
