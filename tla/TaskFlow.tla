------------------------------ MODULE TaskFlow ------------------------------
(***************************************************************************)
(* TaskFlow: nodes that work one after the other, in the order of their    *)
(* ids.  A node's tasker is given the node and reports its work done by    *)
(* calling onCompleted, at once or at any later time; the flow then runs   *)
(* the node at the next index.                                             *)
(*                                                                         *)
(* Everything happens on the main thread, but a tasker may call back into  *)
(* the flow while it is being run: stack holds the taskers that have been  *)
(* called and have not returned.  A node is an object, so that addNode may *)
(* put another one under an id that is taken.                              *)
(***************************************************************************)
EXTENDS Integers, FiniteSets, Sequences, SequencesExt

CONSTANTS Nodes,    \* the TaskNode objects
          Id,       \* their ids
          First,    \* the nodes the Builder was given
          Silent,   \* the nodes whose tasker never reports its work done
          None,     \* no node
          MaxCalls  \* bound on the calls of start, revert, continueWork and addNode

ASSUME NodesAssumption ==
    /\ Id \in [Nodes -> Nat]
    /\ First \subseteq Nodes /\ First # {} /\ IsFiniteSet(First)
    /\ \A m, n \in First : Id[m] = Id[n] => m = n
    /\ Silent \subseteq Nodes
    /\ None \notin Nodes \cup Seq(Nodes)
ASSUME CallsAssumption == MaxCalls \in Nat

VARIABLES
    flowNodes, \* the nodes by ascending id, None for null
    recent,    \* recentNode
    disposed,  \* isDisposed; the listener is null then
    callBack,  \* TaskNode.callBack: the index it was given, 0 for null
    stack,     \* the taskers running: node, and whether it has reported already
    tasks,     \* per node, the tasks that still have to report
    told,      \* the node of the last onNodeChanged
    finished,  \* onFlowFinish was called since the last start
    crashed,   \* "no", or the exception that ended the app
    calls,     \* number of calls made by the flow's user
    ran,       \* history: the nodes run since the last start
    stale,     \* history: the nodes with a task out that belongs to the past
    doubled,   \* history: was a node of this run reported done twice?
    shifted,   \* history: was a node added below the recent one?
    replaced,  \* history: was a node replaced by another of its id?
    nested     \* history: was a node run from within a tasker?

flow    == <<flowNodes, recent, disposed, callBack>>
workers == <<stack, tasks>>
heard   == <<told, finished>>
history == <<ran, stale, doubled, shifted, replaced, nested>>
vars    == <<flow, workers, heard, crashed, calls, history>>

TypeOK ==
    /\ flowNodes \in Seq(Nodes) \cup {None}
    /\ recent \in Nodes \cup {None}
    /\ disposed \in BOOLEAN
    /\ callBack \in [Nodes -> Nat]
    /\ stack \in Seq([node : Nodes, done : BOOLEAN])
    /\ tasks \in [Nodes -> Nat]
    /\ told \in Nodes \cup {None}
    /\ finished \in BOOLEAN
    /\ crashed \in {"no", "NullPointer", "OutOfBounds"}
    /\ calls \in 0..MaxCalls
    /\ ran \in Seq(Nodes)
    /\ stale \subseteq Nodes
    /\ doubled \in BOOLEAN
    /\ shifted \in BOOLEAN
    /\ replaced \in BOOLEAN
    /\ nested \in BOOLEAN

\* A SparseArray: one value for a key, the keys ascending.  The index of a value is the
\* number of keys up to its own.
Rank(S, n) == Cardinality({m \in S : Id[m] <= Id[n]})
Sorted(S) == [i \in 1..Cardinality(S) |-> CHOOSE n \in S : Rank(S, n) = i]

Init ==
    /\ flowNodes = Sorted(First)
    /\ recent = None
    /\ disposed = FALSE
    /\ callBack = [n \in Nodes |-> 0]
    /\ stack = <<>>
    /\ tasks = [n \in Nodes |-> 0]
    /\ told = None
    /\ finished = FALSE
    /\ crashed = "no"
    /\ calls = 0
    /\ ran = <<>>
    /\ stale = {}
    /\ doubled = FALSE
    /\ shifted = FALSE
    /\ replaced = FALSE
    /\ nested = FALSE

InFlow(n) == flowNodes # None /\ \E i \in 1..Len(flowNodes) : flowNodes[i] = n

\* indexOfValue, 0 for none.
IndexOf(n) == IF InFlow(n) THEN CHOOSE i \in 1..Len(flowNodes) : flowNodes[i] = n ELSE 0

Call == crashed = "no" /\ calls < MaxCalls /\ calls' = calls + 1
-----------------------------------------------------------------------------
\* doWork of the node at index i, its tasker called on top of those in st.
DoWork(i, cb, st) ==
    /\ recent' = flowNodes[i]
    /\ callBack' = [cb EXCEPT ![flowNodes[i]] = i]
    /\ stack' = Append(st, [node |-> flowNodes[i], done |-> FALSE])
    /\ nested' = (nested \/ st # <<>>)

\* reset: the nodes of the flow forget their callbacks.
Reset == [n \in Nodes |-> IF InFlow(n) THEN 0 ELSE callBack[n]]

\* The nodes that have not reported.
AtWork == {n \in Nodes : tasks[n] > 0 \/ \E i \in 1..Len(stack) : stack[i].node = n}

\* Mutant of StartWithNode: no reset.
StartWithNodeNoReset(i) ==
    /\ DoWork(i, callBack, stack)
    /\ ran' = <<flowNodes[i]>>
    /\ stale' = stale \cup AtWork
    /\ doubled' = FALSE
    /\ shifted' = FALSE
    /\ finished' = FALSE
    /\ UNCHANGED <<flowNodes, disposed, tasks, told, crashed, replaced>>

\* Mutant of StartWithNode: the reset comes last.
StartWithNodeResetsLast(i) ==
    /\ recent' = flowNodes[i]
    /\ callBack' = Reset
    /\ stack' = Append(stack, [node |-> flowNodes[i], done |-> FALSE])
    /\ nested' = (nested \/ stack # <<>>)
    /\ ran' = <<flowNodes[i]>>
    /\ stale' = stale \cup AtWork
    /\ doubled' = FALSE
    /\ shifted' = FALSE
    /\ finished' = FALSE
    /\ UNCHANGED <<flowNodes, disposed, tasks, told, crashed, replaced>>

\* startWithNode.  Tasks of the run before may still report.
StartWithNode(i) ==
    /\ DoWork(i, Reset, stack)
    /\ ran' = <<flowNodes[i]>>
    /\ stale' = stale \cup AtWork
    /\ doubled' = FALSE
    /\ shifted' = FALSE
    /\ finished' = FALSE
    /\ UNCHANGED <<flowNodes, disposed, tasks, told, crashed, replaced>>

\* start, and startWithNode with the id of a node.
Start ==
    /\ Call /\ ~disposed
    /\ \E i \in 1..Len(flowNodes) : StartWithNode(i)

\* revert: runs the node before the recent one; there must be one.
Revert ==
    /\ Call /\ ~disposed /\ recent # None
    /\ \/ IndexOf(recent) > 1 /\ StartWithNode(IndexOf(recent) - 1)
       \/ /\ IndexOf(recent) <= 1
          /\ crashed' = "OutOfBounds"
          /\ UNCHANGED <<flow, workers, heard, history>>

\* addNode: a node of a new id, or in the place of the one that has its id.
AddNode ==
    /\ Call /\ ~disposed
    /\ \E n \in Nodes :
          LET same == {m \in ToSet(flowNodes) : Id[m] = Id[n]}
          IN  /\ ~InFlow(n)
              /\ flowNodes' = Sorted((ToSet(flowNodes) \ same) \cup {n})
              /\ replaced' = (replaced \/ same # {})
              /\ shifted' = (shifted \/ (recent # None /\ Id[n] <= Id[recent]))
    /\ UNCHANGED <<recent, disposed, callBack, workers, heard, crashed, ran, stale, doubled, nested>>

\* Mutant of Dispose: the nodes keep their callbacks.
DisposeKeepsCallbacks ==
    /\ crashed = "no" /\ ~disposed
    /\ disposed' = TRUE
    /\ flowNodes' = None
    /\ recent' = None
    /\ UNCHANGED <<callBack, workers, heard, crashed, calls, history>>

\* Mutant of Dispose: the flow is only marked.
DisposeOnlyMarks ==
    /\ crashed = "no" /\ ~disposed
    /\ disposed' = TRUE
    /\ UNCHANGED <<flowNodes, recent, callBack, workers, heard, crashed, calls, history>>

\* dispose
Dispose ==
    /\ crashed = "no" /\ ~disposed
    /\ callBack' = Reset
    /\ disposed' = TRUE
    /\ flowNodes' = None
    /\ recent' = None
    /\ UNCHANGED <<workers, heard, crashed, calls, history>>
-----------------------------------------------------------------------------
\* Mutant of OnCompleted: recentNode is not moved.
OnCompletedKeepsRecent(n, st) ==
    LET next == callBack[n] + 1
    IN  /\ callBack[n] # 0 /\ flowNodes # None /\ next <= Len(flowNodes)
        /\ callBack' = [callBack EXCEPT ![flowNodes[next]] = next]
        /\ stack' = Append(st, [node |-> flowNodes[next], done |-> FALSE])
        /\ nested' = (nested \/ st # <<>>)
        /\ ran' = Append(ran, flowNodes[next])
        /\ UNCHANGED <<recent, finished, crashed>>

\* Mutant of OnCompleted: the last node is not run.
OnCompletedSkipsLast(n, st) ==
    LET next == callBack[n] + 1
    IN  /\ callBack[n] # 0 /\ flowNodes # None
        /\ \/ /\ next < Len(flowNodes)
              /\ DoWork(next, callBack, st)
              /\ ran' = Append(ran, flowNodes[next])
              /\ UNCHANGED <<finished, crashed>>
           \/ /\ next >= Len(flowNodes)
              /\ finished' = TRUE
              /\ stack' = st
              /\ UNCHANGED <<recent, callBack, crashed, ran, nested>>

\* TaskNode.onCompleted and findAndExecuteNextNodeIfExist; the stack becomes st, or
\* st and the next tasker.
OnCompleted(n, st) ==
    LET next == callBack[n] + 1
    IN  \/ /\ callBack[n] = 0
           /\ stack' = st
           /\ UNCHANGED <<recent, callBack, finished, crashed, ran, nested>>
        \/ /\ callBack[n] # 0 /\ flowNodes = None
           /\ crashed' = "NullPointer"
           /\ stack' = st
           /\ UNCHANGED <<recent, callBack, finished, ran, nested>>
        \/ /\ callBack[n] # 0 /\ flowNodes # None /\ next <= Len(flowNodes)
           /\ DoWork(next, callBack, st)
           /\ ran' = Append(ran, flowNodes[next])
           /\ UNCHANGED <<finished, crashed>>
        \/ /\ callBack[n] # 0 /\ flowNodes # None /\ next > Len(flowNodes)
           /\ finished' = TRUE
           /\ stack' = st
           /\ UNCHANGED <<recent, callBack, crashed, ran, nested>>

\* continueWork: as if the recent node were done; its own report is still to come,
\* unless it was there already.
ContinueWork ==
    /\ Call /\ ~disposed /\ recent # None
    /\ OnCompleted(recent, stack)
    /\ stale' = IF recent \in Silent THEN stale ELSE stale \cup {recent}
    /\ doubled' = (doubled \/ finished)
    /\ UNCHANGED <<flowNodes, disposed, tasks, told, shifted, replaced>>

\* A report of n may be one too many if a task of the past is out.
Reported(n) == doubled' = (doubled \/ (n \in stale /\ n \in ToSet(ran)))

\* A task reports later, for example when its dialog is dismissed.
TaskReports(n) ==
    /\ crashed = "no" /\ stack = <<>> /\ tasks[n] > 0
    /\ tasks' = [tasks EXCEPT ![n] = @ - 1]
    /\ OnCompleted(n, <<>>)
    /\ Reported(n)
    /\ UNCHANGED <<flowNodes, disposed, told, calls, stale, shifted, replaced>>

\* A tasker reports while it is being run.
TaskerReports ==
    /\ crashed = "no" /\ stack # <<>>
    /\ Last(stack).node \notin Silent /\ ~Last(stack).done
    /\ OnCompleted(Last(stack).node, Append(Front(stack), [Last(stack) EXCEPT !.done = TRUE]))
    /\ Reported(Last(stack).node)
    /\ UNCHANGED <<flowNodes, disposed, tasks, told, calls, stale, shifted, replaced>>

\* The tasker returns, and doWork's caller tells the listener.
TaskerReturns ==
    /\ crashed = "no" /\ stack # <<>>
    /\ LET t == Last(stack)
       IN  /\ tasks' = [tasks EXCEPT ![t.node] =
                            IF t.done \/ t.node \in Silent THEN @ ELSE @ + 1]
           /\ told' = IF disposed THEN told ELSE t.node
    /\ stack' = Front(stack)
    /\ UNCHANGED <<flow, finished, crashed, calls, history>>
-----------------------------------------------------------------------------
Reports == TaskerReturns \/ \E n \in Nodes : TaskReports(n)

Next ==
    \/ Start \/ Revert \/ AddNode \/ ContinueWork \/ Dispose
    \/ TaskerReports \/ Reports

\* Taskers return, and what they have started reports at some time.
Fairness == WF_vars(Reports)

Spec == Init /\ [][Next]_vars /\ Fairness
-----------------------------------------------------------------------------
\* The nodes of a run are those of the flow from where it started, each run once and
\* none left out.  Tasks of an earlier run may report at any time without disturbing
\* this one until it comes to their node; from then on a node may be done twice.
\* (Unless a node was added below the one at work, or replaced.)
RunsInOrder ==
    ~doubled /\ ~shifted /\ ~replaced /\ ~disposed /\ ran # <<>> =>
        \E i \in 1..Len(flowNodes) :
            /\ i + Len(ran) - 1 <= Len(flowNodes)
            /\ \A k \in 1..Len(ran) : flowNodes[i + k - 1] = ran[k]

\* Once disposed a flow runs nothing ("no operation can be started any more"), with
\* tasks still out and taskers still on the stack.
DisposedIsQuiet == [][disposed => ran' = ran /\ finished' = finished]_vars

\* A report after dispose is ignored, except one of a node that had been replaced and
\* that reset has therefore missed.
LateReportsAreSafe == crashed = "NullPointer" => replaced

\* Between two events the listener has last been told the node that is recent, unless
\* a node was run from within a tasker: it is then told the two in the wrong order.
ListenerKnowsRecent ==
    stack = <<>> /\ ~nested /\ ~disposed /\ crashed = "no" => told = recent

\* onFlowFinish: "when all nodes are done".  The last node of the flow has been run
\* and none of the run's nodes is still at work, unless one was done twice or was
\* continued without being done.
FinishedWhenAllDone ==
    [][finished' /\ ~finished /\ ~doubled' /\ ~replaced' =>
        /\ Last(ran) = Last(flowNodes)
        /\ \A n \in ToSet(ran) \ stale' : tasks'[n] = 0]_vars

\* A flow that was started comes to its end, or waits for a node whose tasker never
\* reports: no call between two reports, and no tasker that reports at once, makes
\* the flow lose its way.
FlowEnds ==
    recent # None ~> finished \/ disposed \/ crashed # "no" \/ recent \in Silent
=============================================================================
