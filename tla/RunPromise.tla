----------------------------- MODULE RunPromise -----------------------------
(***************************************************************************)
(* What the worker promises of the results of ONE execution, as its row    *)
(* shows them: the row is filled as by a single run that nothing           *)
(* interrupts, one whole step of the plan after the other.  A pause, a     *)
(* crash and the resume after it do not show.  What does show: an attempt  *)
(* that fails leaves part of one step, which the next one takes up; an     *)
(* attempt from nothing empties the row; and after a resume a node that    *)
(* only forced exit edges lead to may run or be skipped.                   *)
(***************************************************************************)
EXTENDS Integers, Sequences

VARIABLES wf,            \* any workflow: nodes, edges, brancher, steps
          row,           \* node -> its result: status, output and count
          forced,        \* exit edges of the loops their guard has stopped
          state          \* "open", "completed" or "failed"

vars == <<wf, row, forced, state>>

Blank == [status |-> "none", output |-> "nothing", count |-> 0]

NodesOf(i) == UNION {wf.steps[i].levels[k] : k \in DOMAIN wf.steps[i].levels}
IsLoop(i)  == wf.steps[i].kind = "loop"

(* A node outside loops has one result; a loop stops after max rounds, but *)
(* has at least one.                                                       *)
Rounds(i) == IF IsLoop(i) /\ wf.steps[i].max > 1 THEN wf.steps[i].max ELSE 1

-----------------------------------------------------------------------------
(* An edge is live when its source succeeded and, if that is a condition,  *)
(* selected the handle or none of its handles.                             *)
Live(results, e) ==
    LET r == results[e.from]
    IN  /\ r.status = "succeeded"
        /\ \/ e.from \notin wf.brancher
           \/ e.handle = r.output
           \/ \A d \in wf.edges : d.from = e.from => d.handle # r.output

Forward == wf.edges \ UNION {wf.steps[i].back : i \in DOMAIN wf.steps}
Into(n) == {e \in Forward : e.to = n}

MustRun(n) == Into(n) = {} \/ \E e \in Into(n) : Live(row, e)
MayRun(n)  == MustRun(n) \/ Into(n) \cap forced # {}

(* Whether a step runs is asked of all its nodes; of a loop only of the    *)
(* node it is entered by.                                                  *)
Asked(i) == IF IsLoop(i) THEN wf.steps[i].levels[1] ELSE NodesOf(i)

-----------------------------------------------------------------------------
Init == /\ row = [n \in wf.nodes |-> Blank]
        /\ forced = {}
        /\ state = "open"

(* All nodes of the step have results, be it from attempts that failed.    *)
Settled(i) == \A n \in NodesOf(i) : row[n] # Blank

(* The next step of the plan: all steps before it are settled.             *)
Due(i) == /\ state = "open"
          /\ \A j \in DOMAIN wf.steps : j < i => Settled(j)
          /\ ~Settled(i)

(* How many results the row gains of n.                                    *)
More(n) == row'[n].count - row[n].count

(* The row gains results of step i, of the nodes that have to run.         *)
Gains(i) ==
    /\ DOMAIN row' = wf.nodes
    /\ \A n \in wf.nodes \ NodesOf(i) : row'[n] = row[n]
    /\ \A n \in NodesOf(i) : IF More(n) = 0
                               THEN row'[n] = row[n]
                               ELSE row'[n].status \in {"succeeded", "skipped"}
    /\ \A n \in Asked(i) : More(n) > 0 =>
          IF row'[n].status = "succeeded" THEN MayRun(n) ELSE ~MustRun(n)
    /\ UNCHANGED wf

(* A live back edge asks for another round.                                *)
GoesOn(i) == \E e \in wf.steps[i].back : Live(row', e)

(* A step is settled as a whole, all of it with as many new results.  A    *)
(* loop ran or was skipped as a whole; it ends when it does not go on, or  *)
(* is stopped after its last round, and then its exit edges are forced.    *)
Settle(i) ==
    /\ Due(i)
    /\ Gains(i)
    /\ IsLoop(i) => \A m, n \in NodesOf(i) : row'[m].status = row'[n].status
    /\ \E c \in 1..Rounds(i) :
          /\ \A n \in NodesOf(i) : More(n) = c
          /\ \/ ~GoesOn(i) /\ UNCHANGED forced
             \/ GoesOn(i) /\ c = Rounds(i) /\ forced' = forced \cup wf.steps[i].exit
    /\ UNCHANGED state

(* A node of the step failed in round c: the nodes before it and beside it *)
(* may have a result of that round, all have those of the rounds before.   *)
Fail(i) ==
    /\ Due(i)
    /\ Gains(i)
    /\ \E c \in 1..Rounds(i) : /\ \A n \in NodesOf(i) : More(n) \in {c - 1, c}
                              /\ \E n \in NodesOf(i) : More(n) = c - 1
    /\ state' = "failed"
    /\ UNCHANGED forced

(* The execution fails between two steps, or a step raises.                *)
Stop ==
    /\ state = "open"
    /\ state' = "failed"
    /\ UNCHANGED <<wf, row, forced>>

(* A further attempt goes on from the row of one that ended.               *)
GoOn ==
    /\ state # "open"
    /\ state' = "open"
    /\ UNCHANGED <<wf, row, forced>>

(* An attempt from nothing; it may fail at once.                           *)
StartOver ==
    /\ row' = [n \in wf.nodes |-> Blank]
    /\ forced' = {}
    /\ state' \in {"open", "failed"}
    /\ UNCHANGED wf

Complete ==
    /\ state = "open"
    /\ \A i \in DOMAIN wf.steps : Settled(i)
    /\ state' = "completed"
    /\ UNCHANGED <<wf, row, forced>>

Next == \/ Complete \/ Stop \/ GoOn \/ StartOver
        \/ \E i \in DOMAIN wf.steps : Settle(i) \/ Fail(i)

Spec == Init /\ [][Next]_vars
=============================================================================
