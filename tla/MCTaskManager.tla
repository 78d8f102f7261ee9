--------------------------- MODULE MCTaskManager ---------------------------
(* Small instances of TaskManager, and its reordering functions on every   *)
(* list of four tasks.                                                     *)
EXTENDS TaskManager, TLC

CONSTANTS a, b, c1, c2

TwoGids == {a, b}
OneGid == {a}
OneClient == {c1}
TwoClients == {c1, c2}
Load(list, S, n) == {[order |-> list, status |-> f, calls |-> n] : f \in [Gids -> S]}
OneWaiting == Load(<<a>>, {"Waiting"}, 1)
OneWaitingTwice == Load(<<a>>, {"Waiting"}, 2)
OneTask == Load(<<a>>, {"Waiting", "Scheduled"}, 3)
TwoTasks == Load(<<a, b>>, {"Waiting"}, 3)

(* One call on two tasks, or two calls at once on one.                     *)
OneOrTwo == Load(<<a, b>>, {"Waiting"}, 1) \cup Load(<<a>>, {"Waiting"}, 2)
Sym == Permutations(TwoClients)

-----------------------------------------------------------------------------
Four == 1..4
Lists == {s \in [Four -> Four] : NoRepeats(s)}

(* Nothing, a step or two, and as far as a word of eight bits goes.        *)
Half == 128
Offsets == {-128, -2, -1, 0, 1, 2, 127}

ExactOnFour ==
    \A s \in Lists :
      /\ \A S \in SUBSET Four, target \in Four, after \in BOOLEAN :
           CanMove(s, S, target) => BlockIsAdjacent(s, S, target, after)
      /\ \A W \in SUBSET Four, pos \in Offsets, how \in Modes :
           \A g \in W : PositionIsTold(s, W, g, pos, how, Half)

(* move_tasks and change_position do what they are for on every list of    *)
(* four tasks, every selection and target, every set of waiting and paused *)
(* tasks and every offset, the extremes of the integer type included; and  *)
(* under every interleaving the list of the queue holds no task twice.     *)
ReorderingIsExact == ExactOnFour /\ NoRepeats(order)
=============================================================================
