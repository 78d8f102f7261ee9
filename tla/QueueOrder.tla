----------------------------- MODULE QueueOrder -----------------------------
(***************************************************************************)
(* The two operations that reorder the task list, as functions of the list *)
(* of gids: TaskManager::move_tasks and TaskManager::change_position.      *)
(***************************************************************************)
EXTENDS Lists

Index(s, x) == CHOOSE i \in 1..Len(s) : s[i] = x

(* The validation of move_tasks.                                           *)
CanMove(s, S, target) ==
    /\ S \cap Elems(s) # {}
    /\ target \in Elems(s) \ S

(* move_tasks: the tasks of S, in list order, go before or after target.   *)
MoveTasks(s, S, target, after) ==
    LET remaining == Without(s, S)
        at == Index(remaining, target) - (IF after THEN 0 ELSE 1)
    IN  SubSeq(remaining, 1, at)
          \o Filter(s, S)
          \o SubSeq(remaining, at + 1, Len(remaining))

(* i64 arithmetic of a release build, for words from -half to half - 1.    *)
Wrap(x, half) == ((x + half) % (2 * half)) - half
NonNegative(x) == IF x < 0 THEN 0 ELSE x

(* Mutant: a negative sum is cast to usize without the floor at 0.         *)
TargetPositionNoFloor(cur, n, pos, how, half) ==
    LET wanted == CASE how = "POS_SET" -> NonNegative(pos)
                    [] how = "POS_CUR" -> (cur + pos) % (2 * half)
                    [] how = "POS_END" -> IF pos >= 0 THEN n - 1
                                          ELSE (n - 1 + pos) % (2 * half)
    IN  IF wanted < n - 1 THEN wanted ELSE n - 1

(* The position change_position is asked for, counted from 0 among the n   *)
(* waiting and paused tasks of which the task is number cur.               *)
TargetPosition(cur, n, pos, how, half) ==
    LET wanted == CASE how = "POS_SET" -> NonNegative(pos)
                    [] how = "POS_CUR" -> NonNegative(Wrap(cur + pos, half))
                    [] how = "POS_END" -> IF pos >= 0 THEN n - 1
                                          ELSE NonNegative(Wrap(n - 1 + pos, half))
    IN  IF wanted < n - 1 THEN wanted ELSE n - 1

(* change_position: g, one of the waiting and paused tasks W, goes before  *)
(* the task that then holds the target position, or to the end.            *)
ChangePosition(s, W, g, target) ==
    LET rest == Without(s, {g})
        queue == Filter(rest, W)
        at == IF target < Len(queue) THEN Index(rest, queue[target + 1]) - 1 ELSE Len(rest)
    IN  IF Index(Filter(s, W), g) = target + 1
          THEN s
          ELSE SubSeq(rest, 1, at) \o <<g>> \o SubSeq(rest, at + 1, Len(rest))

-----------------------------------------------------------------------------
(* What the two promise.  The moved tasks form one block next to the       *)
(* target, in list order; the others keep their order; none is lost or     *)
(* doubled.                                                                *)
BlockIsAdjacent(s, S, target, after) ==
    LET t == MoveTasks(s, S, target, after)
        n == Len(Filter(s, S))
        lo == Index(t, target) + (IF after THEN 1 ELSE -n)
    IN  /\ lo >= 1 /\ lo + n - 1 <= Len(t)
        /\ SubSeq(t, lo, lo + n - 1) = Filter(s, S)
        /\ Without(t, S) = Without(s, S)
        /\ Elems(t) = Elems(s) /\ NoRepeats(t)

(* The task holds the position the caller is told, among the tasks W, and  *)
(* the others, in W or not, keep their order; none is lost or doubled.     *)
TaskIsAt(s, W, g, target) ==
    LET t == ChangePosition(s, W, g, target)
    IN  /\ Filter(t, W)[target + 1] = g
        /\ Without(t, {g}) = Without(s, {g})
        /\ Elems(t) = Elems(s) /\ NoRepeats(t)

(* The task is where the caller is told, whatever the offset.  A relative  *)
(* move goes the way it was asked to, however far, as long as the sum fits *)
(* the word.                                                               *)
Modes == {"POS_SET", "POS_CUR", "POS_END"}
PositionIsTold(s, W, g, pos, how, half) ==
    LET from == Index(Filter(s, W), g) - 1
        at == TargetPosition(from, Len(Filter(s, W)), pos, how, half)
    IN  /\ TaskIsAt(s, W, g, at)
        /\ how = "POS_CUR" /\ Wrap(from + pos, half) = from + pos =>
             /\ pos > 0 => at >= from
             /\ pos < 0 => at <= from
             /\ pos = 0 => ChangePosition(s, W, g, at) = s
=============================================================================
