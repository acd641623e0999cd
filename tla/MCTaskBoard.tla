----------------------------- MODULE MCTaskBoard -----------------------------
(* Small instances of TaskBoard: a clone for each agent, or one clone.     *)
EXTENDS TaskBoard, TLC

CONSTANTS x, y, cx, cy, task1, task2, mark1, mark2
Apart == x :> cx @@ y :> cy
Together == x :> cx @@ y :> cx

\* The agents may be exchanged, each with its clone, the tasks and the stamps.
Agents == {x :> y @@ y :> x @@ cx :> cy @@ cy :> cx, x :> x @@ y :> y @@ cx :> cx @@ cy :> cy}
Exchange == {p @@ q @@ o : p \in Agents, q \in Permutations({task1, task2}), o \in Permutations({mark1, mark2})}
=============================================================================
