------------------------------- MODULE MCTasks -------------------------------
(* Tasks on small instances: sessions, frames, users and tasks are symmetric. *)
EXTENDS Tasks, TLC

Symmetry == Permutations(Scopes) \cup Permutations(Ids)
            \cup Permutations(Users) \cup Permutations(TaskIds)
=============================================================================
