-------------------------- MODULE BaselineCheckout --------------------------
(***************************************************************************)
(* How a diff scan gets at the files of the baseline commit and back       *)
(* (semgrep/git.py, BaselineHandler.baseline_context).  A clean repository *)
(* is reset to the merge base and reset back; for any other one the merge  *)
(* base is checked out in a temporary worktree, and the process moves its  *)
(* working directory there.                                                *)
(***************************************************************************)
VARIABLE tree   \* [head, cwd, tmp, worktree, stuck]: the commit checked out in
                \* the repository, the directory the process is in, whether the
                \* temporary directory exists and is registered as a worktree,
                \* and the command of the clean-up that failed

AtHead == [head |-> "head", cwd |-> "repo", tmp |-> FALSE, worktree |-> FALSE, stuck |-> "none"]

EnterReset ==
    \/ tree' = [tree EXCEPT !.head = "base"]
    \/ UNCHANGED tree                              \* failed: nothing moved

\* `git worktree add --no-checkout` in a new temporary directory: the worktree
\* has no files before `git checkout`.
AddWorktree == tree' = [tree EXCEPT !.tmp = TRUE, !.worktree = TRUE]
AddWorktreeFails == tree' \in {[tree EXCEPT !.tmp = TRUE],
                               [tree EXCEPT !.tmp = TRUE, !.worktree = TRUE]}
ChangeDirectory == tree' = [tree EXCEPT !.cwd = "tmp"]

\* Mutant of LeaveReset: the head is looked up when it is needed.
LeaveResetHere == UNCHANGED tree

LeaveReset == \/ tree' = [tree EXCEPT !.head = "head"]
              \/ tree' = [tree EXCEPT !.stuck = "reset"]

\* Mutant of LeaveWorktree: the directory is not changed back.
LeaveWorktreeThere == tree' = [tree EXCEPT !.tmp = FALSE, !.worktree = FALSE]

\* Back to the directory of the start; a worktree that is listed is removed;
\* a failure of git is only logged; the temporary directory goes last.
LeaveWorktree ==
    \/ tree' = [tree EXCEPT !.cwd = "repo", !.tmp = FALSE, !.worktree = FALSE]
    \/ tree' = [tree EXCEPT !.cwd = "repo", !.tmp = FALSE,
                            !.stuck = IF tree.worktree THEN "worktree" ELSE @]
=============================================================================
