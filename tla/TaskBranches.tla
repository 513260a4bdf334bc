------------------------------ MODULE TaskBranches -----------------------------
(***************************************************************************)
(* The git branches of the worktrees: what worktree::create makes and what *)
(* worktree::delete does after it has removed the directory.  The commands *)
(* are those of TaskFlows; this module follows the branches beside them.   *)
(* A branch here has no commit of its own, so that git branch -d, asked to *)
(* delete it, does.                                                        *)
(***************************************************************************)
EXTENDS TaskFlows

VARIABLES
    branches,  \* names that have a local branch
    flagged    \* command lines whose drop was given -b

branchVars == <<branches, flagged>>

BranchInit == Init /\ branches = {} /\ flagged = {}

-----------------------------------------------------------------------------
(* The steps that are about branches *)

\* git worktree add checks out the branch of the name, there already or new.
AddBranch(p) ==
    /\ AddWorktree(p)
    /\ branches' = IF worktrees' # worktrees THEN branches \cup {cmd[p].name} ELSE branches
    /\ UNCHANGED flagged

\* `tam drop NAME`, with -b or without.
BeginDropWith(p, n) ==
    /\ BeginDrop(p, n)
    /\ flagged' \in {flagged \cup {p}, flagged \ {p}}
    /\ UNCHANGED branches

\* git runs in a directory that exists; a git that cannot be run finds no branch.
LocalBranchExists(d, n) == Exists(d) /\ n \in branches

\* A branch that is checked out is not deleted, which is only a warning.
CheckedOut(n) == n \in worktrees

\* delete asks git, in the directory of the task, whether there is a branch.  The
\* terminal interface gives no -b, and then asks the user.
DeleteBranch(p) ==
    /\ CleanBranch(p)
    /\ LET n == cmd[p].name
       IN branches' = IF p \in flagged /\ LocalBranchExists(cmd[p].dir, n) /\ ~CheckedOut(n)
                      THEN branches \ {n} ELSE branches
    /\ UNCHANGED flagged

BranchStep(p) ==
    AddBranch(p) \/ DeleteBranch(p) \/ \E n \in Names : BeginDropWith(p, n)

\* Everything else the commands do leaves the branches alone.
OtherStep(p) ==
    /\ Process(p)
    /\ ~(AddWorktree(p) \/ CleanBranch(p) \/ \E n \in Names : BeginDrop(p, n))
    /\ UNCHANGED branchVars

BranchNext ==
    \/ \E p \in Procs : BranchStep(p) \/ OtherStep(p)
    \/ \E n \in Names : (AgentExits(n) \/ RemovedByHand(n)) /\ UNCHANGED branchVars

BranchSpec == BranchInit /\ [][BranchNext]_<<vars, branchVars>>

-----------------------------------------------------------------------------
(* The property *)

\* README.md:100 "tam drop NAME -b               Also delete the git branch": a
\* `tam drop -b` that has deleted the worktree deletes its branch next.
BranchIsDropped ==
    [][\A p \in Clis : DeleteBranch(p) /\ p \in flagged /\ cmd[p].name \notin raced
          => cmd[p].name \notin branches']_<<vars, branchVars>>
===============================================================================
