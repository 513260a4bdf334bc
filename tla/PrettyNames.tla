------------------------------ MODULE PrettyNames ------------------------------
(***************************************************************************)
(* The names projects are shown and chosen by: build_pretty_names,         *)
(* shortest_unique_suffixes, build_tree_output, prettify and resolve of    *)
(* tam-worktree/src/pretty.rs.  A name is not put together here but kept   *)
(* as the parts it is put together from: the base name, the end of the     *)
(* parent's path that tells it apart, and the repository of a worktree.    *)
(***************************************************************************)
EXTENDS Naturals, Sequences, SequencesExt, FiniteSets

CONSTANTS
    Paths,     \* what discovery can find: see Path
    BaseNames, \* names of directories and of repositories
    Lower,     \* the place of each name, in lower case, in the order of names
    MaxPaths,  \* bound: directories found
    NoRepo     \* Option::None

VARIABLES
    paths,     \* the directories found, in the order of the walk
    depth,     \* components of the parents looked at so far
    suffixes   \* the end of the parent's path that tells each path apart, or empty

names == <<paths, depth, suffixes>>

-----------------------------------------------------------------------------
(* Base names *)

\* A directory: its parent's components, its name without the prefix of the
\* repository it is a worktree of, and whether the directory has that prefix.  A
\* worktree whose .git names no repository counts as a repository.
Parents == Seq(STRING) \ {<<>>}
Path ==
    [parent : Parents, base : BaseNames, of : BaseNames, prefixed : BOOLEAN]
        \cup [parent : Parents, base : BaseNames, of : {NoRepo}, prefixed : {FALSE}]

ASSUME PrettyAssumption ==
    /\ Paths \subseteq Path
    /\ Lower \in [BaseNames -> Nat]
    /\ MaxPaths \in Nat
    /\ NoRepo \notin BaseNames

Location(p) == <<p.parent, IF p.prefixed THEN p.of ELSE NoRepo, p.base>>

\* name_counts: the paths of the same base name, if there are several.
Colliding(i) ==
    LET same == {j \in DOMAIN paths : paths[j].base = paths[i].base}
    IN IF Cardinality(same) <= 1 THEN {} ELSE same

-----------------------------------------------------------------------------
(* shortest_unique_suffixes *)

Parent(i) == paths[i].parent

\* Mutant of EndOf: only the name of the parent is looked at.
NameOf(s, n) == IF n = 0 THEN <<>> ELSE <<Last(s)>>

\* The last n components, or all if there are fewer.
EndOf(s, n) == IF Len(s) > n THEN SubSeq(s, Len(s) - n + 1, Len(s)) ELSE s

\* One turn of its loop, for all sets of colliding paths at once: they do not
\* share anything.  A suffix, once found, is kept.
Deepen ==
    /\ \E i \in DOMAIN paths : depth < Len(Parent(i))
    /\ depth' = depth + 1
    /\ suffixes' = [i \in DOMAIN paths |->
          IF /\ suffixes[i] = <<>>
             /\ i \in Colliding(i)
             /\ \A j \in Colliding(i) \ {i} :
                   EndOf(Parent(j), depth') # EndOf(Parent(i), depth')
          THEN EndOf(Parent(i), depth') ELSE suffixes[i]]
    /\ UNCHANGED paths

\* All components have been looked at; the code stops before when every suffix is
\* found, after which nothing would change.
Done == \A i \in DOMAIN paths : depth >= Len(Parent(i))

\* The directories of a walk are different.
NamesInit ==
    /\ paths \in {s \in BoundedSeq(Paths, MaxPaths) :
                    \A i, j \in DOMAIN s : Location(s[i]) = Location(s[j]) => i = j}
    /\ depth = 0
    /\ suffixes = [i \in DOMAIN paths |-> <<>>]

NamesNext == Deepen

NamesSpec == NamesInit /\ [][NamesNext]_names

-----------------------------------------------------------------------------
(* The names, and the tree they are listed in *)

\* display_name: a suffix is shown when names collide, also an empty one.
DisplayName(i) ==
    [base |-> paths[i].base, of |-> paths[i].of,
     suffix |-> IF Colliding(i) = {} THEN NoRepo ELSE suffixes[i]]

\* resolve finds the path when one entry has the name.
Resolved(name) == {i \in DOMAIN paths : DisplayName(i) = name}

IsWorktree(i) == paths[i].of # NoRepo

\* The repository's name: that of the repository a worktree is of.
Group(i) == IF IsWorktree(i) THEN paths[i].of ELSE paths[i].base

\* The sort key: the repository's name, a repository before its worktrees, then the
\* worktree's own name; equal ones stay in the order of the walk.
SortKey(i) ==
    LET p == paths[i]
    IN IF IsWorktree(i) THEN <<Lower[p.of], 1, Lower[p.base], i>>
                        ELSE <<Lower[p.base], 0, 0, i>>

Before(i, j) ==
    \E k \in 1..4 : /\ \A l \in 1..k - 1 : SortKey(i)[l] = SortKey(j)[l]
                    /\ SortKey(i)[k] < SortKey(j)[k]

\* build_tree_output: the worktrees shown under a repository are those of its name
\* that follow it with nothing else between.
Family(r) ==
    {w \in DOMAIN paths :
        /\ paths[w].of = paths[r].base
        /\ Before(r, w)
        /\ \A v \in DOMAIN paths :
              Before(r, v) /\ Before(v, w) => paths[v].of = paths[r].base}

-----------------------------------------------------------------------------
(* Properties *)

\* Each directory found has its suffix, which is components of a path.
NamesTypeOK ==
    /\ paths \in Seq(Paths) /\ Len(paths) <= MaxPaths
    /\ depth \in Nat
    /\ suffixes \in [DOMAIN paths -> Seq(STRING)]

\* Those that have the name of i beside it, once prefixes are stripped: a repository
\* feat and a worktree app--feat.
Beside(i) ==
    {j \in DOMAIN paths \ {i} : Parent(j) = Parent(i) /\ paths[j].base = paths[i].base}

\* What is shown for a directory leads back to it: resolve finds this one entry.
\* The exception are directories with one of their name beside them, which no
\* suffix of the parent's path can tell apart.
NamesIdentify ==
    Done => \A i \in DOMAIN paths :
               Beside(i) = {} => Resolved(DisplayName(i)) = {i}

\* A worktree is listed under its repository, if that is in the list and no name
\* in it differs from the repository's only in case.
FamiliesTogether ==
    \A r, w \in DOMAIN paths :
        /\ ~IsWorktree(r) /\ paths[w].of = paths[r].base
        /\ \A v \in DOMAIN paths :
              Lower[Group(v)] = Lower[paths[r].base] => Group(v) = paths[r].base
        => \E s \in DOMAIN paths : ~IsWorktree(s) /\ w \in Family(s)

\* The two together: what the pretty names are for.
NamesLeadBack == NamesIdentify /\ FamiliesTogether
===============================================================================
