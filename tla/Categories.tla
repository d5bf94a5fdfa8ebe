----------------------------- MODULE Categories -----------------------------
(***************************************************************************)
(* The tree of categories (CategoriesService), at most three levels deep,  *)
(* and the totals the public pages show of it (PublicNewsService).  A      *)
(* creation or a move first reads the tree, in several queries taken as    *)
(* one, and then writes one row; there is no transaction.                  *)
(***************************************************************************)
EXTENDS Common

CONSTANTS
    Nodes,       \* the categories there may be
    MaxDepth     \* MAX_CATEGORY_DEPTH

ASSUME CategoriesAssumption ==
    /\ IsFiniteSet(Nodes) /\ MaxDepth \in Nat \ {0}
    /\ Nodes \cap {None, "absent", "deleted"} = {} /\ None \notin {"absent", "deleted"}

VARIABLES
    parent,      \* the parent of each category: None for a root, "absent" before
                 \* the category is created, "deleted" after
    filing,      \* the creations and moves between their checks and their write
    tangled      \* history: a move overlapped another move, or a creation

categoriesVars == <<parent, filing, tangled>>

CategoriesInit == parent = [c \in Nodes |-> "absent"] /\ filing = {} /\ tangled = FALSE

-----------------------------------------------------------------------------
(* Faulty variants, for testing the properties. *)

\* a move asks of the new parent what a creation asks
FitsAlone(d, height) == d < MaxDepth

-----------------------------------------------------------------------------
(* What is read of the tree. *)

Existing == {c \in Nodes : parent[c] \notin {"absent", "deleted"}}
Children(cs) == {c \in Nodes : parent[c] \in cs}

\* depthOf: the length of pathOf, which takes one step more than there are levels.
DepthOf(c) ==
    LET length[steps \in 0..MaxDepth] ==
            [d \in Nodes |-> 1 + (IF parent[d] \in Nodes /\ steps # 0 THEN length[steps - 1][parent[d]]
                                  ELSE 0)]
    IN  length[MaxDepth][c]

\* The levels below a category, as descendantIds and subtreeHeight walk them.
Level(c) ==
    LET level[i \in 0..MaxDepth] == IF i = 0 THEN {c} ELSE Children(level[i - 1])
    IN  level
DescendantIds(c) == UNION {Level(c)[i] : i \in 0..MaxDepth}
SubtreeHeight(c) == Cardinality({i \in 0..MaxDepth : Level(c)[i] # {}})

Fits(d, height) == d + height <= MaxDepth

\* assertParentDepth
MayHold(p) == p # None => p \in Existing /\ DepthOf(p) < MaxDepth

\* assertMove
MayMove(c, p) ==
    p # None => /\ p # c /\ MayHold(p)
                /\ p \notin DescendantIds(c)
                /\ Fits(DepthOf(p), SubtreeHeight(c))

-----------------------------------------------------------------------------
(* The operations. *)

Checks(op, c, p) ==
    /\ Cardinality(filing) < MaxInFlight
    /\ IF op = "create" THEN parent[c] = "absent" /\ MayHold(p)
       ELSE c \in Existing /\ MayMove(c, p)
    /\ filing' = filing \cup {[op |-> op, node |-> c, under |-> p]}
    /\ UNCHANGED <<parent, tangled>>

\* The write throws when the row or the parent is gone.
Writable(q) ==
    /\ IF q.op = "create" THEN parent[q.node] = "absent" ELSE q.node \in Existing
    /\ q.under = None \/ q.under \in Existing

Files(q) ==
    /\ parent' = IF Writable(q) THEN [parent EXCEPT ![q.node] = q.under] ELSE parent
    /\ filing' = filing \ {q}
    /\ tangled' = (tangled \/ \E o \in filing \ {q} : "move" \in {q.op, o.op})

\* remove: the children become roots (onDelete SetNull).
RemoveNode(c) ==
    /\ c \in Existing
    /\ parent' = [d \in Nodes |-> IF d = c THEN "deleted"
                                  ELSE IF parent[d] = c THEN None ELSE parent[d]]
    /\ UNCHANGED <<filing, tangled>>

CategoriesNext ==
    \/ \E op \in {"create", "move"}, c \in Nodes, p \in Nodes \cup {None} : Checks(op, c, p)
    \/ \E q \in filing : Files(q)
    \/ \E c \in Nodes : RemoveNode(c)

CategoriesSpec == CategoriesInit /\ [][CategoriesNext]_categoriesVars

-----------------------------------------------------------------------------
(* The totals, of categories with one published post each. *)

\* listCategories: each post counts for its category and for all that hold it.
Holding(c) ==
    LET up[i \in 0..Cardinality(Nodes)] ==
            IF i = 0 THEN {c} ELSE up[i - 1] \cup {parent[d] : d \in up[i - 1] \cap Existing}
    IN  up[Cardinality(Nodes)] \cap Nodes
HubTotal(c) == Cardinality({d \in Existing : c \in Holding(d)})

\* getCategory: the posts of the category and of those below it
PageTotal(c) == Cardinality(DescendantIds(c))

-----------------------------------------------------------------------------
(* Properties. *)

\* The categories are a forest three levels deep at most, and the hub and the page
\* of a category count the same posts, whatever is created, moved and deleted: only
\* a move that overlaps another one, or a creation, can break it.
ForestStands ==
    ~tangled => \A c \in Existing :
        /\ \E root \in Holding(c) : parent[root] = None
        /\ DepthOf(c) <= MaxDepth
        /\ HubTotal(c) = PageTotal(c)
=============================================================================
