--------------------------- MODULE ProcessesPanel ---------------------------
(* App::ProcessesPanel (src/src/App/Panels/ProcessesPanel.cpp): the process   *)
(* table as a filtered, sorted list or as a tree. The tree is built by a      *)
(* refresh and when it is switched on, holds positions in the snapshots, and  *)
(* is drawn from them frame by frame. When a refresh is due, and the          *)
(* selection, are in ProcessDetails; columns in Application.                  *)
EXTENDS Integers, Sequences, FiniteSets, SequencesExt

CONSTANTS
    Rows,           \* snapshots: records of pid, start, parent, name, cpu, engines
    NoParent,       \* a parentPid of zero
    Terms,          \* what may be typed into the filter; names and terms are sequences of letters
    Lower(_),       \* lowerAscii, on letters
    SortColumns,    \* of ProcessColumn: "PID", "CpuPercent", "GpuEngine"
    MaxTreeDepth    \* MAX_TREE_DEPTH

ASSUME RowsAssumption ==
    /\ IsFiniteSet(Rows) /\ MaxTreeDepth \in Nat
    /\ \A r \in Rows : r.pid \in Int /\ r.cpu \in Int /\ r.engines \in Seq(Int)

VARIABLES
    snapshots,          \* m_ProcessModel->snapshots(), in the order of the enumeration
    m_CachedTree,       \* by uniqueKey of a parent, the positions of its children
    m_TreeViewEnabled,
    m_CollapsedKeys,
    m_SearchBuffer,
    sort                \* ImGui's first sort specification: column and direction

panelVars == <<snapshots, m_CachedTree, m_TreeViewEnabled, m_CollapsedKeys, m_SearchBuffer, sort>>

Key(row) == <<row.pid, row.start>>   \* uniqueKey
NoTree == [k \in {} |-> <<>>]

(* What a probe may return: no pid twice, in the order of pids. *)
Enumerations ==
    {rows \in UNION {SetToSeqs(S) : S \in SUBSET Rows} : \A i, j \in DOMAIN rows : i < j => rows[i].pid < rows[j].pid}

PanelInit ==
    /\ snapshots \in Enumerations
    /\ m_CachedTree = NoTree
    /\ m_TreeViewEnabled = FALSE
    /\ m_CollapsedKeys = {}
    /\ m_SearchBuffer = <<>>
    /\ sort = [column |-> "CpuPercent", ascending |-> FALSE]
-----------------------------------------------------------------------------
(* What a loop over positions keeps, in their order. *)
Kept(positions, S) == FoldLeft(LAMBDA kept, i : IF i \in S THEN Append(kept, i) ELSE kept, <<>>, positions)
Positions(rows) == [i \in DOMAIN rows |-> i]

(* The filter: positions of the snapshots whose name contains the term, *)
(* letters taken as lower case.                                         *)
NameContains(name, term) ==
    \E j \in 0..(Len(name) - Len(term)) :
        \A k \in DOMAIN term : Lower(name[j + k]) = Lower(term[k])

FilteredIndices ==
    Kept(Positions(snapshots),
         {i \in DOMAIN snapshots : m_SearchBuffer = <<>> \/ NameContains(snapshots[i].name, m_SearchBuffer)})
FilteredSet == ToSet(FilteredIndices)

(* compare in renderContent: both directions leave equal values unordered. *)
Compare(ascending, less, equal) == IF ascending THEN less ELSE ~less /\ ~equal

(* Engines are compared by their number, then by the first one. *)
Less(a, b) ==
    LET By(x, y) == Compare(sort.ascending, x < y, x = y)
    IN  CASE sort.column = "PID" -> By(a.pid, b.pid)
          [] sort.column = "CpuPercent" -> By(a.cpu, b.cpu)
          [] OTHER ->
                IF Len(a.engines) # Len(b.engines) THEN By(Len(a.engines), Len(b.engines))
                ELSE a.engines # <<>> /\ By(a.engines[1], b.engines[1])

(* What std::ranges::sort may make of the filtered positions. *)
ListOrders ==
    {order \in SetToSeqs(FilteredSet) :
        \A i, j \in DOMAIN order : i < j => ~Less(snapshots[order[j]], snapshots[order[i]])}
-----------------------------------------------------------------------------
(* buildProcessTree: the position of each process under the key of the one *)
(* that has its parent's pid, if there is one.                             *)
BuildProcessTree(rows) ==
    LET Children(r) == Kept(Positions(rows), {i \in DOMAIN rows : rows[i].parent # NoParent /\ rows[i].parent = r.pid})
        parents == {r \in ToSet(rows) : Children(r) # <<>>}
    IN  [k \in {Key(r) : r \in parents} |-> Children(CHOOSE r \in parents : Key(r) = k)]

FilteredChildren(i) ==
    IF Key(snapshots[i]) \in DOMAIN m_CachedTree
    THEN Kept(m_CachedTree[Key(snapshots[i])], FilteredSet) ELSE <<>>

(* A parent that is hidden by the filter leaves its children as roots. *)
IsRoot(i) ==
    ~\E p \in FilteredSet : snapshots[i].parent # NoParent /\ snapshots[p].pid = snapshots[i].parent

Roots == Kept(FilteredIndices, {i \in FilteredSet : IsRoot(i)})

(* renderProcessTreeNode, one round of its loop: the top of the stack of      *)
(* positions and depths is drawn, and what is below it, if it is expanded,    *)
(* comes next.                                                                *)
DrawTreeNode(walk) ==
    LET node == walk.stack[1]
        children == FilteredChildren(node.index)
        expanded == Key(snapshots[node.index]) \notin m_CollapsedKeys
        below == [c \in DOMAIN children |-> [index |-> children[c], depth |-> node.depth + 1]]
    IN  IF walk.stack = <<>> THEN walk
        ELSE IF node.depth >= MaxTreeDepth THEN [walk EXCEPT !.stack = Tail(@)]
        ELSE [stack |-> (IF expanded THEN below ELSE <<>>) \o Tail(walk.stack),
              rows |-> Append(walk.rows, [index |-> node.index, depth |-> node.depth,
                                          hasChildren |-> children # <<>>])]

(* renderTreeView: the roots in the order of the list, each with what is below *)
(* before the next one: the first is on top of the stack, the others wait.     *)
TreeWalk(rounds) ==
    LET Walk[n \in Nat] ==
            IF n = 0 THEN [stack |-> [r \in DOMAIN Roots |-> [index |-> Roots[r], depth |-> 0]], rows |-> <<>>]
            ELSE DrawTreeNode(Walk[n - 1])
    IN  Walk[rounds]

(* A round for each process is enough, as TreeComplete says. *)
TreeDrawn == TreeWalk(Len(snapshots))
TreeRows == TreeDrawn.rows
-----------------------------------------------------------------------------
(* The refresh of onUpdate without the tree, or with the tree as it was. *)
TreeAsItWas(rows) == m_CachedTree

(* onUpdate rebuilds the tree of what was just read, if it is in use. *)
TreeAfterRefresh(rows) == IF m_TreeViewEnabled THEN BuildProcessTree(rows) ELSE m_CachedTree

(* onUpdate when a refresh is due. *)
Refresh ==
    /\ snapshots' \in Enumerations
    /\ m_CachedTree' = TreeAfterRefresh(snapshots')
    /\ UNCHANGED <<m_TreeViewEnabled, m_CollapsedKeys, m_SearchBuffer, sort>>

(* renderContent with one thing done by the user: the filter typed or cleared, *)
ChangeFilter ==
    /\ m_SearchBuffer' \in Terms \cup {<<>>}
    /\ UNCHANGED <<snapshots, m_CachedTree, m_TreeViewEnabled, m_CollapsedKeys, sort>>

(* the view switched; the tree is built at once, *)
ToggleView ==
    /\ m_TreeViewEnabled' = ~m_TreeViewEnabled
    /\ m_CachedTree' = IF m_TreeViewEnabled' THEN BuildProcessTree(snapshots) ELSE m_CachedTree
    /\ UNCHANGED <<snapshots, m_CollapsedKeys, m_SearchBuffer, sort>>

(* a column clicked to sort by, which the tree ignores, *)
ChangeSort ==
    /\ sort' \in [column : SortColumns, ascending : BOOLEAN]
    /\ UNCHANGED <<snapshots, m_CachedTree, m_TreeViewEnabled, m_CollapsedKeys, m_SearchBuffer>>

(* or the + or - of a row that has children clicked. *)
ToggleRow ==
    /\ m_TreeViewEnabled
    /\ \E row \in ToSet(TreeRows) :
          /\ row.hasChildren
          /\ LET key == Key(snapshots[row.index])
             IN  m_CollapsedKeys' = IF key \in m_CollapsedKeys THEN m_CollapsedKeys \ {key} ELSE m_CollapsedKeys \cup {key}
    /\ UNCHANGED <<snapshots, m_CachedTree, m_TreeViewEnabled, m_SearchBuffer, sort>>

PanelNext == Refresh \/ ChangeFilter \/ ToggleView \/ ChangeSort \/ ToggleRow
PanelSpec == PanelInit /\ [][PanelNext]_panelVars
-----------------------------------------------------------------------------
(* The parent of a position among those the filter lets through, 0 if none. *)
ParentOf(i) ==
    LET parents == {p \in FilteredSet :
                       i # 0 /\ snapshots[i].parent # NoParent /\ snapshots[p].pid = snapshots[i].parent}
    IN  IF parents = {} THEN 0 ELSE CHOOSE p \in parents : TRUE

(* Its ancestor n generations up. *)
Ancestor(i, n) ==
    LET Up[k \in Nat] == IF k = 0 THEN i ELSE ParentOf(Up[k - 1])
    IN  Up[n]

(* It has that many. *)
IsDepth(i, d) == Ancestor(i, d) # 0 /\ Ancestor(i, d + 1) = 0

(* The walk reaches it: its ancestors, that many, are expanded. *)
Reached(i, d) ==
    /\ i \in FilteredSet /\ IsDepth(i, d)
    /\ \A n \in 1..d : Key(snapshots[Ancestor(i, n)]) \notin m_CollapsedKeys

(* The tree is drawn to its end, and shows every process the filter lets      *)
(* through once, at the depth of its ancestors and below its parent, unless   *)
(* one of them is collapsed, it is too deep, or the parents go in a circle:   *)
(* whatever has been refreshed, filtered, switched and collapsed since the    *)
(* tree was built.                                                            *)
TreeComplete ==
    m_TreeViewEnabled =>
        LET rows == TreeRows
        IN  /\ TreeDrawn.stack = <<>>
            /\ \A i \in FilteredSet : \A d \in 0..(MaxTreeDepth - 1) :
                  Reached(i, d) => \E n \in DOMAIN rows : rows[n].index = i
            /\ \A m, n \in DOMAIN rows : rows[m].index = rows[n].index => m = n
            /\ \A n \in DOMAIN rows :
                  /\ rows[n].depth \in 0..(MaxTreeDepth - 1) /\ Reached(rows[n].index, rows[n].depth)
                  /\ rows[n].depth > 0 =>
                        \E m \in 1..(n - 1) :
                            /\ rows[m].index = ParentOf(rows[n].index) /\ rows[m].depth < rows[n].depth
                            /\ \A k \in (m + 1)..(n - 1) : rows[k].depth >= rows[n].depth

(* The comparator orders what it is given: there is an order of the list that *)
(* it agrees with, and being neither before nor behind is transitive, as      *)
(* std::ranges::sort demands, in both directions and for equal values too.    *)
ListSortable ==
    LET Tied(a, b) == ~Less(a, b) /\ ~Less(b, a)
    IN  /\ ListOrders # {}
        /\ \A a, b, c \in ToSet(snapshots) :
              /\ ~Less(a, a)
              /\ Less(a, b) /\ Less(b, c) => Less(a, c)
              /\ Tied(a, b) /\ Tied(b, c) => Tied(a, c)

(* The table as renderContent draws it, as a tree or as a list. *)
TableTrue == TreeComplete /\ ListSortable
=============================================================================
