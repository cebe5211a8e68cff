------------------------------ MODULE PaneLayout ------------------------------
(***************************************************************************)
(* The panes of the workspace: a grid of cells, or a split tree, of which  *)
(* the order of its leaves is kept; the tab groups of panes; the sessions  *)
(* that no pane shows, held both in the grid's overflow list and as stacks *)
(* that wait for a larger layout.  Every operation is one call on the UI   *)
(* thread.  A pane is its cell's index or its slot's number, from 1.       *)
(***************************************************************************)
EXTENDS VecOps, SequencesExt

CONSTANTS
  Ids,          \* the sessions, each added once
  Grids,        \* the sizes of the grids; Single is 1
  MaxPanes      \* bound on the leaves of a split tree

ASSUME LayoutAssumption == Ids \subseteq Nat \ {0} /\ Grids \subseteq Nat \ {0} /\ MaxPanes \in Nat

VARIABLES
  ws,           \* the Workspace
  fresh         \* the sessions that have not been added yet

layoutVars == <<ws, fresh>>

Nobody == 0
NoPane == 0
Pane(p, s) == [id |-> p, at |-> s]
Stack(tabs, active) == [tabs |-> tabs, active |-> active]

(***************************************************************************)
(* LayoutState and SplitLayoutState.                                       *)
(***************************************************************************)

PaneIds(w) == {w.panes[i].id : i \in DOMAIN w.panes}
At(w, p) == IF p \in PaneIds(w) THEN (CHOOSE e \in Range(w.panes) : e.id = p).at ELSE Nobody
InPanes(w) == {w.panes[i].at : i \in DOMAIN w.panes} \ {Nobody}
SlotOf(w, s) == w.panes[SelectInSeq(w.panes, LAMBDA e : e.at = s)].id

FirstPane(w, empty) ==
  LET i == SelectInSeq(w.panes, LAMBDA e : (e.at = Nobody) = empty)
  IN IF i = 0 THEN NoPane ELSE w.panes[i].id

Put(w, p, s) ==
  [w EXCEPT !.panes = [i \in DOMAIN @ |-> IF @[i].id = p THEN Pane(p, s) ELSE @[i]]]

FocusedSession(w) == At(w, w.focus)
LayoutFocus(w, s) == IF s \in InPanes(w) THEN [w EXCEPT !.focus = SlotOf(w, s)] ELSE w
FocusSomething(w) ==
  IF FocusedSession(w) = Nobody /\ InPanes(w) # {} THEN [w EXCEPT !.focus = FirstPane(w, FALSE)] ELSE w

LayoutAdd(w, s) ==
  IF s \in InPanes(w) \cup Range(w.overflow) THEN w
  ELSE IF FirstPane(w, TRUE) # NoPane THEN Put(w, FirstPane(w, TRUE), s)
  ELSE IF w.mode = "grid" THEN [w EXCEPT !.overflow = Append(@, s)] ELSE w

(* remove_session of both, clear_index.                                    *)
LayoutRemove(w, s) ==
  IF s \in InPanes(w)
  THEN LET p == SlotOf(w, s) cleared == Put(w, p, Nobody)
       IN IF w.focus = p THEN [cleared EXCEPT !.focus = FirstPane(cleared, FALSE)] ELSE cleared
  ELSE [w EXCEPT !.overflow = Retain(@, s)]

(* set_pane_active_session: replace_session_in_index, _in_slot.            *)
CanReplace(w, p, s) ==
  /\ p \in PaneIds(w)
  /\ s \notin InPanes(w) \/ (w.mode = "grid" /\ At(w, p) = s)
Replace(w, p, s) ==
  IF w.mode = "grid" THEN [Put(w, p, s) EXCEPT !.overflow = Retain(@, s)]
  ELSE [Put(w, p, s) EXCEPT !.focus = p]

(* assign_session_to_index, _to_slot.                                      *)
CanAssign(w, p, s) ==
  p \in PaneIds(w) /\ s \notin InPanes(w) /\ (w.mode = "split" => At(w, p) = Nobody)
Assign(w, p, s) ==
  LET rest == Retain(w.overflow, s)
  IN [Put(w, p, s) EXCEPT !.overflow = IF At(w, p) = Nobody THEN rest ELSE <<At(w, p)>> \o rest]

(* swap_hidden_into_index: an empty cell takes the session, but the `?` on *)
(* what it held leaves the session in the overflow list too.               *)
CanSwapHidden(w, s, p) == s \in Range(w.overflow) /\ At(w, p) # Nobody
SwapHidden(w, s, p) ==
  IF s \notin Range(w.overflow) THEN w
  ELSE IF At(w, p) = Nobody THEN Put(w, p, s)
  ELSE [Put(w, p, s) EXCEPT !.overflow = [i \in DOMAIN @ |-> IF @[i] = s THEN At(w, p) ELSE @[i]],
                            !.focus = p]

(***************************************************************************)
(* Tab groups and stacks.                                                  *)
(***************************************************************************)

Grouped(w, p) == p \in DOMAIN w.groups
ActiveIn(w, p) == IF Grouped(w, p) THEN w.groups[p].active ELSE At(w, p)
TabsOf(w, p) ==
  IF Grouped(w, p) THEN w.groups[p].tabs
  ELSE IF At(w, p) = Nobody THEN <<>> ELSE <<At(w, p)>>

(* pane_id_for_session.                                                    *)
PaneOf(w, s) ==
  LET g == {p \in DOMAIN w.groups : s \in Range(w.groups[p].tabs)}
  IN IF g # {} THEN CHOOSE p \in g : TRUE
     ELSE IF s \in InPanes(w) THEN SlotOf(w, s) ELSE NoPane

WithoutGroup(w, p) == [w EXCEPT !.groups = Restrict(@, DOMAIN @ \ {p})]
WithGroup(w, p, g) ==
  [w EXCEPT !.groups = [q \in DOMAIN @ \cup {p} |-> IF q = p THEN g ELSE @[q]]]

(* The stack without the tabs that are not in S; its active tab, or the    *)
(* first.                                                                  *)
KeptTabs(stack, S) ==
  LET tabs == RetainAll(stack.tabs, S)
  IN Stack(tabs, IF stack.active \in S \/ tabs = <<>> THEN stack.active ELSE Head(tabs))

(* The stacks of q, each without what is claimed or not in S, and without  *)
(* what an earlier one has.                                                *)
Held(q) == UNION {Range(q[i].tabs) : i \in DOMAIN q}
NonEmpty(q) == RetainAll(q, {st \in Range(q) : st.tabs # <<>>})
Unclaimed(q, claimed, S) ==
  NonEmpty([i \in DOMAIN q |-> KeptTabs(q[i], S \ (claimed \cup Held(SubSeq(q, 1, i - 1))))])

(* cleanup_pane_tab_groups.                                                *)
CleanedGroups(w) ==
  LET kept == [p \in DOMAIN w.groups \cap PaneIds(w) |-> KeptTabs(w.groups[p], Range(w.list))]
  IN [w EXCEPT !.groups = Restrict(kept, {p \in DOMAIN kept : Len(kept[p].tabs) > 1})]
CleanedHidden(w) ==
  [w EXCEPT !.hidden = Unclaimed(@, UNION {Range(TabsOf(w, p)) : p \in PaneIds(w)}, Range(w.list))]
CleanedUp(w) == CleanedHidden(CleanedGroups(w))

Singles(q) == [i \in DOMAIN q |-> Stack(<<q[i]>>, q[i])]

(* current_pane_stacks_in_order: the panes that show something, then the   *)
(* stacks without a pane, then the sessions that are in neither.           *)
PaneStacks(w) ==
  NonEmpty([i \in DOMAIN w.panes |-> Stack(TabsOf(w, w.panes[i].id), ActiveIn(w, w.panes[i].id))])
AndHidden(w, q) == q \o Unclaimed(w.hidden, Held(q), Range(w.list))
AndRest(w, q) == q \o Singles(RetainAll(w.list, Range(w.list) \ Held(q)))

Stacks(w) ==
  IF /\ w.mode = "grid" /\ Len(w.panes) = 1 /\ DOMAIN w.groups = {}
     /\ \A i \in DOMAIN w.hidden : Len(w.hidden[i].tabs) = 1
  THEN Singles(w.list)
  ELSE AndRest(w, AndHidden(w, PaneStacks(w)))

(* layout_transition_stacks: a stable sort, by the session of each that    *)
(* was added first.                                                        *)
Oldest(w, stack) == SelectInSeq(w.list, LAMBDA s : s \in Range(stack.tabs))
TransitionStacks(w) ==
  LET q == Stacks(w)
  IN FlattenSeq([i \in DOMAIN w.list |-> RetainAll(q, {st \in Range(q) : Oldest(w, st) = i})])

(* stacks_ordered_for_layout_state; a new layout shows one session of a    *)
(* stack at most.                                                          *)
OrderedFor(w, q) ==
  FlattenSeq([i \in DOMAIN w.panes |-> RetainAll(q, {st \in Range(q) : w.panes[i].at \in Range(st.tabs)})])
  \o RetainAll(q, {st \in Range(q) : Range(st.tabs) \cap InPanes(w) = {}})

(* Mutant of ApplyStacks: the stacks without a pane are dropped.           *)
ApplyVisibleStacks(w, q) ==
  LET n == Len(w.panes)
      groupedAt == {i \in DOMAIN q : i <= n /\ Len(q[i].tabs) > 1}
  IN CleanedUp([w EXCEPT
       !.groups = [p \in {w.panes[i].id : i \in groupedAt} |->
                     q[CHOOSE i \in groupedAt : w.panes[i].id = p]],
       !.hidden = <<>>])

(* apply_pane_stacks_to_current_layout: the n-th stack is the n-th pane's. *)
ApplyStacks(w, q) ==
  LET n == Len(w.panes)
      groupedAt == {i \in DOMAIN q : i <= n /\ Len(q[i].tabs) > 1}
  IN CleanedUp([w EXCEPT
       !.groups = [p \in {w.panes[i].id : i \in groupedAt} |->
                     q[CHOOSE i \in groupedAt : w.panes[i].id = p]],
       !.hidden = SubSeq(q, n + 1, Len(q))])

(***************************************************************************)
(* Changes of the layout.                                                  *)
(***************************************************************************)

ActiveFirst(stack) == <<stack.active>> \o Retain(stack.tabs, stack.active)

(* The first occurrence of each element of q.                              *)
Once(q) ==
  LET at == RetainAll([i \in DOMAIN q |-> i], {i \in DOMAIN q : \A j \in 1 .. i - 1 : q[j] # q[i]})
  IN [k \in DOMAIN at |-> q[at[k]]]

(* rebuild_grid_state; append_hidden_session refuses what is shown or      *)
(* hidden already.                                                         *)
GridOf(w, n, q) ==
  [w EXCEPT !.mode = "grid", !.focus = NoPane, !.overflow = <<>>,
            !.panes = [i \in 1 .. n |-> Pane(i, IF i <= Len(q) THEN q[i].active ELSE Nobody)]]
Overflowing(w, q) ==
  LET hidden == FlattenSeq([i \in DOMAIN q |-> IF i > Len(w.panes) THEN ActiveFirst(q[i]) ELSE <<>>])
  IN [w EXCEPT !.overflow = Once(RetainAll(hidden, Range(hidden) \ InPanes(w)))]
Refocused(w, old) ==
  IF old # Nobody /\ old \notin InPanes(w) /\ Len(w.panes) = 1 THEN SwapHidden(w, old, 1)
  ELSE LayoutFocus(w, old)
RebuildGrid(w, n, q) ==
  FocusSomething(Refocused(Overflowing(GridOf(w, n, q), q), FocusedSession(w)))

(* rebuild_split_state: no stack is refused before the slots are full.     *)
TreeOf(w, slots) ==
  [w EXCEPT !.mode = "split", !.focus = NoPane, !.overflow = <<>>,
            !.next = 1 + Max(Range(slots) \cup {0}),
            !.panes = [i \in DOMAIN slots |-> Pane(slots[i], Nobody)]]
AddAll(w, q) ==
  LET added[i \in 0 .. Len(q)] == IF i = 0 THEN w ELSE LayoutAdd(added[i - 1], q[i])
  IN added[Len(q)]
Filled(w, q) == AddAll(w, [i \in DOMAIN q |-> q[i].active])
RebuildSplit(w, slots, q) ==
  FocusSomething(LayoutFocus(Filled(TreeOf(w, slots), q), FocusedSession(w)))

Arranged(w, q) == ApplyStacks(w, OrderedFor(w, q))
AsGrid(w, n, q) == Arranged(RebuildGrid(w, n, q), q)
AsTree(w, slots, q) == Arranged(RebuildSplit(w, slots, q), q)
SetLayout(w, n) == AsGrid(w, n, TransitionStacks(w))
SetSplitTree(w, slots) == AsTree(w, slots, TransitionStacks(w))

(* promote_hidden_sessions_into_split_slots and _grid_slots.  Every        *)
(* session without a slot counts as hidden in a split tree.                *)
PromoteSplit(w) ==
  IF w.mode = "grid" \/ FirstPane(w, TRUE) = NoPane THEN w
  ELSE LET waiting == RetainAll(w.list, Range(w.list) \ InPanes(w))
       IN IF waiting = <<>> THEN w ELSE FocusSomething(AddAll(w, waiting))

PromoteHead(w, s) ==
  IF FirstPane(w, TRUE) # NoPane /\ Head(w.overflow) = s /\ s \notin InPanes(w)
  THEN Assign(w, FirstPane(w, TRUE), s) ELSE w
PromoteGrid(w) ==
  LET promoted[i \in 0 .. Len(w.overflow)] ==
        IF i = 0 THEN w ELSE PromoteHead(promoted[i - 1], w.overflow[i])
  IN IF w.mode = "split" THEN w ELSE FocusSomething(promoted[Len(w.overflow)])

(* split_pane: from a grid, the tree of its cells first.                   *)
SplitAtFocus(w) ==
  LET i == SelectInSeq(w.panes, LAMBDA e : e.id = w.focus)
  IN IF i = 0 THEN w
     ELSE PromoteSplit([w EXCEPT !.panes = InsertAt(@, i + 1, Pane(w.next, Nobody)), !.next = @ + 1])
SplitPane(w) ==
  SplitAtFocus(IF w.mode = "grid" THEN SetSplitTree(w, [i \in DOMAIN w.panes |-> i]) ELSE w)

(***************************************************************************)
(* Sessions.                                                               *)
(***************************************************************************)

(* add_session.                                                            *)
AddSession(w, s) ==
  LET w1 == [LayoutAdd(w, s) EXCEPT !.list = Append(@, s)]
  IN IF FocusedSession(w1) = Nobody THEN LayoutFocus(w1, s) ELSE w1

(* insert_session_into_pane_group, to be active.                           *)
InsertIntoGroup(w, p, s) ==
  LET g == Stack(TabsOf(w, p), s)
      tabs == IF s \in Range(g.tabs) THEN g.tabs ELSE Append(g.tabs, s)
  IN WithGroup(Replace(w, p, s), p, Stack(tabs, s))

(* attach of a session that was started for a pane: add_session_to_pane,   *)
(* or add_session when that pane is gone or of the other kind by now.      *)
AddToPane(w, s, mode, p) ==
  LET w1 == [w EXCEPT !.list = Append(@, s)]
  IN IF w.mode # mode \/ p \notin PaneIds(w) THEN AddSession(w, s)
     ELSE IF ActiveIn(w, p) = Nobody THEN [Assign(w1, p, s) EXCEPT !.focus = p]
     ELSE InsertIntoGroup(w1, p, s)

(* Mutant of LeaveGroup: another tab takes the pane, and s stays in the    *)
(* group.                                                                  *)
LeaveGroupStaying(w, p, s) ==
  IF ~ Grouped(w, p) \/ w.groups[p].active # s THEN w
  ELSE LET next == Head(Retain(w.groups[p].tabs, s))
       IN WithGroup(Replace(w, p, next), p, Stack(w.groups[p].tabs, next))

(* remove_session_from_pane_group.                                         *)
LeaveGroup(w, p, s) ==
  IF ~ Grouped(w, p) THEN w
  ELSE LET g == w.groups[p]
           tabs == Retain(g.tabs, s)
           takesOver == g.active = s /\ tabs # <<>> /\ CanReplace(w, p, Head(tabs))
           w1 == IF takesOver THEN Replace(w, p, Head(tabs)) ELSE w
       IN IF Len(tabs) < 2 THEN WithoutGroup(w1, p)
          ELSE WithGroup(w1, p, Stack(tabs, IF takesOver THEN Head(tabs) ELSE g.active))

(* remove_session.                                                         *)
Unlisted(w, s) == [w EXCEPT !.list = Retain(@, s)]
RemoveSession(w, s) ==
  PromoteSplit(PromoteGrid(CleanedUp(Unlisted(LayoutRemove(LeaveGroup(w, PaneOf(w, s), s), s), s))))

(* replace_hidden_session_into_grouped_pane, on a pane that has a group.   *)
ReplaceGrouped(w, p, s) ==
  LET g == w.groups[p]
      tabs == IF g.active \in Range(g.tabs)
              THEN [i \in DOMAIN g.tabs |-> IF g.tabs[i] = g.active THEN s ELSE g.tabs[i]]
              ELSE Append(g.tabs, s)
  IN WithGroup(Replace(w, p, s), p, Stack(Once(tabs), s))

(* Which pane focus_session gives to a session that has none.              *)
TargetPane(w) ==
  LET q == IF w.mode = "grid"
           THEN <<IF Len(w.panes) = 1 THEN NoPane ELSE FirstPane(w, TRUE), w.focus,
                  IF Len(w.panes) = 1 THEN 1 ELSE FirstPane(w, FALSE)>>
           ELSE <<w.focus,
                  LET i == SelectInSeq(w.panes, LAMBDA e : e.at # Nobody \/ Grouped(w, e.id))
                  IN IF i = 0 THEN NoPane ELSE w.panes[i].id,
                  FirstPane(w, TRUE)>>
      i == SelectInSeq(q, LAMBDA p : p # NoPane)
  IN IF i = 0 THEN NoPane ELSE q[i]

(* focus_session, from where it knows the session has no pane: what        *)
(* becomes of the workspace, and whether the call reports success.         *)
Result(ok, w) == [ok |-> ok, w |-> w]

Surfaced(w, s) ==
  LET p == TargetPane(w)
      single == w.mode = "grid" /\ Len(w.panes) = 1
  IN IF p = NoPane THEN Result(FALSE, w)
     ELSE IF w.mode = "grid" /\ ~ single /\ At(w, p) = Nobody
     THEN Result(TRUE, [Assign(w, p, s) EXCEPT !.focus = p])
     ELSE IF w.mode = "grid" /\ (single \/ ~ Grouped(w, p))
     THEN Result(CanSwapHidden(w, s, p), SwapHidden(w, s, p))
     ELSE IF ~ CanReplace(w, p, s) THEN Result(FALSE, w)
     ELSE Result(TRUE, IF Grouped(w, p) THEN ReplaceGrouped(w, p, s) ELSE Replace(w, p, s))

(* focus_session.                                                          *)
Activated(w, s) ==
  LET p == PaneOf(w, s) IN
  IF p = NoPane \/ ~ Grouped(w, p) \/ ActiveIn(w, p) = s THEN Result(TRUE, w)
  ELSE IF CanReplace(w, p, s)
       THEN Result(TRUE, WithGroup(Replace(w, p, s), p, Stack(w.groups[p].tabs, s)))
       ELSE Result(FALSE, w)

Settled(r) == IF r.ok THEN Result(TRUE, CleanedUp(r.w)) ELSE r
Shown(w, s) == Settled(IF s \in InPanes(w) THEN Result(TRUE, LayoutFocus(w, s)) ELSE Surfaced(w, s))
Focused(w, s) == LET a == Activated(w, s) IN IF a.ok THEN Shown(a.w, s) ELSE a

(* focus_session_number.                                                   *)
FocusNumber(w, n) ==
  LET occupied == RetainAll(w.panes, {e \in Range(w.panes) : e.at # Nobody})
  IN IF n \in DOMAIN occupied THEN [w EXCEPT !.focus = SlotOf(w, occupied[n].at)] ELSE w

(* activate_pane_tab.                                                      *)
ActivateTab(w, p, s) ==
  IF CanReplace(w, p, s) THEN Focused(WithGroup(Replace(w, p, s), p, Stack(w.groups[p].tabs, s)), s).w
  ELSE w

(* group_session_into_pane: a session is dropped on the header of a pane,  *)
(* or on an empty one.                                                     *)
Joined(w, s, p) ==
  IF ActiveIn(w, p) = Nobody
  THEN IF CanAssign(w, p, s) THEN Focused(CleanedUp(Assign(w, p, s)), s).w ELSE w
  ELSE IF CanReplace(w, p, s) THEN Focused(CleanedUp(InsertIntoGroup(w, p, s)), s).w
  ELSE CleanedUp(WithGroup(w, p, Stack(Append(Retain(TabsOf(w, p), s), s), ActiveIn(w, p))))
GroupInto(w, s, p) ==
  LET from == PaneOf(w, s)
  IN IF from \in {NoPane, p} THEN w
     ELSE Joined(IF Grouped(w, from) THEN LeaveGroup(w, from, s) ELSE LayoutRemove(w, s), s, p)

(* swap_sessions, on two panes that show something; the focus of a grid    *)
(* goes with its session.                                                  *)
SwapPanes(w, i, j) ==
  LET p == w.panes[i].id
      r == w.panes[j].id
      other(x) == IF x = p THEN r ELSE IF x = r THEN p ELSE x
  IN [w EXCEPT !.panes = [k \in DOMAIN @ |-> Pane(@[k].id, At(w, other(@[k].id)))],
               !.groups = [x \in {other(y) : y \in DOMAIN @} |-> @[other(x)]],
               !.focus = IF w.mode = "grid" THEN other(@) ELSE @]

(* close_pane, which leaves a tree of one leaf as it is but for its group, *)
(* and, when it has closed the pane, close_session of all that it held     *)
(* (handle_close_pane).                                                    *)
WithoutPane(w, p) == [w EXCEPT !.panes = RetainAll(@, {e \in Range(@) : e.id # p})]
FocusFirst(w) == [w EXCEPT !.focus = FirstPane(w, FALSE)]
AsSingle(w) == IF Len(w.panes) = 1 THEN SetLayout(w, 1) ELSE w
RemoveAll(w, q) ==
  LET removed[i \in 0 .. Len(q)] == IF i = 0 THEN w ELSE RemoveSession(removed[i - 1], q[i])
  IN removed[Len(q)]
CloseFocusedPane(w) ==
  IF Len(w.panes) = 1 THEN WithoutGroup(w, w.focus)
  ELSE RemoveAll(AsSingle(FocusFirst(WithoutPane(WithoutGroup(w, w.focus), w.focus))),
                 TabsOf(w, w.focus))

(***************************************************************************)
(* The machine.                                                            *)
(***************************************************************************)

(* Every session is a tab of one pane at most, and the active tab of a     *)
(* group is the session that its pane shows.                               *)
Tidy(w) ==
  /\ \A p, q \in PaneIds(w) : p # q => Range(TabsOf(w, p)) \cap Range(TabsOf(w, q)) = {}
  /\ \A p \in DOMAIN w.groups :
       /\ At(w, p) = w.groups[p].active
       /\ w.groups[p].active \in Range(w.groups[p].tabs)

LayoutInit ==
  /\ ws \in [mode : {"grid"}, panes : {[i \in 1 .. n |-> Pane(i, Nobody)] : n \in Grids},
          overflow : {<<>>}, focus : {NoPane}, next : {1}, groups : {<<>>}, hidden : {<<>>}, list : {<<>>}]
  /\ fresh = Ids

(* The first workspace that is not tidy ends the behaviour: what a call    *)
(* does with a session of two groups depends on the order of a hash map.   *)
Change(w) == Tidy(ws) /\ ws' = w /\ UNCHANGED fresh

(* Sessions come in the order of their numbers, which nothing looks at.    *)
Added(s, w) ==
  /\ s \in fresh /\ \A t \in fresh : s <= t
  /\ Tidy(ws) /\ ws' = w
  /\ fresh' = fresh \ {s}

AddHere(s) == Added(s, AddSession(ws, s))
AddThere(s, mode, p) == Added(s, AddToPane(ws, s, mode, p))
CloseOne(s) == s \in Range(ws.list) /\ Change(RemoveSession(ws, s))
SelectOne(s) == s \in Range(ws.list) /\ Change(Focused(ws, s).w)
SelectNumber(n) == n \in 1 .. Len(ws.panes) /\ Change(FocusNumber(ws, n))
ChooseGrid(n) == Change(SetLayout(ws, n))
ChooseTree == ws.mode = "grid" /\ Change(SetSplitTree(ws, <<2, 1>>))
SplitFocused ==
  /\ ws.mode = "split" => Len(ws.panes) < MaxPanes /\ ws.next < MaxPanes + 2
  /\ Change(SplitPane(ws))
ClosePane == ws.mode = "split" /\ ws.focus # NoPane /\ Change(CloseFocusedPane(ws))
ClickTab(p, s) == Grouped(ws, p) /\ s \in Range(ws.groups[p].tabs) /\ Change(ActivateTab(ws, p, s))
DropOnHeader(s, p) == p \in PaneIds(ws) /\ PaneOf(ws, s) # NoPane /\ Change(GroupInto(ws, s, p))
DropOnBody(i, j) ==
  /\ i # j /\ {i, j} \subseteq DOMAIN ws.panes
  /\ ws.panes[i].at # Nobody /\ ws.panes[j].at # Nobody
  /\ Change(SwapPanes(ws, i, j))

PaneNames == 1 .. (MaxPanes + 2)

LayoutNext ==
  \/ \E s \in Ids : AddHere(s) \/ CloseOne(s) \/ SelectOne(s)
  \/ \E s \in Ids, mode \in {"grid", "split"}, p \in PaneNames : AddThere(s, mode, p)
  \/ \E n \in PaneNames : SelectNumber(n)
  \/ \E n \in Grids : ChooseGrid(n)
  \/ ChooseTree \/ SplitFocused \/ ClosePane
  \/ \E p \in PaneNames, s \in Ids : ClickTab(p, s) \/ DropOnHeader(s, p)
  \/ \E i, j \in PaneNames : DropOnBody(i, j)

LayoutSpec == LayoutInit /\ [][LayoutNext]_layoutVars

(***************************************************************************)
(* Properties.                                                             *)
(***************************************************************************)

LayoutTypeOK ==
  /\ ws.mode \in {"grid", "split"}
  /\ Cardinality(PaneIds(ws)) = Len(ws.panes)
  /\ ws.focus \in PaneIds(ws) \cup {NoPane}
  /\ InPanes(ws) \cup Range(ws.overflow) \subseteq Range(ws.list)
  /\ DOMAIN ws.groups \subseteq PaneIds(ws)
  /\ \A p \in DOMAIN ws.groups : Range(ws.groups[p].tabs) \subseteq Range(ws.list)
  /\ \A i \in DOMAIN ws.hidden : Range(ws.hidden[i].tabs) \subseteq Range(ws.list)
  /\ Range(ws.list) \subseteq Ids \ fresh

(* The two ways a workspace becomes untidy: an inactive tab of a group is  *)
(* taken for a hidden session and gets a slot of its own; and the cell of  *)
(* the Single layout is given to a hidden session while the group of the   *)
(* cell keeps its active tab.                                              *)
PromotesATab ==
  /\ ws'.mode = "split"
  /\ \E p \in DOMAIN ws'.groups : \E s \in Range(ws'.groups[p].tabs) :
       s # At(ws', p) /\ s \in InPanes(ws') \ InPanes(ws)
SwapsPastAGroup ==
  /\ ws.mode = "grid" /\ Len(ws.panes) = 1 /\ Grouped(ws, 1) /\ Grouped(ws', 1)
  /\ At(ws', 1) # At(ws, 1) /\ ws'.groups[1].active = ws.groups[1].active

(* But for those two, no selection, drop, split, close or change of layout *)
(* makes a session a tab of two panes, or shows another session than the   *)
(* active tab.                                                             *)
TabsStayApart == [][Tidy(ws) /\ ~ Tidy(ws') => PromotesATab \/ SwapsPastAGroup]_layoutVars

(* "true if the session was found and focused": outside the Single layout  *)
(* the selection of any session succeeds and the focused pane shows it,    *)
(* wherever it waits: in a cell, in the overflow list, as a tab of a group *)
(* or of a stack that no pane has room for.                                *)
EverySessionCanBeFocused ==
  Tidy(ws) /\ ~ (ws.mode = "grid" /\ Len(ws.panes) = 1) =>
    \A s \in Range(ws.list) :
      LET r == Focused(ws, s) IN r.ok /\ FocusedSession(r.w) = s

(* A change of the layout keeps the stacks of tabs together, the stacks    *)
(* that lose their pane included.                                          *)
StackSets(w) == {Range(st.tabs) : st \in Range(Stacks(w))}
LayoutKeepsStacks == Tidy(ws) => \A n \in Grids : StackSets(SetLayout(ws, n)) = StackSets(ws)
=============================================================================
