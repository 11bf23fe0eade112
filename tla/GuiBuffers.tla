----------------------------- MODULE GuiBuffers -----------------------------
(***************************************************************************)
(* The list of buffers (gui/gui-buffer.c): their numbers, the buffers that *)
(* are merged under one number, which of them is active or zoomed, the     *)
(* lines they share, and the windows that show them.                       *)
(*                                                                         *)
(* The functions of the source call one another on the same data, so that  *)
(* each is an operator from the data to the data (`g'), and an action is a *)
(* command, a key or a call of a plugin.                                   *)
(***************************************************************************)
EXTENDS Integers, FiniteSets, SequencesExt

CONSTANTS
  Buffer,
  Core,           \* the main buffer, which is never closed
  Window,
  NoBuffer,       \* NULL
  LayoutNumber,   \* the number of a buffer in the layout, or 0
  LayoutOrder,    \* its place among those merged under that number
  MayHide,        \* bound: the buffers that are hidden by the user
  MaxNumber,      \* bound: the highest number of a buffer
  Commands        \* bound: "zoom", "layout", "split", "options"

ASSUME BufferAssumption ==
  /\ IsFiniteSet(Buffer) /\ Core \in Buffer
  /\ IsFiniteSet(Window) /\ Window # {}
  /\ NoBuffer \notin Buffer
  /\ LayoutNumber \in [Buffer -> Nat] /\ LayoutOrder \in [Buffer -> Nat]
  /\ MayHide \subseteq Buffer
  /\ MaxNumber \in Nat
  /\ Commands \subseteq {"zoom", "layout", "split", "options"}

VARIABLE gui      \* the buffers and the windows

(***************************************************************************)
(* list: gui_buffers; mixed: mixed_lines is not NULL; content: the buffers *)
(* whose lines are in mixed_lines, which may be empty; own: `lines' is     *)
(* own_lines; shown: the buffer of a window, NoBuffer if there is no such  *)
(* window; displayed: num_displayed; auto: the option buffer_auto_renumber;*)
(* hidden: the buffers hidden when a command finds them, see Found.        *)
(***************************************************************************)
GuiData == [list: Seq(Buffer), number: [Buffer -> Nat], active: [Buffer -> 0..2],
            zoomed: [Buffer -> BOOLEAN], mixed: [Buffer -> BOOLEAN],
            content: [Buffer -> SUBSET Buffer], own: [Buffer -> BOOLEAN],
            shown: [Window -> Buffer \union {NoBuffer}], displayed: [Buffer -> Nat],
            auto: BOOLEAN, hidden: SUBSET Buffer]

\* gui_main_init(): the main buffer, in one window.
Init ==
  \E w \in Window, a \in BOOLEAN :
       gui = [list |-> <<Core>>,
              number |-> [b \in Buffer |-> IF b = Core THEN 1 ELSE 0],
              active |-> [b \in Buffer |-> 1], zoomed |-> [b \in Buffer |-> FALSE],
              mixed |-> [b \in Buffer |-> FALSE],
              content |-> [b \in Buffer |-> {}], own |-> [b \in Buffer |-> TRUE],
              shown |-> [v \in Window |-> IF v = w THEN Core ELSE NoBuffer],
              displayed |-> [b \in Buffer |-> IF b = Core THEN 1 ELSE 0],
              auto |-> a, hidden |-> {}]

-----------------------------------------------------------------------------
(* Searches in the list                                                    *)

Opened(g) == ToSet(g.list)

\* The elements of `s' that are in `T', in their order.
Kept(s, T) ==
  LET kept[n \in 0 .. Len(s)] ==
        IF n = 0 THEN <<>>
        ELSE IF s[n] \in T THEN Append(kept[n - 1], s[n]) ELSE kept[n - 1]
  IN kept[Len(s)]

FirstIndex(S) == IF S = {} THEN 0 ELSE Min(S)

\* The position of the first element of `s' that is in `T', or 0.
FirstIn(s, T) == FirstIndex({i \in 1 .. Len(s) : s[i] \in T})

FirstOf(s, T) == IF FirstIn(s, T) = 0 THEN NoBuffer ELSE s[FirstIn(s, T)]

\* The buffers with the number of `b'; in the order of the list.
Members(g, b) == {x \in Opened(g) : g.number[x] = g.number[b]}

Group(g, b) == Kept(g.list, Members(g, b))

Merged(g, b) == Cardinality(Members(g, b)) > 1

\* The buffers after `b' in the list.
Following(g, b) == {g.list[j] : j \in FirstIn(g.list, {b}) + 1 .. Len(g.list)}

Without(g, S) == Kept(g.list, Opened(g) \ S)

\* `t' inserted before position `i' of `s'.
Inserted(s, i, t) == SubSeq(s, 1, i - 1) \o t \o SubSeq(s, i, Len(s))

\* The position of the first buffer with a number of `n' or more, or the end.
PositionOf(list, number, n) ==
  LET i == FirstIn(list, {x \in Buffer : number[x] >= n})
  IN IF i = 0 THEN Len(list) + 1 ELSE i

\* Those merged with `b', from the one after it and round to the one before.
Round(g, b) ==
  LET s == Group(g, b)
      i == FirstIn(s, {b})
  IN SubSeq(s, i + 1, Len(s)) \o SubSeq(s, 1, i - 1)

NextActive(g, b, hiddenToo) ==
  FirstOf(Round(g, b), IF hiddenToo THEN Buffer ELSE Buffer \ g.hidden)

PreviousActive(g, b) == FirstOf(Reverse(Round(g, b)), Buffer \ g.hidden)

\* The one that takes the place of `b': hidden only if all are.
Successor(g, b) ==
  IF NextActive(g, b, FALSE) # NoBuffer THEN NextActive(g, b, FALSE)
                                        ELSE NextActive(g, b, TRUE)

-----------------------------------------------------------------------------
(* Windows                                                                 *)

\* The windows on the number of `b'.
Looking(g, b) ==
  {w \in Window : g.shown[w] # NoBuffer /\ g.number[g.shown[w]] = g.number[b]}

\* Mutant: num_displayed is not reset before the windows are counted.
CountDisplayed_NoReset(g) ==
  [g EXCEPT !.displayed =
     [x \in Buffer |-> IF x \in Opened(g) THEN @[x] + Cardinality(Looking(g, x)) ELSE @[x]]]

CountDisplayed(g) ==
  [g EXCEPT !.displayed =
     [x \in Buffer |-> IF x \notin Opened(g) THEN @[x]
                       ELSE IF g.zoomed[x] /\ g.active[x] # 2 THEN 0
                       ELSE Cardinality(Looking(g, x))]]

\* Mutant: the count may become negative.
AddDisplayed_NoFloor(g, b, value) ==
  [g EXCEPT !.displayed =
     [x \in Buffer |-> IF x \in Members(g, b) THEN @[x] + value ELSE @[x]]]

\* gui_buffer_add_value_num_displayed()
AddDisplayed(g, b, value) ==
  [g EXCEPT !.displayed =
     [x \in Buffer |-> IF x \in Members(g, b)
                       THEN IF @[x] + value < 0 THEN 0 ELSE @[x] + value
                       ELSE @[x]]]

\* gui_buffer_set_active_buffer()
SetActive(g, b) ==
  LET group == Members(g, b)
      was   == FirstOf(g.list, {x \in group : g.active[x] # 0})
      level == IF was = NoBuffer THEN 1 ELSE g.active[was]
  IN [g EXCEPT
        !.own = [x \in Buffer |->
                   IF x \notin group THEN @[x]
                   ELSE IF x = b THEN level = 2 \/ @[x]
                   ELSE g.active[x] # 2 /\ @[x]],
        !.active = [x \in Buffer |->
                      IF x \notin group THEN @[x]
                      ELSE IF x = b THEN level ELSE 0]]

\* gui_window_switch_to_buffer() in each of the windows `ws'.
SwitchTo(g, ws, b) ==
  IF ws = {} THEN g
  ELSE CountDisplayed(SetActive(
         [g EXCEPT !.shown = [w \in Window |-> IF w \in ws THEN b ELSE @[w]]], b))

-----------------------------------------------------------------------------
(* Numbers                                                                 *)

\* Mutant: the next number is given to one buffer, not to those merged with it.
ShiftNumbers_One(g, i) == [g EXCEPT !.number = [@ EXCEPT ![g.list[i]] = @ + 1]]

\* The buffers from position `i' on get the next number, as far as a gap.
ShiftNumbers(g, i) ==
  LET n(k) == g.number[g.list[k]]
      pushed == {g.list[j] : j \in {m \in i .. Len(g.list) :
                               \A k \in i + 1 .. m : n(k) <= n(k - 1) + 1}}
  IN [g EXCEPT !.number = [x \in Buffer |-> IF x \in pushed THEN @[x] + 1 ELSE @[x]]]

\* The buffers that were put before position `i' took the number of `i'.
MakeRoom(g, i) ==
  IF i \in 2 .. Len(g.list) /\ g.number[g.list[i]] = g.number[g.list[i - 1]]
  THEN ShiftNumbers(g, i) ELSE g

\* The numbers when the group that ends with `b' goes: number - 1 after it.
Decreased(g, b) ==
  [x \in Buffer |-> IF g.auto /\ x \in Following(g, b) THEN g.number[x] - 1
                                                       ELSE g.number[x]]

\* gui_buffer_move_to_number()
Move(g, b, n) ==
  LET group  == Group(g, b)
      rest   == Without(g, Members(g, b))
      lower  == Decreased(g, Last(group))
      i      == PositionOf(rest, lower, n)
      number == IF i > Len(rest) /\ g.auto THEN lower[Last(rest)] + 1 ELSE n
  IN IF n = g.number[b] \/ (g.auto /\ rest = <<>>) THEN g
     ELSE MakeRoom([g EXCEPT
            !.list = Inserted(rest, i, group),
            !.number = [x \in Buffer |-> IF x \in Members(g, b) THEN number
                                                           ELSE lower[x]]],
            i + Len(group))

\* gui_buffer_swap()
Swap(g, b, c) ==
  LET from  == g.number[b]
      to    == g.number[c]
      low   == IF from < to THEN b ELSE c
      high  == IF from < to THEN c ELSE b
      below == {x \in Opened(g) : g.number[x] < g.number[low]}
      above == {x \in Opened(g) : g.number[x] > g.number[high]}
      between == {x \in Opened(g) : g.number[low] < g.number[x]
                                    /\ g.number[x] < g.number[high]}
  IN IF from = to THEN g
     ELSE [g EXCEPT
            !.list = Kept(g.list, below) \o Group(g, high) \o Kept(g.list, between)
                       \o Group(g, low) \o Kept(g.list, above),
            !.number = [x \in Buffer |-> IF x \in Members(g, b) THEN to
                                         ELSE IF x \in Members(g, c) THEN from
                                         ELSE @[x]]]

(***************************************************************************)
(* gui_buffer_renumber(): the numbers from n1 to n2 become consecutive, if *)
(* there is room between the buffers before and after.                     *)
(***************************************************************************)
Renumber(g, n1, n2, start) ==
  LET range   == {x \in Opened(g) : n1 <= g.number[x] /\ g.number[x] <= n2}
      numbers == {g.number[x] : x \in range}
      before  == {g.number[x] : x \in {y \in Opened(g) : g.number[y] < n1}}
      after   == {g.number[x] : x \in {y \in Opened(g) : g.number[y] > n2}}
      first   == IF start < 1 THEN Min(numbers) ELSE start
  IN IF \/ range = {}
        \/ \E n \in before : first <= n
        \/ \E n \in after : first + Cardinality(numbers) - 1 >= n
     THEN g
     ELSE [g EXCEPT !.number = [x \in Buffer |->
             IF x \in range THEN first + Cardinality({n \in numbers : n < @[x]})
                            ELSE @[x]]]

-----------------------------------------------------------------------------
(* Merged buffers                                                          *)

\* What `lines' of a buffer holds.
Lines(g, b) == IF g.own[b] THEN {b} ELSE g.content[b]

\* gui_line_mix_buffers(): with the first other buffer of the number.
Mix(g, b) ==
  LET group == Members(g, b)
      other == FirstOf(g.list, group \ {b})
      lines == Lines(g, other) \union Lines(g, b)
  IN [g EXCEPT !.mixed = [x \in Buffer |-> x \in group \/ @[x]],
               !.content = [x \in Buffer |-> IF x \in group THEN lines ELSE @[x]],
               !.own = [x \in Buffer |-> x \notin group /\ @[x]]]

\* gui_buffer_merge()
Merge(g, b, target) ==
  LET group  == Group(g, b)
      rest   == Without(g, Members(g, b))
      last   == Last(Group(g, target))
      lower  == Decreased(g, Last(group))
      i      == FirstIn(rest, {last}) + 1
      placed == [g EXCEPT
                   !.list = Inserted(rest, i, group),
                   !.number = [x \in Buffer |-> IF x \in Members(g, b) THEN lower[target]
                                                                        ELSE lower[x]]]
  IN IF g.number[b] = g.number[target] THEN g
     ELSE CountDisplayed(SetActive(Mix(placed, b), b))

\* Mutant: the buffer that leaves may have been the active one.
Parted_SameActive(g, b) ==
  LET group == Members(g, b)
  IN [g EXCEPT !.mixed = [x \in Buffer |->
                @[x] /\ x # b /\ (x \in group => Cardinality(group) # 2)],
              !.content = [x \in Buffer |->
                IF x \notin group THEN @[x]
                ELSE IF x = b \/ Cardinality(group) = 2 THEN {} ELSE @[x] \ {b}],
              !.own = [x \in Buffer |->
                IF x = b \/ (x \in group /\ Cardinality(group) = 2) THEN TRUE ELSE @[x]]]

(***************************************************************************)
(* The group without `b': of two, none is merged any more; of more, one is *)
(* active.                                                                 *)
(***************************************************************************)
Parted(g, b) ==
  LET group == Members(g, b)
      next  == SetActive(g, Successor(g, b))
  IN IF Cardinality(group) = 2
     THEN [g EXCEPT !.active = [x \in Buffer |-> IF x \in group THEN 1 ELSE @[x]],
                    !.mixed = [x \in Buffer |-> x \notin group /\ @[x]],
                    !.content = [x \in Buffer |-> IF x \in group THEN {} ELSE @[x]],
                    !.own = [x \in Buffer |-> x \in group \/ @[x]]]
     ELSE [next EXCEPT !.active[b] = 1,
                       !.mixed[b] = FALSE,
                       !.content = [x \in Buffer |-> IF x = b THEN {}
                                                     ELSE IF x \in group THEN @[x] \ {b}
                                                     ELSE @[x]],
                       !.own[b] = TRUE]

\* The number asked for, 0 if there is none.
UnmergedNumber(g, b, n) ==
  LET end == g.number[Last(g.list)] + 1
  IN IF n < 1 \/ n = g.number[b] THEN g.number[b] + 1
     ELSE IF g.auto /\ n > end THEN end ELSE n

\* gui_buffer_unmerge()
Unmerge(g, b, n) ==
  LET number == UnmergedNumber(g, b, n)
      rest   == Without(g, {b})
      i      == PositionOf(rest, g.number, number)
  IN IF ~ Merged(g, b) THEN g
     ELSE CountDisplayed(MakeRoom(
            [Parted(g, b) EXCEPT !.list = Inserted(rest, i, <<b>>), !.number[b] = number],
            i + 1))

\* gui_buffer_unmerge_all(): the last of each group keeps its number.
UnmergeAll(g) ==
  LET h[n \in 0 .. Len(g.list)] == IF n = 0 THEN g ELSE Unmerge(h[n - 1], g.list[n], 0)
  IN h[Len(g.list)]

-----------------------------------------------------------------------------
(* The layout                                                              *)

\* gui_buffer_find_pos(): never between two merged buffers.
LayoutPosition(g, b) ==
  FirstIndex({i \in 1 .. Len(g.list) :
    LET x == g.list[i]
    IN /\ \/ LayoutNumber[x] < 1
          \/ LayoutNumber[b] < LayoutNumber[x]
          \/ LayoutNumber[b] = LayoutNumber[x] /\ LayoutOrder[b] <= LayoutOrder[x]
       /\ i = 1 \/ g.number[g.list[i - 1]] # g.number[x]})

\* The first buffer with a gap before it.
GapPosition(g) ==
  FirstIndex({i \in 1 .. Len(g.list) :
    g.number[g.list[i]] > 1 + (IF i = 1 THEN 0 ELSE g.number[g.list[i - 1]])})

\* `b' added before position `i', or at the end.
AddBefore(g, b, i, gap) ==
  LET s      == g.list
      asked  == ~ g.auto /\ LayoutNumber[b] > 0
      prev   == IF i = 1 \/ s = <<>> THEN 0
                ELSE IF i = 0 THEN g.number[Last(s)] ELSE g.number[s[i - 1]]
      number == IF i # 0 /\ gap THEN prev + 1
                ELSE IF i = 0
                THEN IF asked /\ (s = <<>> \/ LayoutNumber[b] > prev) THEN LayoutNumber[b]
                                                                      ELSE prev + 1
                ELSE IF /\ asked
                        /\ LayoutNumber[b] < g.number[s[i]]
                        /\ i = 1 \/ LayoutNumber[b] > prev
                THEN LayoutNumber[b]
                ELSE g.number[s[i]]
      at     == IF i = 0 THEN Len(s) + 1 ELSE i
  IN MakeRoom([g EXCEPT !.list = Inserted(s, at, <<b>>), !.number[b] = number], at + 1)

(***************************************************************************)
(* gui_buffer_insert(): at its place in the layout, in the first gap if    *)
(* the option says so and it is not in the layout, or at the end; one of a *)
(* group of the layout is put at the end, and merged.                      *)
(***************************************************************************)
Insert(g, b, firstGap) ==
  LET s        == g.list
      place    == IF LayoutNumber[b] < 1 THEN 0 ELSE LayoutPosition(g, b)
      gap      == IF firstGap /\ LayoutNumber[b] = 0 THEN GapPosition(g) ELSE 0
      alike(x) == LayoutNumber[b] > 0 /\ LayoutNumber[x] = LayoutNumber[b]
      mate     == IF place = 0 THEN NoBuffer
                  ELSE IF alike(s[place]) THEN s[place]
                  ELSE IF place > 1 /\ alike(s[place - 1]) THEN s[place - 1]
                  ELSE NoBuffer
      added    == IF mate # NoBuffer THEN AddBefore(g, b, 0, FALSE)
                  ELSE IF place # 0 THEN AddBefore(g, b, place, FALSE)
                  ELSE AddBefore(g, b, gap, TRUE)
      at       == FirstIn(added.list, {b})
  IN IF mate # NoBuffer THEN Merge(added, b, mate)
     ELSE IF at > 1 /\ alike(added.list[at - 1]) THEN Merge(added, b, added.list[at - 1])
     ELSE IF at < Len(added.list) /\ alike(added.list[at + 1])
     THEN Merge(added, added.list[at + 1], b)
     ELSE added

\* Those of the layout, then the others.
LayoutFirst(s) ==
  Kept(s, {x \in Buffer : LayoutNumber[x] > 0}) \o Kept(s, {x \in Buffer : LayoutNumber[x] = 0})

\* `x' is the first of a group of the layout, at its number.
Leads(g, x) == Merged(g, x) /\ LayoutNumber[x] = g.number[x] /\ LayoutOrder[x] = 0

\* gui_buffer_sort_by_layout_number()
SortByLayout(g, s, firstGap) ==
  LET h[n \in 0 .. Len(s)] == IF n = 0 THEN [g EXCEPT !.list = <<>>]
                              ELSE Insert(h[n - 1], s[n], firstGap)
  IN h[Len(s)]

ActivateLeaders(g) ==
  LET h[n \in 0 .. Len(g.list)] ==
        IF n = 0 THEN g
        ELSE IF Leads(h[n - 1], g.list[n]) THEN SetActive(h[n - 1], g.list[n]) ELSE h[n - 1]
  IN h[Len(g.list)]

\* gui_layout_buffer_apply()
ApplyLayout(g, firstGap) ==
  LET apart == UnmergeAll(g)
  IN ActivateLeaders(SortByLayout(apart, LayoutFirst(apart.list), firstGap))

-----------------------------------------------------------------------------
(* Buffers are opened and closed                                           *)

(***************************************************************************)
(* gui_buffer_hide() and gui_buffer_unhide() set one flag, which only says *)
(* which of merged buffers becomes active: a command that depends on it    *)
(* finds any of them hidden.                                               *)
(***************************************************************************)
Found ==
  {[gui EXCEPT !.hidden = h] :
     h \in SUBSET {b \in MayHide \intersect Opened(gui) : Merged(gui, b)}}

Becomes(g) ==
  /\ \A b \in Buffer : g.number[b] <= MaxNumber
  /\ gui' = [g EXCEPT !.hidden = {}]

\* gui_buffer_new()
Open(b) ==
  /\ b \notin Opened(gui)
  /\ \E firstGap \in BOOLEAN : Becomes(Insert(gui, b, firstGap))

\* The data of a buffer, which is freed, as those of a new one.
Freed(g, b) ==
  [g EXCEPT !.list = Without(g, {b}),
            !.number = [x \in Buffer |-> IF x = b THEN 0 ELSE @[x]],
            !.active = [x \in Buffer |-> IF x = b THEN 1 ELSE @[x]],
            !.zoomed = [x \in Buffer |-> x # b /\ @[x]],
            !.mixed = [x \in Buffer |-> x # b /\ @[x]],
            !.content = [x \in Buffer |-> IF x = b THEN {} ELSE @[x]],
            !.own = [x \in Buffer |-> x = b \/ @[x]],
            !.displayed = [x \in Buffer |-> IF x = b THEN 0 ELSE @[x]]]

(***************************************************************************)
(* gui_buffer_close(): it leaves its group; the windows that show it go to *)
(* another of the group, or the one visited before, or the one before it   *)
(* in the list, or the last; then it leaves the list.                      *)
(***************************************************************************)
Closed(g, b, visited) ==
  LET back   == Successor(g, b)
      alone  == Unmerge(g, b, g.number[Last(g.list)] + 1)
      i      == FirstIn(alone.list, {b})
      next   == IF back # NoBuffer THEN back
                ELSE IF visited # NoBuffer THEN visited
                ELSE IF i > 1 THEN alone.list[i - 1] ELSE Last(alone.list)
      left   == SwitchTo(alone, {w \in Window : alone.shown[w] = b}, next)
  IN Freed([left EXCEPT !.number = Decreased(left, b)], b)

Close(b) ==
  /\ b \in Opened(gui) \ {Core}
  /\ \E g \in Found,
        visited \in {NoBuffer} \union {x \in Opened(gui) \ {b} : ~ Merged(gui, b)} :
       Becomes(Closed(g, b, visited))

-----------------------------------------------------------------------------
(* Commands and keys                                                       *)

Moves(b) ==
  /\ b \in Opened(gui)
  /\ \E n \in 1 .. MaxNumber \ {gui.number[b]} : Becomes(Move(gui, b, n))

Swaps(b, c) ==
  /\ {b, c} \subseteq Opened(gui) /\ b # c
  /\ Becomes(Swap(gui, b, c))

Merges(b, c) ==
  /\ {b, c} \subseteq Opened(gui) /\ b # c
  /\ Becomes(Merge(gui, b, c))

Unmerges(b) ==
  /\ b \in Opened(gui) /\ Merged(gui, b)
  /\ \E g \in Found, n \in 0 .. MaxNumber : Becomes(Unmerge(g, b, n))

UnmergesAll == Becomes(UnmergeAll(gui))

(***************************************************************************)
(* /buffer renumber, refused if the option auto_renumber is on.  Bounds    *)
(* that are not in use are the same as the next ones that are.             *)
(***************************************************************************)
Renumbers ==
  /\ ~ gui.auto
  /\ \E n1, n2 \in {gui.number[b] : b \in Opened(gui)}, start \in 0 .. MaxNumber :
       n1 <= n2 /\ Becomes(Renumber(gui, n1, n2, start))

\* config_change_buffer_auto_renumber()
SetAutoRenumber(value) ==
  /\ "options" \in Commands
  /\ LET g == [gui EXCEPT !.auto = value]
     IN Becomes(IF value THEN Renumber(g, g.number[Head(g.list)], g.number[Last(g.list)], 1)
                         ELSE g)

Switches(w, b) ==
  /\ gui.shown[w] # NoBuffer /\ b \in Opened(gui)
  /\ Becomes(SwitchTo(gui, {w}, b))

\* gui_input_switch_active_buffer() and .._previous()
SwitchesActive(b) ==
  /\ b \in Opened(gui)
  /\ \E g \in Found : \E x \in {NextActive(g, b, FALSE), PreviousActive(g, b)} \ {NoBuffer} :
       LET ws == {w \in Window : gui.shown[w] = b}
       IN \/ ws = {} /\ Becomes(SetActive(g, x))
          \/ \E w \in ws : Becomes(SwitchTo(SetActive(g, x), {w}, x))

\* gui_input_zoom_merged_buffer(), once the buffer is active.
Toggled(g, b) ==
  LET level == 3 - g.active[b]
      group == Members(g, b)
  IN CountDisplayed([g EXCEPT
       !.active = [@ EXCEPT ![b] = level],
       !.own = [@ EXCEPT ![b] = level = 2],
       !.zoomed = [x \in Buffer |-> IF x \in group THEN level = 2 ELSE @[x]]])

Zooms(b) ==
  /\ "zoom" \in Commands
  /\ b \in Opened(gui) /\ Merged(gui, b)
  /\ LET ws == {w \in Window : gui.shown[w] = b}
     IN \/ gui.active[b] # 0 /\ Becomes(Toggled(gui, b))
        \/ gui.active[b] = 0 /\ ws = {} /\ Becomes(Toggled(SetActive(gui, b), b))
        \/ /\ gui.active[b] = 0
           /\ \E w \in ws : Becomes(Toggled(SwitchTo(SetActive(gui, b), {w}, b), b))

Layouts ==
  /\ "layout" \in Commands
  /\ \E firstGap \in BOOLEAN : Becomes(ApplyLayout(gui, firstGap))

\* gui_window_split_..(): the new window `v' shows the same buffer.
Splits(w, v) ==
  /\ "split" \in Commands
  /\ gui.shown[w] # NoBuffer /\ gui.shown[v] = NoBuffer
  /\ Becomes(AddDisplayed([gui EXCEPT !.shown[v] = gui.shown[w]], gui.shown[w], 1))

\* gui_window_free(), never for the last one.
Unsplits(w) ==
  /\ gui.shown[w] # NoBuffer
  /\ \E v \in Window \ {w} : gui.shown[v] # NoBuffer
  /\ Becomes([AddDisplayed(gui, gui.shown[w], -1) EXCEPT !.shown[w] = NoBuffer])

Next ==
  \/ \E b \in Buffer : Open(b) \/ Close(b)
  \/ \E b \in Buffer : Moves(b) \/ Unmerges(b)
  \/ \E b, c \in Buffer : Swaps(b, c) \/ Merges(b, c)
  \/ UnmergesAll \/ Renumbers \/ Layouts
  \/ \E value \in BOOLEAN : SetAutoRenumber(value)
  \/ \E w \in Window, b \in Buffer : Switches(w, b)
  \/ \E b \in Buffer : SwitchesActive(b) \/ Zooms(b)
  \/ \E w, v \in Window : Splits(w, v)
  \/ \E w \in Window : Unsplits(w)

Spec == Init /\ [][Next]_gui

-----------------------------------------------------------------------------
(***************************************************************************)
(* Types; a buffer is in the list once.                                    *)
(***************************************************************************)
TypeOK ==
  /\ gui \in GuiData
  /\ \A i, j \in DOMAIN gui.list : gui.list[i] = gui.list[j] => i = j

(***************************************************************************)
(* Whatever is opened, closed, moved, swapped, merged or laid out, numbers *)
(* ascend in the list, so that merged buffers are neighbours (the searches *)
(* of gui-buffer.c stop at the first higher number); with auto_renumber    *)
(* they are consecutive from 1.                                            *)
(***************************************************************************)
NumbersInOrder ==
  LET n(i) == gui.number[gui.list[i]]
  IN /\ \A i \in 1 .. Len(gui.list) - 1 :
          n(i) <= n(i + 1) /\ (gui.auto => n(i + 1) <= n(i) + 1)
     /\ n(1) >= 1 /\ (gui.auto => n(1) = 1)

(***************************************************************************)
(* Exactly one of the buffers of a number is active, or active alone: the  *)
(* input goes to it, and gui_buffer_set_active_buffer() finds it.          *)
(***************************************************************************)
OneActive ==
  \A b \in Opened(gui) :
    Cardinality({x \in Members(gui, b) : gui.active[x] # 0}) = 1

(***************************************************************************)
(* `lines' never points to mixed_lines that gui_buffer_unmerge() has       *)
(* freed, the members of a group share one mixed_lines, and no line of a   *)
(* buffer that has left the group, or was closed, remains in it.           *)
(***************************************************************************)
LinesAlive ==
  \A b \in Opened(gui) :
    /\ gui.mixed[b] <=> Merged(gui, b)
    /\ gui.own[b] \/ gui.mixed[b]
    /\ gui.content[b] \subseteq Members(gui, b)
    /\ \A x \in Members(gui, b) : gui.content[x] = gui.content[b]

(***************************************************************************)
(* Groups of merged buffers stay sound through merges, unmerges, zooms and *)
(* closings: one of them has the input, and the lines they show are theirs.*)
(***************************************************************************)
GroupsSound == OneActive /\ LinesAlive

\* If none of a group is zoomed, num_displayed is the windows on its number.
DisplayedUnlessZoomed ==
  \A b \in Opened(gui) :
    \/ gui.displayed[b] = Cardinality(Looking(gui, b))
    \/ \E x \in Opened(gui) : /\ gui.number[x] = gui.number[b]
                              /\ gui.zoomed[x] \/ gui.active[x] = 2

(***************************************************************************)
(* num_displayed, which says whether the messages of a buffer go to the    *)
(* hotlist, stays right through any mixture of full counts and of counts   *)
(* kept up to date by splits, and is right again when a zoom ends.  Only   *)
(* gui_layout_buffer_apply() spoils it: its merges count the windows when  *)
(* a part of the buffers is in the list, with numbers that change later.   *)
(***************************************************************************)
CountKept ==
  [][DisplayedUnlessZoomed' \/ ~ DisplayedUnlessZoomed \/ Layouts]_gui

(***************************************************************************)
(* A buffer that is alone on its number is not zoomed, as the reference of *)
(* the API says; violated, gui_buffer_unmerge() leaves `zoomed' as it was. *)
(***************************************************************************)
ZoomedMeansMerged == \A b \in Opened(gui) : gui.zoomed[b] => Merged(gui, b)
=============================================================================
