---------------------------- MODULE Hooks_proofs ----------------------------
(***************************************************************************)
(* Proofs about Hooks, for any set of addresses, any depth of nested walks *)
(* and any length of the lists.  They assume ~TopLevelCommands: commands   *)
(* run inside a callback of the main loop.                                 *)
(***************************************************************************)
EXTENDS Hooks, FiniteSetTheorems, SequenceTheorems, WellFoundedInduction,
        TLAPS

-----------------------------------------------------------------------------
(* The operators on lists. *)

(***************************************************************************)
(* The head of a list is one of its hooks, or NULL.                        *)
(***************************************************************************)
LEMMA HeadOfInList ==
  ASSUME NEW H, NEW s \in Seq(H)
  PROVE  HeadOf(s) \in Nodes(s) \cup {NoHook}
  <1>1. s # <<>> => 1 \in DOMAIN s
    OBVIOUS
  <1>2. QED
    BY <1>1 DEF HeadOf, Nodes

(***************************************************************************)
(* next_hook of a linked hook is linked too, or NULL.                      *)
(***************************************************************************)
LEMMA NextHookInList ==
  ASSUME NEW H, NEW s \in Seq(H), NEW h \in Nodes(s)
  PROVE  NextHook(s, h) \in Nodes(s) \cup {NoHook}
  <1>1. IndexOf(s, h) \in DOMAIN s
    BY DEF Nodes, IndexOf
  <1>2. IndexOf(s, h) # Len(s) => IndexOf(s, h) + 1 \in DOMAIN s
    BY <1>1
  <1>3. QED
    BY <1>2 DEF NextHook, Nodes

(***************************************************************************)
(* hook_find_pos() answers a position where a node can be inserted: of the *)
(* hooks A that the new one goes before, none is before the position, and  *)
(* the one that is there is one of them.                                   *)
(***************************************************************************)
LEMMA FindPosInRange ==
  ASSUME NEW H, NEW s \in Seq(H), NEW D, NEW A
  PROVE  LET pos == FindPos(s, D, A) IN
         /\ pos \in 1 .. Len(s) + 1
         /\ \A k \in DOMAIN s : k < pos => s[k] \in D \/ s[k] \notin A
         /\ pos \in DOMAIN s => s[pos] \in A \ D
  <1> DEFINE found == {i \in DOMAIN s : s[i] \in A \ D}
  <1>1. CASE found = {}
    <2>1. FindPos(s, D, A) = Len(s) + 1
      BY <1>1 DEF FindPos
    <2>2. \A k \in DOMAIN s : s[k] \in D \/ s[k] \notin A
      BY <1>1
    <2>3. QED
      BY <2>1, <2>2
  <1>2. CASE found # {}
    <2> DEFINE R == OpToRel(<, Nat)
    <2>1. found \subseteq Nat
      OBVIOUS
    <2>2. \A i, j \in Nat : j < i => <<j, i>> \in R
      BY DEF OpToRel
    <2>3. PICK i \in found : \A j \in found : i <= j
      <3>1. IsWellFoundedOn(R, Nat)
        BY NatLessThanWellFounded
      <3> HIDE DEF R, found
      <3>2. PICK i \in found : \A j \in found : ~ (<<j, i>> \in R)
        BY <1>2, <2>1, <3>1, WFMin
      <3>3. ASSUME NEW j \in found
            PROVE  i <= j
        <4>1. i \in Nat /\ j \in Nat
          BY <2>1
        <4>2. ~ (j < i)
          BY <2>2, <3>2, <4>1
        <4>3. QED
          BY <4>1, <4>2
      <3>4. QED
        BY <3>3
    <2> DEFINE pos == FindPos(s, D, A)
    <2>4. pos = CHOOSE k \in found : \A j \in found : k <= j
      BY <1>2 DEF FindPos
    <2>5. pos \in found /\ \A j \in found : pos <= j
      <3> HIDE DEF found, pos
      <3>1. QED
        BY <2>3, <2>4
    <2>6. ASSUME NEW k \in DOMAIN s, k < pos
          PROVE  s[k] \in D \/ s[k] \notin A
      <3>1. k \in found => pos <= k
        BY <2>5
      <3>2. k \in Nat /\ pos \in Nat
        BY <2>1, <2>5
      <3> HIDE DEF pos
      <3>3. k \notin found
        BY <2>6, <3>1, <3>2
      <3>4. QED
        BY <3>3
    <2>7. pos \in DOMAIN s /\ s[pos] \in A \ D
      BY <2>5
    <2>8. QED
      BY <2>6, <2>7
  <1>3. QED
    BY <1>1, <1>2

(***************************************************************************)
(* hook_add_to_list() keeps every node of the list and adds the new one.   *)
(***************************************************************************)
LEMMA InsertNodeKeeps ==
  ASSUME NEW H, NEW s \in Seq(H), NEW i \in 1 .. Len(s) + 1, NEW h \in H
  PROVE  /\ InsertNode(s, i, h) \in Seq(H)
         /\ Nodes(InsertNode(s, i, h)) = Nodes(s) \cup {h}
  <1> DEFINE r == InsertNode(s, i, h)
  <1>1. r \in [1 .. Len(s) + 1 -> H]
    BY DEF InsertNode
  <1>2. r \in Seq(H) /\ DOMAIN r = 1 .. Len(s) + 1
    BY <1>1
  <1>3. Nodes(r) \subseteq Nodes(s) \cup {h}
    <2> SUFFICES ASSUME NEW k \in 1 .. Len(s) + 1
                 PROVE  r[k] \in Nodes(s) \cup {h}
      BY <1>2 DEF Nodes
    <2>1. CASE k < i
      BY <2>1 DEF InsertNode, Nodes
    <2>2. CASE k = i
      BY <2>2 DEF InsertNode
    <2>3. CASE k > i
      <3>1. k - 1 \in DOMAIN s /\ r[k] = s[k - 1]
        BY <2>3 DEF InsertNode
      <3>2. QED
        BY <3>1 DEF Nodes
    <2>4. QED
      BY <2>1, <2>2, <2>3
  <1>4. h \in Nodes(r)
    <2>1. r[i] = h
      BY DEF InsertNode
    <2>2. QED
      BY <1>2, <2>1 DEF Nodes
  <1>5. Nodes(s) \subseteq Nodes(r)
    <2> SUFFICES ASSUME NEW k \in 1 .. Len(s)
                 PROVE  s[k] \in Nodes(r)
      BY DEF Nodes
    <2>1. CASE k < i
      <3>1. k \in DOMAIN r /\ r[k] = s[k]
        BY <1>2, <2>1 DEF InsertNode
      <3>2. QED
        BY <3>1 DEF Nodes
    <2>2. CASE k >= i
      <3>1. k + 1 \in DOMAIN r /\ r[k + 1] = s[k]
        BY <1>2, <2>2 DEF InsertNode
      <3>2. QED
        BY <3>1 DEF Nodes
    <2>3. QED
      BY <2>1, <2>2
  <1>6. QED
    BY <1>2, <1>3, <1>4, <1>5

(***************************************************************************)
(* hook_remove_from_list() unlinks at most the node at the position given. *)
(***************************************************************************)
LEMMA RemoveNodeKeeps ==
  ASSUME NEW H, NEW s \in Seq(H), NEW i \in DOMAIN s
  PROVE  /\ RemoveNode(s, i) \in Seq(H)
         /\ Nodes(s) \ {s[i]} \subseteq Nodes(RemoveNode(s, i))
  <1> DEFINE r == RemoveNode(s, i)
  <1>1. r \in [1 .. Len(s) - 1 -> H] /\ Len(s) - 1 \in Nat
    BY DEF RemoveNode
  <1>2. r \in Seq(H) /\ DOMAIN r = 1 .. Len(s) - 1
    BY <1>1
  <1>3. ASSUME NEW k \in 1 .. Len(s), s[k] # s[i]
        PROVE  s[k] \in Nodes(r)
    <2>1. CASE k < i
      <3>1. k \in DOMAIN r /\ r[k] = s[k]
        BY <1>2, <2>1 DEF RemoveNode
      <3>2. QED
        BY <3>1 DEF Nodes
    <2>2. CASE k > i
      <3>1. k - 1 \in DOMAIN r /\ r[k - 1] = s[k]
        BY <1>2, <2>2 DEF RemoveNode
      <3>2. QED
        BY <3>1 DEF Nodes
    <2>3. QED
      BY <1>3, <2>1, <2>2
  <1>4. QED
    BY <1>2, <1>3 DEF Nodes
-----------------------------------------------------------------------------
(* The stack of walks. *)

(***************************************************************************)
(* The end of a walk leaves the frames below it as they were.              *)
(***************************************************************************)
LEMMA PopKeeps ==
  ASSUME NEW F, NEW s \in Seq(F), s # <<>>
  PROVE  LET r == SubSeq(s, 1, Len(s) - 1) IN
         /\ r \in Seq(F)
         /\ DOMAIN r = 1 .. Len(s) - 1
         /\ \A i \in DOMAIN r : i \in DOMAIN s /\ r[i] = s[i]
         /\ Guarded(r) = Guarded(s) \ {Len(s)}
  <1> DEFINE r == SubSeq(s, 1, Len(s) - 1)
  <1>1. Len(s) \in Nat \ {0}
    OBVIOUS
  <1>2. r \in Seq(F) /\ Len(r) = Len(s) - 1
    <2> DEFINE n == Len(s) - 1
    <2>1. n \in Nat /\ \A i \in 1 .. n : s[i] \in F
      BY <1>1
    <2> HIDE DEF n
    <2>2. /\ SubSeq(s, 1, n) \in Seq(F)
          /\ Len(SubSeq(s, 1, n)) = IF 1 <= n THEN n - 1 + 1 ELSE 0
      BY <2>1, SubSeqProperties
    <2>3. Len(SubSeq(s, 1, n)) = n
      BY <2>1, <2>2
    <2>4. QED
      BY <2>2, <2>3 DEF n
  <1>3. DOMAIN r = 1 .. Len(s) - 1
    BY <1>2
  <1>4. \A i \in 1 .. Len(s) - 1 : i \in DOMAIN s /\ r[i] = s[i]
    BY <1>1
  <1>5. DOMAIN s = 1 .. Len(s)
    OBVIOUS
  <1>6. Guarded(r) = Guarded(s) \ {Len(s)}
    BY <1>1, <1>3, <1>4, <1>5 DEF Guarded
  <1>7. QED
    BY <1>2, <1>3, <1>4, <1>6

(***************************************************************************)
(* A step of the innermost walk changes its frame only.                    *)
(***************************************************************************)
LEMMA SetTopKeeps ==
  ASSUME NEW F, NEW s \in Seq(F), s # <<>>, NEW f \in F
  PROVE  LET r == [s EXCEPT ![Len(s)] = f] IN
         /\ r \in Seq(F)
         /\ DOMAIN r = DOMAIN s
         /\ Len(s) \in DOMAIN s
         /\ r # <<>>
         /\ \A i \in DOMAIN s : r[i] = IF i = Len(s) THEN f ELSE s[i]
         /\ f.type = s[Len(s)].type => Guarded(r) = Guarded(s)
         /\ f.type # "command_run" => Guarded(r) = Guarded(s) \cup {Len(s)}
  <1> DEFINE r == [s EXCEPT ![Len(s)] = f]
  <1>1. Len(s) \in DOMAIN s
    OBVIOUS
  <1>2. /\ r \in Seq(F) /\ DOMAIN r = DOMAIN s /\ r # <<>>
        /\ \A i \in DOMAIN s : r[i] = IF i = Len(s) THEN f ELSE s[i]
    BY <1>1
  <1>3. f.type = s[Len(s)].type => Guarded(r) = Guarded(s)
    BY <1>2 DEF Guarded
  <1>4. f.type # "command_run" => Guarded(r) = Guarded(s) \cup {Len(s)}
    BY <1>1, <1>2 DEF Guarded
  <1>5. QED
    BY <1>1, <1>2, <1>3, <1>4

(***************************************************************************)
(* A new walk is added on top of the frames there are.                     *)
(***************************************************************************)
LEMMA PushKeeps ==
  ASSUME NEW F, NEW s \in Seq(F), NEW f \in F
  PROVE  LET r == Append(s, f) IN
         /\ r \in Seq(F)
         /\ DOMAIN r = DOMAIN s \cup {Len(s) + 1}
         /\ Len(s) + 1 \notin DOMAIN s
         /\ r # <<>>
         /\ r[Len(s) + 1] = f
         /\ \A i \in DOMAIN s : r[i] = s[i]
         /\ f.type = "command_run" => Guarded(r) = Guarded(s)
         /\ f.type # "command_run" => Guarded(r) = Guarded(s) \cup {Len(s) + 1}
  <1> DEFINE r == Append(s, f)
  <1>1. /\ r \in Seq(F) /\ r # <<>> /\ r[Len(s) + 1] = f
        /\ DOMAIN r = DOMAIN s \cup {Len(s) + 1}
        /\ Len(s) + 1 \notin DOMAIN s
        /\ \A i \in DOMAIN s : r[i] = s[i]
    OBVIOUS
  <1>2. f.type = "command_run" => Guarded(r) = Guarded(s)
    BY <1>1 DEF Guarded
  <1>3. f.type # "command_run" => Guarded(r) = Guarded(s) \cup {Len(s) + 1}
    BY <1>1 DEF Guarded
  <1>4. QED
    BY <1>1, <1>2, <1>3

(***************************************************************************)
(* The walks that count are finitely many.                                 *)
(***************************************************************************)
LEMMA GuardedFinite ==
  ASSUME NEW F, NEW s \in Seq(F)
  PROVE  IsFiniteSet(Guarded(s)) /\ Cardinality(Guarded(s)) \in Nat
  <1>1. IsFiniteSet(1 .. Len(s)) /\ Guarded(s) \subseteq 1 .. Len(s)
    BY FS_Interval DEF Guarded
  <1>2. QED
    BY <1>1, FS_Subset, FS_CardinalityType

(***************************************************************************)
(* While a walk is active, hook_exec_recursion is positive: unhook() will  *)
(* not free a hook.                                                        *)
(***************************************************************************)
LEMMA WalkIsProtected ==
  ASSUME IInv, stack # <<>>
  PROVE  hook_exec_recursion > 0
  <1>1. stack \in Seq(Frame) /\ 1 \in Guarded(stack)
    BY DEF IInv, TypeOK, OutermostIsGuarded, Guarded
  <1>2. IsFiniteSet(Guarded(stack)) /\ Cardinality(Guarded(stack)) \in Nat
    BY <1>1, GuardedFinite
  <1>3. Cardinality(Guarded(stack)) # 0
    BY <1>1, <1>2, FS_EmptySet
  <1>4. QED
    BY <1>2, <1>3 DEF IInv, RecursionCountsWalks
-----------------------------------------------------------------------------
(* The invariant is inductive. *)

(***************************************************************************)
(* A frame that is well-formed and whose pointers are linked can replace   *)
(* the innermost one.                                                      *)
(***************************************************************************)
LEMMA TopStep ==
  ASSUME IInv, stack # <<>>, UNCHANGED list,
         NEW f \in Frame, PointersOf(f), stack' = SetTop(f)
  PROVE  stack' \in Seq(Frame) /\ PointersAreLinked'
  <1>1. stack \in Seq(Frame)
    BY DEF IInv, TypeOK
  <1>2. /\ stack' \in Seq(Frame)
        /\ DOMAIN stack' = DOMAIN stack
        /\ \A i \in DOMAIN stack :
              stack'[i] = IF i = Len(stack) THEN f ELSE stack[i]
    BY <1>1, SetTopKeeps DEF SetTop
  <1>3. ASSUME NEW i \in DOMAIN stack
        PROVE  PointersOf(stack[i])'
    <2>1. CASE i = Len(stack)
      BY <1>2, <2>1 DEF PointersOf
    <2>2. CASE i # Len(stack)
      BY <1>2, <2>2 DEF IInv, PointersAreLinked, PointersOf
    <2>3. QED
      BY <2>1, <2>2
  <1>4. QED
    BY <1>2, <1>3 DEF PointersAreLinked

(***************************************************************************)
(* A new frame can be pushed under the same condition.                     *)
(***************************************************************************)
LEMMA PushStep ==
  ASSUME IInv, UNCHANGED list,
         NEW f \in Frame, PointersOf(f), stack' = Append(stack, f)
  PROVE  stack' \in Seq(Frame) /\ PointersAreLinked'
  <1>1. stack \in Seq(Frame)
    BY DEF IInv, TypeOK
  <1>2. /\ stack' \in Seq(Frame)
        /\ DOMAIN stack' = DOMAIN stack \cup {Len(stack) + 1}
        /\ stack'[Len(stack) + 1] = f
        /\ \A i \in DOMAIN stack : stack'[i] = stack[i]
    BY <1>1, PushKeeps
  <1>3. ASSUME NEW i \in DOMAIN stack'
        PROVE  PointersOf(stack[i])'
    <2>1. CASE i = Len(stack) + 1
      BY <1>2, <2>1 DEF PointersOf
    <2>2. CASE i \in DOMAIN stack
      BY <1>2, <2>2 DEF IInv, PointersAreLinked, PointersOf
    <2>3. QED
      BY <1>2, <2>1, <2>2
  <1>4. QED
    BY <1>2, <1>3 DEF PointersAreLinked

(***************************************************************************)
(* The end of a walk, with or without hook_exec_end().                     *)
(***************************************************************************)
LEMMA PopStep ==
  ASSUME IInv, stack # <<>>, UNCHANGED list, stack' = Pop
  PROVE  stack' \in Seq(Frame) /\ PointersAreLinked' /\ OutermostIsGuarded'
  <1>1. stack \in Seq(Frame)
    BY DEF IInv, TypeOK
  <1>2. /\ stack' \in Seq(Frame)
        /\ \A i \in DOMAIN stack' : i \in DOMAIN stack /\ stack'[i] = stack[i]
    BY <1>1, PopKeeps DEF Pop
  <1>3. PointersAreLinked'
    BY <1>2 DEF IInv, PointersAreLinked, PointersOf
  <1>4. OutermostIsGuarded'
    <2>1. stack' # <<>> => 1 \in DOMAIN stack'
      BY <1>2
    <2>2. QED
      BY <1>2, <2>1 DEF IInv, OutermostIsGuarded
  <1>5. QED
    BY <1>2, <1>3, <1>4

(***************************************************************************)
(* hook_exec_end(): the count stays exact, and hook_remove_deleted() runs  *)
(* exactly when the last walk ends.                                        *)
(***************************************************************************)
LEMMA ExecEndStep ==
  ASSUME IInv, stack # <<>>, Top.type # "command_run", ~purging,
         stack' = Pop, ExecEnd,
         UNCHANGED <<list, deleted, real_delete_pending>>
  PROVE  /\ RecursionCountsWalks' /\ FreedInTime'
         /\ hook_exec_recursion' \in Nat /\ purging' \in BOOLEAN
  <1>1. /\ stack \in Seq(Frame)
        /\ real_delete_pending \in BOOLEAN
        /\ hook_exec_recursion \in Nat
        /\ hook_exec_recursion > 0
    BY WalkIsProtected DEF IInv, TypeOK
  <1>2. /\ stack' \in Seq(Frame)
        /\ Guarded(stack') = Guarded(stack) \ {Len(stack)}
        /\ OutermostIsGuarded'
    BY <1>1, PopKeeps, PopStep DEF Pop
  <1>3. Len(stack) \in Guarded(stack)
    BY <1>1 DEF Guarded, Top
  <1>4. /\ IsFiniteSet(Guarded(stack')) /\ Cardinality(Guarded(stack')) \in Nat
        /\ IsFiniteSet(Guarded(stack)) /\ Cardinality(Guarded(stack)) \in Nat
    BY <1>1, <1>2, GuardedFinite
  <1>5. Cardinality(Guarded(stack')) = Cardinality(Guarded(stack)) - 1
    BY <1>2, <1>3, <1>4, FS_RemoveElement
  <1>6. hook_exec_recursion' = Cardinality(Guarded(stack'))
    BY <1>1, <1>5 DEF ExecEnd, IInv, RecursionCountsWalks
  <1>7. hook_exec_recursion' = 0 <=> stack' = <<>>
    <2>1. stack' = <<>> => Guarded(stack') = {}
      BY DEF Guarded
    <2>2. stack' # <<>> => 1 \in Guarded(stack')
      BY <1>2 DEF OutermostIsGuarded, Guarded
    <2>3. QED
      BY <1>4, <1>6, <2>1, <2>2, FS_EmptySet
  <1>8. FreedInTime'
    BY <1>1, <1>7 DEF ExecEnd, IInv, FreedInTime, Linked
  <1>9. QED
    BY <1>1, <1>4, <1>6, <1>8 DEF ExecEnd, RecursionCountsWalks

(***************************************************************************)
(* In the initial state there is no hook and no walk.                      *)
(***************************************************************************)
LEMMA IInvInit ==
  ASSUME Init
  PROVE  IInv
  <1>1. TypeOK
    <2>1. (CHOOSE p \in Priorities : TRUE) \in Priorities
      BY HooksAssumption
    <2>2. list \in [Types -> Seq(Hooks)] /\ stack \in Seq(Frame)
      BY DEF Init
    <2>3. priority \in [Hooks -> Priorities]
      <3> DEFINE p == CHOOSE q \in Priorities : TRUE
      <3>1. p \in Priorities /\ priority = [h \in Hooks |-> p]
        BY <2>1 DEF Init
      <3> HIDE DEF p
      <3>2. QED
        BY <3>1
    <2>7. command \in [Hooks -> CommandNames]
      <3>1. AnyName \in CommandNames
        BY HooksAssumption DEF AnyName
      <3>2. QED
        BY <3>1 DEF Init
    <2>4. real_delete_pending \in BOOLEAN /\ purging \in BOOLEAN
      BY DEF Init
    <2>5. /\ remaining \in [Hooks -> Nat] /\ running \in [Hooks -> Int]
          /\ limit \in [Hooks -> Nat] /\ fired \in [Hooks -> Nat]
          /\ deleted \in SUBSET Hooks /\ hook_exec_recursion \in Nat
      BY DEF Init
    <2>6. QED
      BY <2>2, <2>3, <2>4, <2>5, <2>7 DEF TypeOK
  <1>2. Guarded(stack) = {}
    BY DEF Init, Guarded
  <1>3. RecursionCountsWalks
    BY <1>2, FS_EmptySet DEF Init, RecursionCountsWalks
  <1>4. PointersAreLinked /\ OutermostIsGuarded /\ FreedInTime
    BY DEF Init, PointersAreLinked, OutermostIsGuarded, FreedInTime
  <1>5. QED
    BY <1>1, <1>3, <1>4 DEF IInv

(***************************************************************************)
(* A new hook leaves every walk where it is.                               *)
(***************************************************************************)
LEMMA AddHookStep ==
  ASSUME IInv, NEW t \in Types, NEW h \in Hooks, NEW c \in CommandNames,
         NEW p \in Priorities, NEW n \in MaxCallsValues,
         AddHook(t, h, c, p, n)
  PROVE  IInv'
  <1>1. list[t] \in Seq(Hooks)
    BY DEF IInv, TypeOK
  <1> DEFINE after == {y \in Hooks : Precedes(t, c, p, y)}
             pos == FindPos(list[t], deleted, after)
  <1>2. pos \in 1 .. Len(list[t]) + 1
    BY <1>1, FindPosInRange
  <1>3. list' = [list EXCEPT ![t] = InsertNode(list[t], pos, h)]
    BY DEF AddHook
  <1> HIDE DEF pos
  <1>4. /\ InsertNode(list[t], pos, h) \in Seq(Hooks)
        /\ Nodes(InsertNode(list[t], pos, h)) = Nodes(list[t]) \cup {h}
    BY <1>1, <1>2, InsertNodeKeeps
  <1>5. /\ list' \in [Types -> Seq(Hooks)]
        /\ \A u \in Types : Nodes(list[u]) \subseteq Nodes(list'[u])
    BY <1>3, <1>4 DEF IInv, TypeOK
  <1>6. TypeOK'
    BY <1>5, HooksAssumption DEF IInv, TypeOK, AddHook
  <1>7. PointersAreLinked'
    <2>1. \A i \in DOMAIN stack : stack[i].type \in Types
      <3>1. \A i \in DOMAIN stack : stack[i] \in Frame
        BY DEF IInv, TypeOK
      <3>2. QED
        BY <3>1 DEF Frame
    <2>2. QED
      BY <1>5, <2>1 DEF IInv, PointersAreLinked, PointersOf, AddHook
  <1>8. RecursionCountsWalks' /\ OutermostIsGuarded'
    BY DEF IInv, RecursionCountsWalks, OutermostIsGuarded, AddHook
  <1>9. FreedInTime'
    <2>1. Linked \subseteq Linked'
      BY <1>5 DEF Linked
    <2>2. QED
      BY <2>1 DEF IInv, FreedInTime, AddHook
  <1>10. QED
    BY <1>6, <1>7, <1>8, <1>9 DEF IInv

(***************************************************************************)
(* unhook() frees a hook only when there is no walk.                       *)
(***************************************************************************)
LEMMA UnhookStep ==
  ASSUME IInv, NEW h \in Hooks, Unhook(h)
  PROVE  IInv'
  <1>1. CASE hook_exec_recursion = 0
    <2>1. stack = <<>> /\ ~purging /\ deleted = {} /\ ~real_delete_pending
      BY <1>1, WalkIsProtected DEF IInv, FreedInTime, Unhook, Outside, TypeOK
    <2>2. Free(h) /\ UNCHANGED <<deleted, real_delete_pending>>
      BY <1>1 DEF Unhook, FreeOrMark
    <2>3. list' \in [Types -> Seq(Hooks)]
      <3>1. ASSUME NEW t \in Types, h \in Nodes(list[t])
            PROVE  RemoveNode(list[t], IndexOf(list[t], h)) \in Seq(Hooks)
        <4>1. list[t] \in Seq(Hooks)
          BY DEF IInv, TypeOK
        <4>2. IndexOf(list[t], h) \in DOMAIN list[t]
          BY <3>1 DEF Nodes, IndexOf
        <4>3. QED
          BY <4>1, <4>2, RemoveNodeKeeps
      <3>2. QED
        BY <2>2, <3>1 DEF Free, IInv, TypeOK
    <2>4. TypeOK'
      BY <2>2, <2>3 DEF IInv, TypeOK, Unhook
    <2>5. QED
      BY <2>1, <2>2, <2>4 DEF IInv, PointersAreLinked, RecursionCountsWalks,
         OutermostIsGuarded, FreedInTime, Unhook
  <1>2. CASE hook_exec_recursion # 0
    <2>1. /\ deleted' = deleted \cup {h}
          /\ real_delete_pending' = TRUE
          /\ UNCHANGED list
      BY <1>2 DEF Unhook, FreeOrMark
    <2>2. stack # <<>>
      <3>1. stack = <<>> => Guarded(stack) = {}
        BY DEF Guarded
      <3>2. QED
        BY <1>2, <3>1, FS_EmptySet DEF IInv, RecursionCountsWalks
    <2>3. TypeOK'
      BY <2>1 DEF IInv, TypeOK, Unhook
    <2>4. FreedInTime'
      BY <2>1, <2>2 DEF IInv, FreedInTime, Unhook, Outside, Valid, Linked
    <2>5. QED
      BY <2>1, <2>3, <2>4 DEF IInv, PointersAreLinked, PointersOf,
         RecursionCountsWalks, OutermostIsGuarded, Unhook
  <1>3. QED
    BY <1>1, <1>2

(***************************************************************************)
(* What the innermost walk can rely on.                                    *)
(***************************************************************************)
LEMMA TopFacts ==
  ASSUME IInv, stack # <<>>
  PROVE  /\ Top \in Frame /\ PointersOf(Top)
         /\ Top.type \in Types
         /\ list[Top.type] \in Seq(Hooks)
         /\ Nodes(list[Top.type]) \subseteq Hooks
         /\ Top.ptr # NoHook =>
              NextHook(list[Top.type], Top.ptr)
                 \in Nodes(list[Top.type]) \cup {NoHook}
         /\ hook_exec_recursion > 0
         /\ ~purging
  <1>1. stack \in Seq(Frame) /\ Len(stack) \in DOMAIN stack
    BY DEF IInv, TypeOK
  <1>2. Top \in Frame /\ PointersOf(Top)
    BY <1>1 DEF Top, IInv, PointersAreLinked, PointersOf
  <1>3. Top.type \in Types
    BY <1>2 DEF Frame
  <1>4. list[Top.type] \in Seq(Hooks)
    BY <1>3 DEF IInv, TypeOK
  <1>5. Nodes(list[Top.type]) \subseteq Hooks
    BY <1>4 DEF Nodes
  <1>6. Top.ptr # NoHook =>
          NextHook(list[Top.type], Top.ptr)
             \in Nodes(list[Top.type]) \cup {NoHook}
    BY <1>2, <1>4, NextHookInList DEF PointersOf
  <1>7. hook_exec_recursion > 0 /\ ~purging
    BY WalkIsProtected DEF IInv, FreedInTime
  <1>8. QED
    BY <1>2, <1>3, <1>4, <1>5, <1>6, <1>7

(***************************************************************************)
(* A step of the innermost walk that changes neither its type nor the list *)
(* keeps the count and the outermost frame.                                *)
(***************************************************************************)
LEMMA SameTypeStep ==
  ASSUME IInv, stack # <<>>, NEW f \in Frame, f.type = Top.type,
         stack' = SetTop(f), UNCHANGED hook_exec_recursion
  PROVE  RecursionCountsWalks' /\ OutermostIsGuarded' /\ stack' # <<>>
  <1>1. stack \in Seq(Frame) /\ 1 \in DOMAIN stack
    BY DEF IInv, TypeOK
  <1>2. /\ Guarded(stack') = Guarded(stack)
        /\ stack' # <<>>
        /\ \A i \in DOMAIN stack :
              stack'[i] = IF i = Len(stack) THEN f ELSE stack[i]
    BY <1>1, SetTopKeeps DEF SetTop, Top
  <1>3. stack'[1].type = stack[1].type
    BY <1>1, <1>2 DEF Top
  <1>4. QED
    BY <1>2, <1>3 DEF IInv, RecursionCountsWalks, OutermostIsGuarded

(***************************************************************************)
(* A new walk starts at the head of its list.                              *)
(***************************************************************************)
LEMMA WalkFrame ==
  ASSUME IInv, NEW t \in Types
  PROVE  Walk(t) \in Frame /\ PointersOf(Walk(t)) /\ Walk(t).type = t
  <1>1. list[t] \in Seq(Hooks)
    BY DEF IInv, TypeOK
  <1>2. Nodes(list[t]) \subseteq Hooks
    BY <1>1 DEF Nodes
  <1>3. HeadOf(list[t]) \in Nodes(list[t]) \cup {NoHook}
    BY <1>1, HeadOfInList
  <1>4. Walk(t) \in Frame
    BY <1>2, <1>3 DEF Walk, Frame, Alive
  <1>5. PointersOf(Walk(t)) /\ Walk(t).type = t
    BY <1>3 DEF Walk, PointersOf
  <1>6. QED
    BY <1>4, <1>5

(***************************************************************************)
(* The walks that call hook_exec_start().                                  *)
(***************************************************************************)
LEMMA ExecStep ==
  ASSUME IInv, NEW t \in Types, Exec(t)
  PROVE  IInv'
  <1>1. stack \in Seq(Frame) /\ ~purging /\ UNCHANGED <<list, purging>>
    BY DEF IInv, TypeOK, Exec, Outside, hookVars
  <1>2. Walk(t) \in Frame /\ PointersOf(Walk(t)) /\ Walk(t).type = t
    BY WalkFrame
  <1>3. /\ stack' = Append(stack, Walk(t)) /\ t # "command_run"
        /\ hook_exec_recursion' = hook_exec_recursion + 1
    BY DEF Exec
  <1>4. stack' \in Seq(Frame) /\ PointersAreLinked'
    BY <1>1, <1>2, <1>3, PushStep
  <1> HIDE DEF Walk
  <1>5. /\ stack' # <<>>
        /\ Guarded(stack') = Guarded(stack) \cup {Len(stack) + 1}
        /\ Len(stack) + 1 \notin DOMAIN stack
        /\ stack'[Len(stack) + 1] = Walk(t)
        /\ \A i \in DOMAIN stack : stack'[i] = stack[i]
    BY <1>1, <1>2, <1>3, PushKeeps
  <1>6. RecursionCountsWalks'
    <2>1. IsFiniteSet(Guarded(stack))
      BY <1>1, GuardedFinite
    <2>2. Len(stack) + 1 \notin Guarded(stack)
      BY <1>5 DEF Guarded
    <2>3. Cardinality(Guarded(stack')) = Cardinality(Guarded(stack)) + 1
      BY <1>5, <2>1, <2>2, FS_AddElement
    <2>4. QED
      BY <1>3, <2>3 DEF IInv, RecursionCountsWalks
  <1>7. OutermostIsGuarded'
    <2>1. CASE stack = <<>>
      BY <1>2, <1>3, <1>5, <2>1 DEF OutermostIsGuarded
    <2>2. CASE stack # <<>>
      BY <1>1, <1>5, <2>2 DEF IInv, OutermostIsGuarded
    <2>3. QED
      BY <2>1, <2>2
  <1>8. TypeOK'
    BY <1>3, <1>4 DEF IInv, TypeOK, Exec, hookVars
  <1>9. FreedInTime'
    BY <1>1, <1>5 DEF IInv, FreedInTime, Exec, hookVars, Linked
  <1>10. QED
    BY <1>4, <1>6, <1>7, <1>8, <1>9 DEF IInv

(***************************************************************************)
(* hook_command_run_exec() does not count, but it has a walk around it.    *)
(***************************************************************************)
LEMMA ExecCommandStep ==
  ASSUME IInv, ExecCommand, ~TopLevelCommands
  PROVE  IInv'
  <1> DEFINE w == Walk("command_run")
  <1>1. /\ stack \in Seq(Frame) /\ stack # <<>> /\ ~purging
        /\ UNCHANGED <<list, purging>>
        /\ "command_run" \in Types
    BY DEF IInv, TypeOK, ExecCommand, Outside, hookVars
  <1>2. w \in Frame /\ PointersOf(w) /\ w.type = "command_run"
    BY <1>1, WalkFrame
  <1>3. stack' = Append(stack, w) /\ UNCHANGED hook_exec_recursion
    BY DEF ExecCommand
  <1> HIDE DEF w
  <1>4. stack' \in Seq(Frame) /\ PointersAreLinked'
    BY <1>1, <1>2, <1>3, PushStep
  <1>5. /\ stack' # <<>>
        /\ Guarded(stack') = Guarded(stack)
        /\ \A i \in DOMAIN stack : stack'[i] = stack[i]
    BY <1>1, <1>2, <1>3, PushKeeps
  <1>6. RecursionCountsWalks' /\ OutermostIsGuarded'
    BY <1>1, <1>3, <1>5 DEF IInv, RecursionCountsWalks, OutermostIsGuarded
  <1>7. TypeOK'
    BY <1>3, <1>4 DEF IInv, TypeOK, ExecCommand, hookVars
  <1>8. FreedInTime'
    BY <1>1, <1>5 DEF IInv, FreedInTime, ExecCommand, hookVars, Linked
  <1>9. QED
    BY <1>4, <1>6, <1>7, <1>8 DEF IInv

(***************************************************************************)
(* One turn of the loop that calls nobody.                                 *)
(***************************************************************************)
LEMMA SkipStep ==
  ASSUME IInv, Skip
  PROVE  IInv'
  <1> DEFINE f == [Top EXCEPT !.ptr = NextHook(list[Top.type], Top.ptr),
                              !.seen = @ \cup {Top.ptr}]
  <1>1. /\ stack # <<>> /\ Top.ptr # NoHook /\ Top.calling = FALSE
        /\ UNCHANGED list /\ stack' = SetTop(f)
    BY DEF Skip, Visiting, hookVars, IInv, TypeOK, Frame, Top
  <1>2. /\ Top \in Frame /\ PointersOf(Top)
        /\ Nodes(list[Top.type]) \subseteq Hooks
        /\ NextHook(list[Top.type], Top.ptr)
             \in Nodes(list[Top.type]) \cup {NoHook}
    BY <1>1, TopFacts
  <1>3. f \in Frame /\ PointersOf(f) /\ f.type = Top.type
    <2>1. f \in Frame /\ f.type = Top.type /\ f.calling = Top.calling
      BY <1>1, <1>2 DEF Frame
    <2>2. f.ptr = NextHook(list[Top.type], Top.ptr) /\ f.next = Top.next
      BY <1>2 DEF Frame
    <2>3. QED
      BY <1>1, <1>2, <2>1, <2>2 DEF PointersOf
  <1> HIDE DEF f
  <1>4. stack' \in Seq(Frame) /\ PointersAreLinked'
    BY <1>1, <1>3, TopStep
  <1>5. RecursionCountsWalks' /\ OutermostIsGuarded' /\ stack' # <<>>
    BY <1>1, <1>3, SameTypeStep DEF Skip
  <1>6. TypeOK'
    BY <1>4 DEF IInv, TypeOK, Skip, hookVars
  <1>7. FreedInTime'
    BY <1>1, <1>5 DEF IInv, FreedInTime, Skip, hookVars, Linked
  <1>8. QED
    BY <1>4, <1>5, <1>6, <1>7 DEF IInv

(***************************************************************************)
(* One turn of the loop that calls the hook.                               *)
(***************************************************************************)
LEMMA CallStep ==
  ASSUME IInv, Call
  PROVE  IInv'
  <1> DEFINE f == [Top EXCEPT !.next = NextHook(list[Top.type], Top.ptr),
                              !.calling = TRUE,
                              !.seen = @ \cup {Top.ptr}]
  <1>1. stack # <<>> /\ Top.ptr # NoHook /\ UNCHANGED list /\ stack' = SetTop(f)
    BY DEF Call, Visiting
  <1>2. /\ Top \in Frame /\ PointersOf(Top)
        /\ Nodes(list[Top.type]) \subseteq Hooks
        /\ NextHook(list[Top.type], Top.ptr)
             \in Nodes(list[Top.type]) \cup {NoHook}
    BY <1>1, TopFacts
  <1>3. f \in Frame /\ PointersOf(f) /\ f.type = Top.type
    <2>1. f \in Frame /\ f.type = Top.type
      BY <1>1, <1>2 DEF Frame
    <2>2. f.ptr = Top.ptr /\ f.next = NextHook(list[Top.type], Top.ptr)
      BY <1>2 DEF Frame
    <2>3. QED
      BY <1>1, <1>2, <2>1, <2>2 DEF PointersOf
  <1> HIDE DEF f
  <1>4. stack' \in Seq(Frame) /\ PointersAreLinked'
    BY <1>1, <1>3, TopStep
  <1>5. RecursionCountsWalks' /\ OutermostIsGuarded' /\ stack' # <<>>
    BY <1>1, <1>3, SameTypeStep DEF Call
  <1>6. running' \in [Hooks -> Int] /\ fired' \in [Hooks -> Nat]
    <2>1. Top.ptr \in Hooks
      BY <1>1, <1>2 DEF Frame
    <2>2. running' = [running EXCEPT ![Top.ptr] = 1]
      BY DEF Call
    <2>3. fired' = [fired EXCEPT ![Top.ptr] = fired[Top.ptr] + 1] \/ fired' = fired
      BY DEF Call
    <2>4. running \in [Hooks -> Int] /\ fired \in [Hooks -> Nat]
      BY DEF IInv, TypeOK
    <2>5. QED
      BY <2>1, <2>2, <2>3, <2>4
  <1>7. TypeOK'
    BY <1>4, <1>6 DEF IInv, TypeOK, Call
  <1>8. FreedInTime'
    BY <1>1, <1>5 DEF IInv, FreedInTime, Call, Linked
  <1>9. QED
    BY <1>4, <1>5, <1>7, <1>8 DEF IInv

(***************************************************************************)
(* The end of a walk over the command_run hooks, which did not count.      *)
(***************************************************************************)
LEMMA CommandRunEnds ==
  ASSUME IInv, stack # <<>>, Top.type = "command_run", stack' = Pop,
         UNCHANGED hook_exec_recursion
  PROVE  RecursionCountsWalks' /\ stack' # <<>>
  <1>1. stack \in Seq(Frame)
    BY DEF IInv, TypeOK
  <1>2. Len(stack) \notin Guarded(stack)
    BY DEF Top, Guarded
  <1>3. /\ Guarded(stack') = Guarded(stack) \ {Len(stack)}
        /\ DOMAIN stack' = 1 .. Len(stack) - 1
    BY <1>1, PopKeeps DEF Pop
  <1>4. RecursionCountsWalks'
    BY <1>2, <1>3 DEF IInv, RecursionCountsWalks
  <1>5. Len(stack) # 1
    BY DEF IInv, OutermostIsGuarded, Top
  <1>6. 1 \in DOMAIN stack'
    <2> DEFINE n == Len(stack)
    <2>1. n \in Nat /\ n # 0 /\ n # 1 /\ DOMAIN stack' = 1 .. n - 1
      BY <1>1, <1>3, <1>5
    <2> HIDE DEF n
    <2>2. QED
      BY <2>1
  <1>7. QED
    BY <1>4, <1>6

(***************************************************************************)
(* A callback returns; an ended timer is marked, never freed, here.        *)
(***************************************************************************)
LEMMA ReturnStep ==
  ASSUME IInv, NEW over \in BOOLEAN, Return(over)
  PROVE  IInv'
  <1> DEFINE f == [Top EXCEPT !.ptr = IF over THEN NoHook ELSE Resume,
                              !.next = NoHook,
                              !.calling = FALSE,
                              !.start = IF over THEN {} ELSE @]
             h == Top.ptr
  <1>1. stack # <<>>
    BY DEF Return
  <1>2. /\ Top \in Frame /\ PointersOf(Top) /\ ~purging
        /\ Nodes(list[Top.type]) \subseteq Hooks
        /\ hook_exec_recursion > 0
    BY <1>1, TopFacts
  <1>3. /\ UNCHANGED list
        /\ \/ UNCHANGED <<deleted, real_delete_pending>>
           \/ /\ deleted' = deleted \cup {h} /\ real_delete_pending' = TRUE
              /\ LastCall(h)
    BY <1>2 DEF Return, FreeOrMark
  <1>4. deleted' \subseteq Linked
    <2>1. CASE UNCHANGED deleted
      BY <2>1 DEF IInv, FreedInTime
    <2>2. CASE deleted' = deleted \cup {h} /\ LastCall(h)
      <3>1. Top.type \in Types /\ (h \in Hooks => h \in Nodes(list[Top.type]))
        BY <1>2, HooksAssumption DEF Frame, PointersOf
      <3>2. h # NoHook => h \in Linked
        BY <1>2, <3>1 DEF Linked, Frame
      <3>3. h # NoHook
        BY <1>1, <1>2 DEF Return, PointersOf
      <3>4. QED
        BY <2>2, <3>2, <3>3 DEF IInv, FreedInTime
    <2>3. QED
      BY <1>3, <2>1, <2>2
  <1>5. h \in Hooks /\ h # NoHook
    BY <1>1, <1>2 DEF Return, PointersOf, Frame
  <1>6. /\ running' \in [Hooks -> Int] /\ remaining' \in [Hooks -> Nat]
        /\ deleted' \in SUBSET Hooks
    <2>1. /\ running \in [Hooks -> Int] /\ remaining \in [Hooks -> Nat]
          /\ deleted \in SUBSET Hooks
      BY DEF IInv, TypeOK
    <2>2. running' = [running EXCEPT ![h] = 0]
      BY DEF Return, LeaveHook
    <2>3. \/ remaining' = remaining
          \/ remaining[h] > 0 /\ remaining' = [remaining EXCEPT ![h] = remaining[h] - 1]
      BY DEF Return, CountCall
    <2>4. QED
      BY <1>3, <1>5, <2>1, <2>2, <2>3
  <1>7. /\ stack' \in Seq(Frame) /\ stack' # <<>>
        /\ PointersAreLinked' /\ RecursionCountsWalks' /\ OutermostIsGuarded'
    <2>1. CASE over /\ Top.type = "command_run"
      <3>1. stack' = Pop /\ UNCHANGED hook_exec_recursion
        BY <2>1 DEF Return
      <3>2. /\ stack' \in Seq(Frame)
            /\ PointersAreLinked' /\ OutermostIsGuarded'
        BY <1>1, <1>3, <3>1, PopStep
      <3>3. RecursionCountsWalks' /\ stack' # <<>>
        BY <1>1, <2>1, <3>1, CommandRunEnds
      <3>4. QED
        BY <3>2, <3>3
    <2>2. CASE ~ (over /\ Top.type = "command_run")
      <3>1. stack' = SetTop(f) /\ UNCHANGED hook_exec_recursion
        BY <2>2 DEF Return
      <3>2. f \in Frame /\ f.type = Top.type /\ f.calling = FALSE
            /\ f.ptr \in {NoHook, Top.next} /\ f.next = NoHook
        BY <1>2 DEF Frame, Resume
      <3>3. PointersOf(f)
        BY <1>2, <3>2 DEF PointersOf
      <3> HIDE DEF f
      <3>4. QED
        BY <1>1, <1>3, <3>1, <3>2, <3>3, TopStep, SameTypeStep
    <2>3. QED
      BY <2>1, <2>2
  <1>8. FreedInTime' /\ real_delete_pending' \in BOOLEAN
    <2>1. UNCHANGED purging /\ Linked' = Linked
      BY <1>3 DEF Return, Linked
    <2>2. QED
      BY <1>2, <1>3, <1>4, <1>7, <2>1 DEF IInv, FreedInTime, TypeOK
  <1>9. TypeOK'
    BY <1>3, <1>6, <1>7, <1>8 DEF IInv, TypeOK, Return
  <1>10. QED
    BY <1>7, <1>8, <1>9 DEF IInv

(***************************************************************************)
(* A walk that counted is over: hook_exec_end().                           *)
(***************************************************************************)
LEMMA FinishStep ==
  ASSUME IInv, Finish
  PROVE  IInv'
  <1>1. /\ stack # <<>> /\ ~purging /\ Top.type # "command_run"
        /\ stack' = Pop /\ ExecEnd
        /\ UNCHANGED <<list, deleted, real_delete_pending>>
    BY DEF Finish, Visiting, hookVars
  <1>2. /\ stack' \in Seq(Frame) /\ PointersAreLinked' /\ OutermostIsGuarded'
        /\ RecursionCountsWalks' /\ FreedInTime'
        /\ hook_exec_recursion' \in Nat /\ purging' \in BOOLEAN
    BY <1>1, PopStep, ExecEndStep
  <1>3. TypeOK'
    BY <1>2 DEF IInv, TypeOK, Finish, hookVars
  <1>4. QED
    BY <1>2, <1>3 DEF IInv

(***************************************************************************)
(* A command that names no hook: an outer walk is active, nothing is freed.*)
(***************************************************************************)
LEMMA CommandNotFoundStep ==
  ASSUME IInv, CommandNotFound
  PROVE  IInv'
  <1>1. /\ stack # <<>> /\ ~purging /\ Top.type = "command_run"
        /\ stack' = Pop
        /\ UNCHANGED <<list, deleted, real_delete_pending>>
        /\ UNCHANGED hook_exec_recursion
        /\ purging' = (hook_exec_recursion = 0 /\ real_delete_pending)
    BY DEF CommandNotFound, Visiting, hookVars
  <1>2. stack' \in Seq(Frame) /\ PointersAreLinked' /\ OutermostIsGuarded'
    BY <1>1, PopStep
  <1>3. RecursionCountsWalks' /\ stack' # <<>>
    BY <1>1, CommandRunEnds
  <1>4. purging' = FALSE
    <2>1. hook_exec_recursion > 0 /\ hook_exec_recursion \in Nat
      BY <1>1, TopFacts DEF IInv, TypeOK
    <2>2. hook_exec_recursion # 0
      BY <2>1
    <2>3. purging' = (FALSE /\ real_delete_pending)
      BY <1>1, <2>2, Zenon
    <2>4. QED
      BY <2>3
  <1>5. TypeOK'
    BY <1>2, <1>4 DEF IInv, TypeOK, CommandNotFound, hookVars
  <1>6. FreedInTime'
    BY <1>1, <1>3, <1>4 DEF IInv, FreedInTime, Linked
  <1>7. QED
    BY <1>2, <1>3, <1>5, <1>6 DEF IInv

(***************************************************************************)
(* hook_command_exec() counts from the moment it looks for the command.    *)
(***************************************************************************)
LEMMA CommandFoundStep ==
  ASSUME IInv, NEW h \in Hooks, CommandFound(h)
  PROVE  IInv'
  <1> DEFINE f == [type |-> "command", ptr |-> h, next |-> NoHook,
                   calling |-> TRUE, start |-> {}, seen |-> {}]
  <1>1. /\ stack # <<>> /\ Top.type = "command_run"
        /\ stack' = SetTop(f) /\ UNCHANGED list
        /\ hook_exec_recursion' = hook_exec_recursion + 1
        /\ "command" \in Types /\ h \in Nodes(list["command"])
    BY DEF CommandFound, Visiting, Alive
  <1>2. f \in Frame /\ PointersOf(f) /\ f.type = "command"
    <2>1. f \in Frame
      BY <1>1 DEF Frame
    <2>2. PointersOf(f)
      BY <1>1, HooksAssumption DEF PointersOf
    <2>3. QED
      BY <2>1, <2>2
  <1> HIDE DEF f
  <1>3. stack' \in Seq(Frame) /\ PointersAreLinked'
    BY <1>1, <1>2, TopStep
  <1>4. stack \in Seq(Frame)
    BY DEF IInv, TypeOK
  <1>5. /\ Guarded(stack') = Guarded(stack) \cup {Len(stack)}
        /\ stack' # <<>> /\ DOMAIN stack' = DOMAIN stack
        /\ \A i \in DOMAIN stack :
              stack'[i] = IF i = Len(stack) THEN f ELSE stack[i]
    BY <1>1, <1>2, <1>4, SetTopKeeps DEF SetTop
  <1>6. RecursionCountsWalks'
    <2>1. IsFiniteSet(Guarded(stack))
      BY <1>4, GuardedFinite
    <2>2. Len(stack) \notin Guarded(stack)
      BY <1>1 DEF Guarded, Top
    <2>3. Cardinality(Guarded(stack')) = Cardinality(Guarded(stack)) + 1
      BY <1>5, <2>1, <2>2, FS_AddElement
    <2>4. QED
      BY <1>1, <2>3 DEF IInv, RecursionCountsWalks
  <1>7. OutermostIsGuarded'
    <2>1. 1 \in DOMAIN stack
      BY <1>1, <1>4
    <2>2. stack'[1] = f \/ stack'[1] = stack[1]
      BY <1>5, <2>1
    <2>3. QED
      BY <1>1, <1>2, <2>2 DEF IInv, OutermostIsGuarded
  <1>8. TypeOK'
    <2>1. running \in [Hooks -> Int] /\ hook_exec_recursion \in Nat
      BY DEF IInv, TypeOK
    <2>2. running' = [running EXCEPT ![h] = running[h] + 1]
      BY DEF CommandFound
    <2>3. running' \in [Hooks -> Int] /\ hook_exec_recursion' \in Nat
      BY <1>1, <2>1, <2>2
    <2>4. QED
      BY <1>3, <2>3 DEF IInv, TypeOK, CommandFound
  <1>9. FreedInTime'
    BY <1>1, <1>5 DEF IInv, FreedInTime, CommandFound, Linked
  <1>10. QED
    BY <1>3, <1>6, <1>7, <1>8, <1>9 DEF IInv

(***************************************************************************)
(* The callback of a command returns: hook_exec_end().                     *)
(***************************************************************************)
LEMMA CommandReturnStep ==
  ASSUME IInv, CommandReturn
  PROVE  IInv'
  <1>1. /\ stack # <<>> /\ ~purging /\ Top.type # "command_run"
        /\ Top.calling
        /\ stack' = Pop /\ ExecEnd
        /\ UNCHANGED <<list, deleted, real_delete_pending>>
    BY DEF CommandReturn
  <1>2. /\ stack' \in Seq(Frame) /\ PointersAreLinked' /\ OutermostIsGuarded'
        /\ RecursionCountsWalks' /\ FreedInTime'
        /\ hook_exec_recursion' \in Nat /\ purging' \in BOOLEAN
    BY <1>1, PopStep, ExecEndStep
  <1>3. running' \in [Hooks -> Int]
    <2>1. Top.ptr \in Hooks
      BY <1>1, TopFacts DEF Frame, PointersOf
    <2>2. running' = [running EXCEPT ![Top.ptr] = running[Top.ptr] - 1]
      BY DEF CommandReturn
    <2>3. running \in [Hooks -> Int]
      BY DEF IInv, TypeOK
    <2>4. QED
      BY <2>1, <2>2, <2>3
  <1>4. TypeOK'
    BY <1>2, <1>3 DEF IInv, TypeOK, CommandReturn
  <1>5. QED
    BY <1>2, <1>4 DEF IInv

(***************************************************************************)
(* hook_remove_deleted() frees hooks only when there is no walk at all.    *)
(***************************************************************************)
LEMMA PurgeOneStep ==
  ASSUME IInv, PurgeOne
  PROVE  IInv'
  <1>0. PICK t \in Types : \E i \in DOMAIN list[t] :
          /\ list[t][i] \in deleted
          /\ list' = [list EXCEPT ![t] = RemoveNode(list[t], i)]
          /\ deleted' = deleted \ {list[t][i]}
    BY DEF PurgeOne
  <1>1. PICK i \in DOMAIN list[t] :
          /\ list[t][i] \in deleted
          /\ list' = [list EXCEPT ![t] = RemoveNode(list[t], i)]
          /\ deleted' = deleted \ {list[t][i]}
    BY <1>0
  <1>2. /\ list \in [Types -> Seq(Hooks)]
        /\ stack = <<>> /\ UNCHANGED <<stack, purging, hook_exec_recursion,
                                       real_delete_pending>>
        /\ purging /\ hook_exec_recursion = 0
    BY DEF IInv, TypeOK, FreedInTime, PurgeOne
  <1>3. list[t] \in Seq(Hooks)
    BY <1>2
  <1>4. /\ RemoveNode(list[t], i) \in Seq(Hooks)
        /\ Nodes(list[t]) \ {list[t][i]} \subseteq Nodes(RemoveNode(list[t], i))
    BY <1>3, RemoveNodeKeeps
  <1>5. list' \in [Types -> Seq(Hooks)]
    BY <1>1, <1>2, <1>4
  <1>6. Linked \ {list[t][i]} \subseteq Linked'
    <2> SUFFICES ASSUME NEW u \in Types, NEW x \in Nodes(list[u]),
                        x # list[t][i]
                 PROVE  x \in Nodes(list'[u])
      BY DEF Linked
    <2>1. CASE u = t
      BY <1>1, <1>2, <1>4, <2>1
    <2>2. CASE u # t
      BY <1>1, <1>2, <2>2
    <2>3. QED
      BY <2>1, <2>2
  <1>7. TypeOK'
    BY <1>1, <1>2, <1>5 DEF IInv, TypeOK, PurgeOne
  <1>8. FreedInTime'
    BY <1>1, <1>2, <1>6 DEF IInv, FreedInTime
  <1>9. QED
    BY <1>2, <1>7, <1>8 DEF IInv, PointersAreLinked, RecursionCountsWalks,
       OutermostIsGuarded

(***************************************************************************)
(* hook_remove_deleted() ends when no marked hook is left.                 *)
(***************************************************************************)
LEMMA PurgeEndStep ==
  ASSUME IInv, PurgeEnd
  PROVE  IInv'
  <1>1. /\ UNCHANGED <<list, deleted, stack, hook_exec_recursion>>
        /\ real_delete_pending' = FALSE /\ purging' = FALSE
        /\ Linked \cap deleted = {}
    BY DEF PurgeEnd, hookVars
  <1>2. deleted' = {}
    BY <1>1 DEF IInv, FreedInTime
  <1>3. TypeOK'
    BY <1>1 DEF IInv, TypeOK, PurgeEnd, hookVars
  <1>4. FreedInTime'
    BY <1>1, <1>2 DEF FreedInTime
  <1>5. QED
    BY <1>1, <1>3, <1>4 DEF IInv, PointersAreLinked, PointersOf,
       RecursionCountsWalks, OutermostIsGuarded

(***************************************************************************)
(* Every step keeps the invariant.                                         *)
(***************************************************************************)
LEMMA IInvStep ==
  ASSUME IInv, [Next]_vars, ~TopLevelCommands
  PROVE  IInv'
  <1>1. ASSUME NEW t \in Types, NEW h \in Hooks, NEW c \in CommandNames,
               NEW p \in Priorities, NEW n \in MaxCallsValues,
               AddHook(t, h, c, p, n)
        PROVE  IInv'
    BY <1>1, AddHookStep
  <1>2. ASSUME NEW h \in Hooks, Unhook(h)
        PROVE  IInv'
    BY <1>2, UnhookStep
  <1>3. ASSUME NEW t \in Types, Exec(t)
        PROVE  IInv'
    BY <1>3, ExecStep
  <1>4. CASE ExecCommand
    BY <1>4, ExecCommandStep
  <1>5. CASE Skip
    BY <1>5, SkipStep
  <1>6. CASE Call
    BY <1>6, CallStep
  <1>7. ASSUME NEW over \in BOOLEAN, Return(over)
        PROVE  IInv'
    BY <1>7, ReturnStep
  <1>8. CASE Finish
    BY <1>8, FinishStep
  <1>9. CASE CommandNotFound
    BY <1>9, CommandNotFoundStep
  <1>10. ASSUME NEW h \in Hooks, CommandFound(h)
         PROVE  IInv'
    BY <1>10, CommandFoundStep
  <1>11. CASE CommandReturn
    BY <1>11, CommandReturnStep
  <1>12. CASE PurgeOne
    BY <1>12, PurgeOneStep
  <1>13. CASE PurgeEnd
    BY <1>13, PurgeEndStep
  <1>14. CASE UNCHANGED vars
    BY <1>14 DEF vars, IInv, TypeOK, PointersAreLinked, PointersOf,
       RecursionCountsWalks, OutermostIsGuarded, FreedInTime, Linked
  <1>15. QED
    BY <1>1, <1>2, <1>3, <1>4, <1>5, <1>6, <1>7, <1>8, <1>9, <1>10, <1>11,
       <1>12, <1>13, <1>14 DEF Next, Callbacks, Walks

(***************************************************************************)
(* The invariant holds in every state, when no command runs outside a      *)
(* callback.                                                               *)
(***************************************************************************)
THEOREM IInvIsInvariant ==
  ASSUME ~TopLevelCommands
  PROVE  Spec => []IInv
  <1>1. Init => IInv
    BY IInvInit
  <1>2. IInv /\ [Next]_vars => IInv'
    BY IInvStep
  <1>3. QED
    BY <1>1, <1>2, PTL DEF Spec

(***************************************************************************)
(* Every variable of the hooks keeps its type; hook_exec_recursion is      *)
(* never negative.                                                         *)
(***************************************************************************)
THEOREM TypeCorrect ==
  ASSUME ~TopLevelCommands
  PROVE  Spec => []TypeOK
  <1>1. IInv => TypeOK
    BY DEF IInv
  <1>2. QED
    BY <1>1, IInvIsInvariant, PTL

(***************************************************************************)
(* Deferring the deletion is enough: whatever the callbacks remove, no     *)
(* walk of hook_*_exec() holds a pointer to a hook that was freed.         *)
(***************************************************************************)
THEOREM NoWalkDangles ==
  ASSUME ~TopLevelCommands
  PROVE  Spec => []NoDanglingWalk
  <1>1. IInv => NoDanglingWalk
    BY DEF IInv, PointersAreLinked, PointersOf, NoDanglingWalk
  <1>2. QED
    BY <1>1, IInvIsInvariant, PTL

(***************************************************************************)
(* Deferring the deletion does not leak: when the last walk has ended,     *)
(* hook_remove_deleted() has freed every hook that was unhooked.           *)
(***************************************************************************)
THEOREM DeletedAreFreed ==
  ASSUME ~TopLevelCommands
  PROVE  Spec => []NothingLeftDeleted
  <1>1. IInv => NothingLeftDeleted
    BY DEF IInv, FreedInTime, NothingLeftDeleted, TypeOK
  <1>2. QED
    BY <1>1, IInvIsInvariant, PTL
-----------------------------------------------------------------------------
(* The order of a list. *)

(***************************************************************************)
(* The place of a hook, and the hook after it, when none is linked twice.  *)
(***************************************************************************)
LEMMA Places ==
  ASSUME NEW H, NEW s \in Seq(H), IsList(s), NEW k \in DOMAIN s
  PROVE  /\ IndexOf(s, s[k]) = k
         /\ NextHook(s, s[k]) = IF k = Len(s) THEN NoHook ELSE s[k + 1]
  <1>1. \E i \in DOMAIN s : s[i] = s[k]
    OBVIOUS
  <1>2. IndexOf(s, s[k]) \in DOMAIN s /\ s[IndexOf(s, s[k])] = s[k]
    BY <1>1 DEF IndexOf
  <1>3. IndexOf(s, s[k]) = k
    BY <1>2 DEF IsList
  <1>4. QED
    BY <1>3 DEF NextHook

LEMMA BeforeOrder ==
  ASSUME NEW H, NEW s \in Seq(H), IsList(s)
  PROVE  /\ \A x : ~Before(s, x, x)
         /\ \A x, y : Before(s, x, y) => x \in Nodes(s) /\ y \in Nodes(s)
         /\ \A x, y, z : Before(s, x, y) /\ Before(s, y, z) => Before(s, x, z)
  <1>1. DOMAIN s \subseteq Nat
    OBVIOUS
  <1>2. ASSUME NEW x, Before(s, x, x)
        PROVE  FALSE
    <2>1. PICK i, j \in DOMAIN s : i < j /\ s[i] = x /\ s[j] = x
      BY <1>2 DEF Before
    <2>2. i = j
      BY <2>1 DEF IsList
    <2>3. QED
      BY <1>1, <2>1, <2>2
  <1>3. ASSUME NEW x, NEW y, Before(s, x, y)
        PROVE  x \in Nodes(s) /\ y \in Nodes(s)
    BY <1>3 DEF Before, Nodes
  <1>4. ASSUME NEW x, NEW y, NEW z, Before(s, x, y), Before(s, y, z)
        PROVE  Before(s, x, z)
    <2>1. PICK i, j \in DOMAIN s : i < j /\ s[i] = x /\ s[j] = y
      BY <1>4 DEF Before
    <2>2. PICK k, l \in DOMAIN s : k < l /\ s[k] = y /\ s[l] = z
      BY <1>4 DEF Before
    <2>3. j = k
      BY <2>1, <2>2 DEF IsList
    <2>4. i < l
      BY <1>1, <2>1, <2>2, <2>3
    <2>5. QED
      BY <2>1, <2>2, <2>4 DEF Before
  <1>5. QED
    BY <1>2, <1>3, <1>4

(***************************************************************************)
(* The head is before all others; next_hook comes right after a hook.      *)
(***************************************************************************)
LEMMA HeadIsFirst ==
  ASSUME NEW s \in Seq(Hooks), NEW x \in Nodes(s)
  PROVE  HeadOf(s) # NoHook /\ (x = HeadOf(s) \/ Before(s, HeadOf(s), x))
  <1>1. PICK i \in DOMAIN s : s[i] = x
    BY DEF Nodes
  <1>2. 1 \in DOMAIN s /\ (i = 1 \/ 1 < i) /\ s # <<>> /\ s[1] \in Hooks
    BY <1>1
  <1>3. HeadOf(s) = s[1]
    BY <1>2 DEF HeadOf
  <1>4. QED
    BY <1>1, <1>2, <1>3, HooksAssumption DEF Before

LEMMA NextIsRightAfter ==
  ASSUME NEW s \in Seq(Hooks), IsList(s), NEW h \in Nodes(s),
         NEW n, n = NextHook(s, h)
  PROVE  /\ n # NoHook => Before(s, h, n)
         /\ \A x : Before(s, h, x) => n # NoHook /\ (x = n \/ Before(s, n, x))
  <1>1. PICK k \in DOMAIN s : s[k] = h
    BY DEF Nodes
  <1>2. /\ k \in Nat /\ Len(s) \in Nat /\ DOMAIN s = 1 .. Len(s)
        /\ n = IF k = Len(s) THEN NoHook ELSE s[k + 1]
    BY <1>1, Places
  <1>3. n # NoHook => Before(s, h, n)
    <2>1. k # Len(s) => k + 1 \in DOMAIN s /\ k < k + 1
      BY <1>2
    <2>2. QED
      BY <1>1, <1>2, <2>1 DEF Before
  <1>4. ASSUME NEW x, Before(s, h, x)
        PROVE  n # NoHook /\ (x = n \/ Before(s, n, x))
    <2>1. PICK i, j \in DOMAIN s : i < j /\ s[i] = h /\ s[j] = x
      BY <1>4 DEF Before
    <2>2. i = k
      BY <1>1, <2>1 DEF IsList
    <2>3. /\ k # Len(s) /\ k + 1 \in DOMAIN s
          /\ j = k + 1 \/ k + 1 < j
      BY <1>2, <2>1, <2>2
    <2>4. n = s[k + 1] /\ n \in Hooks
      BY <1>2, <2>3
    <2>5. QED
      BY <2>1, <2>3, <2>4, HooksAssumption DEF Before
  <1>5. QED
    BY <1>3, <1>4

(***************************************************************************)
(* A list that is placed inside another one, in order, orders its hooks    *)
(* the same way and links none twice.                                      *)
(***************************************************************************)
LEMMA Embedding ==
  ASSUME NEW r, NEW s, NEW at,
         \A k \in DOMAIN r : at[k] \in DOMAIN s /\ s[at[k]] = r[k],
         \A k, l \in DOMAIN r : k < l => at[k] < at[l]
  PROVE  \A x, y : Before(r, x, y) => Before(s, x, y)
  <1> SUFFICES ASSUME NEW x, NEW y, Before(r, x, y)
               PROVE  Before(s, x, y)
    OBVIOUS
  <1>1. PICK k, l \in DOMAIN r : k < l /\ r[k] = x /\ r[l] = y
    BY DEF Before
  <1>2. at[k] < at[l]
    BY <1>1
  <1>3. at[k] \in DOMAIN s /\ at[l] \in DOMAIN s
    BY <1>1
  <1>4. s[at[k]] = x /\ s[at[l]] = y
    BY <1>1
  <1>5. QED
    BY <1>2, <1>3, <1>4 DEF Before

(***************************************************************************)
(* A list placed inside a list that links no hook twice has none twice.    *)
(***************************************************************************)
LEMMA EmbeddedIsList ==
  ASSUME NEW r, NEW s, NEW at,
         IsList(s),
         \A k \in DOMAIN r : at[k] \in DOMAIN s /\ s[at[k]] = r[k],
         \A k, l \in DOMAIN r : at[k] = at[l] => k = l
  PROVE  IsList(r)
  <1> SUFFICES ASSUME NEW k \in DOMAIN r, NEW l \in DOMAIN r, r[k] = r[l]
               PROVE  k = l
    BY DEF IsList
  <1>1. /\ at[k] \in DOMAIN s /\ s[at[k]] = r[k]
        /\ at[l] \in DOMAIN s /\ s[at[l]] = r[l]
    OBVIOUS
  <1>2. at[k] = at[l]
    BY <1>1 DEF IsList
  <1>3. QED
    BY <1>2
\* r is s, a list of n hooks, with h put in at position i.
PutIn(s, n, r, i, h) ==
  /\ n \in Nat /\ i \in 1 .. n + 1
  /\ DOMAIN s = 1 .. n /\ DOMAIN r = 1 .. n + 1
  /\ \A k \in DOMAIN s : s[k] # h
  /\ r[i] = h
  /\ \A k \in DOMAIN r : /\ k < i => r[k] = s[k]
                         /\ i < k => r[k] = s[k - 1]

(***************************************************************************)
(* A hook put in changes neither the order of the others nor their number. *)
(***************************************************************************)
LEMMA OneMore ==
  ASSUME NEW s, NEW n, NEW r, NEW i, NEW h, PutIn(s, n, r, i, h), IsList(s)
  PROVE  /\ IsList(r)
         /\ \A x, y : Before(s, x, y) => Before(r, x, y)
         /\ \A x, y : Before(r, x, y) =>
              \/ Before(s, x, y)
              \/ x = h /\ \E k \in DOMAIN s : i <= k /\ s[k] = y
              \/ y = h /\ \E k \in DOMAIN s : k < i /\ s[k] = x
  <1> USE DEF PutIn
  <1>1. ASSUME NEW k \in DOMAIN r, NEW l \in DOMAIN r, k < l
        PROVE  \/ k < i /\ l < i
               \/ k < i /\ l = i
               \/ k < i /\ i < l
               \/ k = i /\ i < l
               \/ i < k /\ i < l
    BY <1>1
  <1>2. \A k \in DOMAIN r : /\ k < i => k \in DOMAIN s
                            /\ i < k => k - 1 \in DOMAIN s /\ i <= k - 1
    OBVIOUS
  <1>3. ASSUME NEW k \in DOMAIN r, NEW l \in DOMAIN r, k < l
        PROVE  r[k] # r[l]
    <2>1. CASE k < i /\ l < i
      BY <1>2, <1>3, <2>1 DEF IsList
    <2>2. CASE k < i /\ l = i
      BY <1>2, <2>2
    <2>3. CASE k < i /\ i < l
      <3>1. r[k] = s[k] /\ r[l] = s[l - 1] /\ k \in DOMAIN s /\ l - 1 \in DOMAIN s
        BY <1>2, <2>3
      <3>2. k # l - 1
        BY <2>3
      <3>3. QED
        BY <3>1, <3>2 DEF IsList
    <2>4. CASE k = i /\ i < l
      BY <1>2, <2>4
    <2>5. CASE i < k /\ i < l
      <3>1. /\ r[k] = s[k - 1] /\ r[l] = s[l - 1]
            /\ k - 1 \in DOMAIN s /\ l - 1 \in DOMAIN s
        BY <1>2, <2>5
      <3>2. k - 1 # l - 1
        BY <1>3
      <3>3. QED
        BY <3>1, <3>2 DEF IsList
    <2>6. QED
      BY <1>1, <1>3, <2>1, <2>2, <2>3, <2>4, <2>5
  <1>4. IsList(r)
    <2>1. \A k, l \in DOMAIN r : k < l \/ k = l \/ l < k
      OBVIOUS
    <2>2. QED
      BY <1>3, <2>1 DEF IsList
  <1>5. \A x, y : Before(s, x, y) => Before(r, x, y)
    <2> DEFINE up == [k \in DOMAIN s |-> IF k < i THEN k ELSE k + 1]
    <2>1. \A k \in DOMAIN s : up[k] \in DOMAIN r /\ r[up[k]] = s[k]
      OBVIOUS
    <2>2. \A k, l \in DOMAIN s : k < l => up[k] < up[l]
      OBVIOUS
    <2> HIDE DEF up
    <2>3. QED
      BY <2>1, <2>2, Embedding
  <1>6. ASSUME NEW x, NEW y, Before(r, x, y)
        PROVE  \/ Before(s, x, y)
               \/ x = h /\ \E k \in DOMAIN s : i <= k /\ s[k] = y
               \/ y = h /\ \E k \in DOMAIN s : k < i /\ s[k] = x
    <2>1. PICK k, l \in DOMAIN r : k < l /\ r[k] = x /\ r[l] = y
      BY <1>6 DEF Before
    <2>2. CASE k < i /\ l < i
      BY <1>2, <2>1, <2>2 DEF Before
    <2>3. CASE k < i /\ l = i
      BY <1>2, <2>1, <2>3
    <2>4. CASE k < i /\ i < l
      <3>1. /\ s[k] = x /\ s[l - 1] = y
            /\ k \in DOMAIN s /\ l - 1 \in DOMAIN s /\ k < l - 1
        BY <1>2, <2>1, <2>4
      <3>2. QED
        BY <3>1 DEF Before
    <2>5. CASE k = i /\ i < l
      <3>1. s[l - 1] = y /\ l - 1 \in DOMAIN s /\ i <= l - 1
        BY <1>2, <2>1, <2>5
      <3>2. QED
        BY <2>1, <2>5, <3>1
    <2>6. CASE i < k /\ i < l
      <3>1. /\ s[k - 1] = x /\ s[l - 1] = y
            /\ k - 1 \in DOMAIN s /\ l - 1 \in DOMAIN s /\ k - 1 < l - 1
        BY <1>2, <2>1, <2>6
      <3>2. QED
        BY <3>1 DEF Before
    <2>7. QED
      BY <1>1, <2>1, <2>2, <2>3, <2>4, <2>5, <2>6
  <1>7. QED
    BY <1>4, <1>5, <1>6


(***************************************************************************)
(* hook_add_to_list() keeps the order of the hooks there are: those before *)
(* the position are before the new hook, the others after it.              *)
(***************************************************************************)
LEMMA InsertKeepsOrder ==
  ASSUME NEW H, NEW s \in Seq(H), IsList(s), NEW i \in 1 .. Len(s) + 1,
         NEW h \in H, h \notin Nodes(s)
  PROVE  LET r == InsertNode(s, i, h) IN
         /\ IsList(r)
         /\ \A x, y : Before(s, x, y) => Before(r, x, y)
         /\ \A x, y : Before(r, x, y) =>
              \/ Before(s, x, y)
              \/ x = h /\ \E k \in DOMAIN s : i <= k /\ s[k] = y
              \/ y = h /\ \E k \in DOMAIN s : k < i /\ s[k] = x
  <1> DEFINE r == InsertNode(s, i, h)
  <1>1. DOMAIN s = 1 .. Len(s) /\ Len(s) \in Nat
    OBVIOUS
  <1>2. DOMAIN r = 1 .. Len(s) + 1 /\ r[i] = h
    BY <1>1 DEF InsertNode
  <1>3. \A k \in DOMAIN r : /\ k < i => r[k] = s[k]
                            /\ i < k => r[k] = s[k - 1]
    BY <1>1 DEF InsertNode
  <1>4. \A k \in DOMAIN s : s[k] # h
    BY DEF Nodes
  <1> HIDE DEF r
  <1>5. /\ IsList(r)
        /\ \A x, y : Before(s, x, y) => Before(r, x, y)
        /\ \A x, y : Before(r, x, y) =>
             \/ Before(s, x, y)
             \/ x = h /\ \E k \in DOMAIN s : i <= k /\ s[k] = y
             \/ y = h /\ \E k \in DOMAIN s : k < i /\ s[k] = x
    <2>1. PutIn(s, Len(s), r, i, h)
      BY <1>1, <1>2, <1>3, <1>4 DEF PutIn
    <2>2. QED
      BY <2>1, OneMore
  <1>6. QED
    BY <1>5 DEF r

(***************************************************************************)
(* hook_remove_from_list() takes one hook away and keeps the order.        *)
(***************************************************************************)
LEMMA RemoveKeepsOrder ==
  ASSUME NEW H, NEW s \in Seq(H), IsList(s), NEW i \in DOMAIN s
  PROVE  LET r == RemoveNode(s, i) IN
         /\ IsList(r) /\ Nodes(r) = Nodes(s) \ {s[i]}
         /\ \A x, y : Before(r, x, y) => Before(s, x, y)
  <1> DEFINE r == RemoveNode(s, i)
             at == [k \in DOMAIN r |-> IF k < i THEN k ELSE k + 1]
  <1>1. DOMAIN r = 1 .. Len(s) - 1 /\ DOMAIN s = 1 .. Len(s) /\ Len(s) \in Nat
    BY DEF RemoveNode
  <1>2. \A k \in DOMAIN r : at[k] \in DOMAIN s /\ s[at[k]] = r[k] /\ at[k] # i
    BY <1>1 DEF RemoveNode
  <1>3. \A k, l \in DOMAIN r : /\ k < l => at[k] < at[l]
                               /\ at[k] = at[l] => k = l
    BY <1>1
  <1>4. Nodes(s) \ {s[i]} \subseteq Nodes(r)
    BY RemoveNodeKeeps
  <1> HIDE DEF r, at
  <1>5. Nodes(r) \subseteq Nodes(s) \ {s[i]}
    <2> SUFFICES ASSUME NEW k \in DOMAIN r
                 PROVE  r[k] \in Nodes(s) /\ r[k] # s[i]
      BY DEF Nodes
    <2>1. at[k] \in DOMAIN s /\ s[at[k]] = r[k] /\ at[k] # i
      BY <1>2
    <2>2. QED
      BY <2>1 DEF Nodes, IsList
  <1>6. IsList(r)
    BY <1>2, <1>3, EmbeddedIsList
  <1>7. \A x, y : Before(r, x, y) => Before(s, x, y)
    BY <1>2, <1>3, Embedding
  <1>8. QED
    BY <1>4, <1>5, <1>6, <1>7 DEF r
-----------------------------------------------------------------------------
(* One walk. *)

(***************************************************************************)
(* What is added to a list, and what is marked in it, leaves a walk of the *)
(* list on its course.                                                     *)
(***************************************************************************)
LEMMA CourseIsKept ==
  ASSUME NEW s, NEW r, NEW D, NEW E, NEW f, OnCourse(s, D, f),
         Nodes(s) \subseteq Nodes(r), Nodes(s) \ E \subseteq Nodes(s) \ D,
         \A x, y : Before(s, x, y) => Before(r, x, y)
  PROVE  OnCourse(r, E, f)
  <1>1. f.start \subseteq Nodes(r) /\ f.seen \subseteq Nodes(r)
    BY DEF OnCourse
  <1>2. f.start \ (E \cup f.seen) \subseteq f.start \ (D \cup f.seen)
    BY DEF OnCourse
  <1>3. QED
    BY <1>1, <1>2 DEF OnCourse

(***************************************************************************)
(* A walk starts at the head of the list: all is still ahead.              *)
(***************************************************************************)
LEMMA CourseBegins ==
  ASSUME NEW s \in Seq(Hooks), NEW D, NEW f,
         f.ptr = HeadOf(s), f.next = NoHook, f.calling = FALSE,
         f.start = Nodes(s) \ D, f.seen = {}
  PROVE  OnCourse(s, D, f)
  <1>1. Ahead(f) = HeadOf(s)
    BY DEF Ahead
  <1>2. \A x \in Nodes(s) :
           HeadOf(s) # NoHook /\ (x = HeadOf(s) \/ Before(s, HeadOf(s), x))
    BY HeadIsFirst
  <1>3. QED
    BY <1>1, <1>2 DEF OnCourse

(***************************************************************************)
(* A turn of the loop, with or without a call of the callback: next_hook   *)
(* comes right after the hook that was looked at.                          *)
(***************************************************************************)
LEMMA CourseAdvances ==
  ASSUME NEW s \in Seq(Hooks), IsList(s), NEW D, NEW f, OnCourse(s, D, f),
         ~f.calling, f.ptr \in Nodes(s), f.ptr # NoHook,
         NEW g, g.start = f.start, g.seen = f.seen \cup {f.ptr},
         Ahead(g) = NextHook(s, f.ptr), ~g.calling => g.next = NoHook
  PROVE  OnCourse(s, D, g)
  <1> DEFINE n == NextHook(s, f.ptr)
  <1>1. Ahead(f) = f.ptr
    BY DEF Ahead
  <1>2. /\ n # NoHook => Before(s, f.ptr, n)
        /\ \A x : Before(s, f.ptr, x) => n # NoHook /\ (x = n \/ Before(s, n, x))
    BY NextIsRightAfter
  <1>3. \A x \in f.seen : Before(s, x, f.ptr)
    BY <1>1 DEF OnCourse
  <1> HIDE DEF n
  <1>4. n # NoHook => \A x \in g.seen : Before(s, x, n)
    <2> SUFFICES ASSUME n # NoHook, NEW x \in g.seen
                 PROVE  Before(s, x, n)
      OBVIOUS
    <2>1. x = f.ptr \/ Before(s, x, f.ptr)
      BY <1>3
    <2>2. QED
      BY <1>2, <2>1, BeforeOrder
  <1>5. ASSUME NEW x \in g.start \ (D \cup g.seen)
        PROVE  n # NoHook /\ (x = n \/ Before(s, n, x))
    <2>1. x # f.ptr /\ x \in f.start \ (D \cup f.seen)
      OBVIOUS
    <2>2. Before(s, f.ptr, x)
      BY <1>1, <2>1 DEF OnCourse
    <2>3. QED
      BY <1>2, <2>2
  <1>6. g.start \subseteq Nodes(s) /\ g.seen \subseteq Nodes(s)
    BY DEF OnCourse
  <1>7. QED
    BY <1>4, <1>5, <1>6 DEF OnCourse, n

(***************************************************************************)
(* The callback returns: the walk goes on at the hook that it saved.       *)
(***************************************************************************)
LEMMA CourseResumes ==
  ASSUME NEW s, NEW D, NEW f, OnCourse(s, D, f), f.calling,
         NEW g, g.start = f.start, g.seen = f.seen,
         g.ptr = f.next, g.next = NoHook, g.calling = FALSE
  PROVE  OnCourse(s, D, g)
  <1>1. Ahead(g) = Ahead(f)
    BY DEF Ahead
  <1>2. QED
    BY <1>1 DEF OnCourse

(***************************************************************************)
(* A walk that a callback has ended has nothing ahead and nothing to do.   *)
(***************************************************************************)
LEMMA CourseIsOver ==
  ASSUME NEW s, NEW D, NEW g, g.start = {}, g.seen \subseteq Nodes(s),
         g.ptr = NoHook \/ g.calling, g.next = NoHook
  PROVE  OnCourse(s, D, g)
  <1>1. Ahead(g) = NoHook
    BY DEF Ahead
  <1>2. QED
    BY <1>1 DEF OnCourse

(***************************************************************************)
(* A walk on its course looks at no hook twice, and once nothing is ahead, *)
(* it has looked at all that stayed.                                       *)
(***************************************************************************)
LEMMA CourseIsExact ==
  ASSUME NEW s \in Seq(Hooks), IsList(s), NEW D, NEW f, OnCourse(s, D, f)
  PROVE  /\ (~f.calling /\ f.ptr = NoHook) =>
              f.start \cap (Nodes(s) \ D) \subseteq f.seen
         /\ f.next \notin f.seen
         /\ f.calling \/ f.ptr \notin f.seen
  <1>1. NoHook \notin f.seen
    <2>1. Nodes(s) \subseteq Hooks
      BY DEF Nodes
    <2>2. QED
      BY <2>1, HooksAssumption DEF OnCourse
  <1>2. Ahead(f) \notin f.seen
    <2>1. Ahead(f) # NoHook => ~Before(s, Ahead(f), Ahead(f))
      BY BeforeOrder
    <2>2. QED
      BY <1>1, <2>1 DEF OnCourse
  <1>3. f.next \notin f.seen
    BY <1>1, <1>2 DEF OnCourse, Ahead
  <1>4. f.calling \/ f.ptr \notin f.seen
    BY <1>2 DEF Ahead
  <1>5. (~f.calling /\ f.ptr = NoHook) =>
           f.start \cap (Nodes(s) \ D) \subseteq f.seen
    BY DEF OnCourse, Ahead
  <1>6. QED
    BY <1>3, <1>4, <1>5
-----------------------------------------------------------------------------
(* All walks. *)

(***************************************************************************)
(* The frame of a walk that is in a callback points at a hook of its list. *)
(***************************************************************************)
LEMMA FrameFacts ==
  ASSUME IInv, NEW i \in DOMAIN stack
  PROVE  /\ stack[i] \in Frame /\ stack[i].type \in Types
         /\ list[stack[i].type] \in Seq(Hooks)
         /\ stack[i].calling =>
              /\ stack[i].ptr \in Nodes(list[stack[i].type])
              /\ stack[i].ptr \in Linked
  <1>1. stack \in Seq(Frame) /\ list \in [Types -> Seq(Hooks)]
    BY DEF IInv, TypeOK
  <1>2. stack[i] \in Frame
    BY <1>1
  <1>3. stack[i].type \in Types
    BY <1>2 DEF Frame
  <1>4. stack[i].calling => stack[i].ptr \in Nodes(list[stack[i].type])
    BY DEF IInv, PointersAreLinked, PointersOf
  <1>5. QED
    BY <1>1, <1>2, <1>3, <1>4 DEF Linked

(***************************************************************************)
(* The innermost walk changes its frame, or hooks are marked: the walks    *)
(* stay on course if the new frame is.                                     *)
(***************************************************************************)
LEMMA CourseTop ==
  ASSUME IInv, WalksOnCourse, stack # <<>>, UNCHANGED list,
         deleted \subseteq deleted', NEW f \in Frame, stack' = SetTop(f),
         OnCourse(list[f.type], deleted', f)
  PROVE  WalksOnCourse'
  <1>1. /\ DOMAIN stack' = DOMAIN stack
        /\ \A i \in DOMAIN stack :
              stack'[i] = IF i = Len(stack) THEN f ELSE stack[i]
    BY SetTopKeeps DEF IInv, TypeOK, SetTop
  <1>2. ASSUME NEW i \in DOMAIN stack
        PROVE  OnCourse(list[stack'[i].type], deleted', stack'[i])
    <2>1. CASE i = Len(stack)
      BY <1>1, <2>1
    <2>2. CASE i # Len(stack)
      <3>1. OnCourse(list[stack[i].type], deleted, stack[i])
        BY DEF WalksOnCourse
      <3>2. OnCourse(list[stack[i].type], deleted', stack[i])
        BY <3>1, CourseIsKept
      <3>3. QED
        BY <1>1, <2>2, <3>2
    <2>3. QED
      BY <2>1, <2>2
  <1>3. QED
    BY <1>1, <1>2 DEF WalksOnCourse

(***************************************************************************)
(* No frame changes, hooks are marked.                                     *)
(***************************************************************************)
LEMMA CourseMark ==
  ASSUME WalksOnCourse, UNCHANGED <<list, stack>>, deleted \subseteq deleted'
  PROVE  WalksOnCourse'
  <1>1. ASSUME NEW i \in DOMAIN stack
        PROVE  OnCourse(list[stack[i].type], deleted', stack[i])
    <2>1. OnCourse(list[stack[i].type], deleted, stack[i])
      BY DEF WalksOnCourse
    <2>2. QED
      BY <2>1, CourseIsKept
  <1>2. QED
    BY <1>1 DEF WalksOnCourse

(***************************************************************************)
(* A walk starts, on top of the others.                                    *)
(***************************************************************************)
LEMMA CoursePush ==
  ASSUME IInv, WalksOnCourse, UNCHANGED <<list, deleted>>, NEW f \in Frame,
         stack' = Append(stack, f), OnCourse(list[f.type], deleted, f)
  PROVE  WalksOnCourse'
  <1>1. /\ DOMAIN stack' = DOMAIN stack \cup {Len(stack) + 1}
        /\ stack'[Len(stack) + 1] = f
        /\ \A i \in DOMAIN stack : stack'[i] = stack[i]
    BY PushKeeps DEF IInv, TypeOK
  <1>2. ASSUME NEW i \in DOMAIN stack'
        PROVE  OnCourse(list[stack'[i].type], deleted, stack'[i])
    BY <1>1 DEF WalksOnCourse
  <1>3. QED
    BY <1>2 DEF WalksOnCourse

(***************************************************************************)
(* The innermost walk ends; hooks may be marked.                           *)
(***************************************************************************)
LEMMA CoursePop ==
  ASSUME IInv, WalksOnCourse, stack # <<>>, UNCHANGED list,
         deleted \subseteq deleted', stack' = Pop
  PROVE  WalksOnCourse'
  <1>1. \A i \in DOMAIN stack' : i \in DOMAIN stack /\ stack'[i] = stack[i]
    BY PopKeeps DEF IInv, TypeOK, Pop
  <1>2. ASSUME NEW i \in DOMAIN stack'
        PROVE  OnCourse(list[stack'[i].type], deleted', stack'[i])
    <2>1. OnCourse(list[stack[i].type], deleted, stack[i])
      BY <1>1 DEF WalksOnCourse
    <2>2. OnCourse(list[stack[i].type], deleted', stack[i])
      BY <2>1, CourseIsKept
    <2>3. QED
      BY <1>1, <2>2
  <1>3. QED
    BY <1>2 DEF WalksOnCourse

(***************************************************************************)
(* The calls in progress stay counted when those after the step were there *)
(* before it, and it leaves hook->running of their hooks alone.            *)
(***************************************************************************)
LEMMA CallsAreKept ==
  ASSUME CallsCounted,
         \A i \in DOMAIN stack' : Called(stack'[i]) =>
            /\ i \in DOMAIN stack /\ stack'[i] = stack[i]
            /\ running'[stack[i].ptr] = running[stack[i].ptr]
  PROVE  CallsCounted'
  <1>1. ASSUME NEW i \in DOMAIN stack', Called(stack'[i])
        PROVE  /\ running'[stack'[i].ptr] = 1
               /\ \A j \in DOMAIN stack' :
                     Called(stack'[j]) /\ stack'[j].ptr = stack'[i].ptr => j = i
    <2>1. /\ i \in DOMAIN stack /\ stack'[i] = stack[i]
          /\ running'[stack[i].ptr] = running[stack[i].ptr]
      BY <1>1
    <2>2. running[stack[i].ptr] = 1
      BY <1>1, <2>1 DEF CallsCounted
    <2>3. ASSUME NEW j \in DOMAIN stack', Called(stack'[j]),
                 stack'[j].ptr = stack'[i].ptr
          PROVE  j = i
      <3>1. j \in DOMAIN stack /\ stack'[j] = stack[j]
        BY <2>3
      <3>2. QED
        BY <1>1, <2>1, <2>3, <3>1 DEF CallsCounted
    <2>4. QED
      BY <2>1, <2>2, <2>3
  <1>2. QED
    BY <1>1 DEF CallsCounted, Called

(***************************************************************************)
(* Marking hooks leaves the lists and the order of the others.             *)
(***************************************************************************)
LEMMA OrderMark ==
  ASSUME Lists, InOrder, UNCHANGED <<list, priority, command>>, deleted \subseteq deleted'
  PROVE  Lists' /\ InOrder'
  BY DEF Lists, InOrder, Alive, InPlace

(***************************************************************************)
(* A step that leaves the counts of the timers as they are, for the hooks  *)
(* that stay linked.                                                       *)
(***************************************************************************)
LEMMA TimersMark ==
  ASSUME TimersCounted, TimerWithinLimit,
         UNCHANGED <<list, remaining, limit, fired, running>>,
         deleted \subseteq deleted'
  PROVE  TimersCounted' /\ TimerWithinLimit'
  BY DEF TimersCounted, TimerCounted, TimerWithinLimit
-----------------------------------------------------------------------------
(* The steps. *)

(***************************************************************************)
(* Hooks are marked, or leave the lists: those that stay keep their order  *)
(* and their counts.                                                       *)
(***************************************************************************)
LEMMA ListsShrink ==
  ASSUME Courses, UNCHANGED <<priority, command, remaining, running, limit, fired>>,
         \A t \in Types :
            /\ IsList(list'[t])
            /\ Nodes(list'[t]) \subseteq Nodes(list[t])
            /\ Nodes(list'[t]) \ deleted' \subseteq Nodes(list[t]) \ deleted
            /\ \A x, y : Before(list'[t], x, y) => Before(list[t], x, y)
  PROVE  Lists' /\ InOrder' /\ TimersCounted' /\ TimerWithinLimit'
  <1>1. Lists'
    BY DEF Courses, Lists
  <1>2. InOrder'
    BY DEF Courses, InOrder, Alive, InPlace
  <1>3. TimersCounted'
    <2> SUFFICES ASSUME NEW t \in Types, NEW h \in Nodes(list'[t])
                 PROVE  TimerCounted(t, h)'
      BY DEF TimersCounted
    <2>1. TimerCounted(t, h)
      BY DEF Courses, TimersCounted
    <2>2. h \notin deleted' => h \notin deleted
      OBVIOUS
    <2>3. QED
      BY <2>1, <2>2 DEF TimerCounted
  <1>4. TimerWithinLimit'
    BY DEF Courses, TimerWithinLimit
  <1>5. QED
    BY <1>1, <1>2, <1>3, <1>4

(***************************************************************************)
(* One list loses its hook at a position, the others stay.                 *)
(***************************************************************************)
LEMMA OneLeaves ==
  ASSUME IInv, Courses, NEW t \in Types, NEW i \in DOMAIN list[t],
         UNCHANGED <<priority, command, remaining, running, limit, fired>>,
         list' = [list EXCEPT ![t] = RemoveNode(list[t], i)],
         deleted' = deleted \/ deleted' = deleted \ {list[t][i]}
  PROVE  Lists' /\ InOrder' /\ TimersCounted' /\ TimerWithinLimit'
  <1>1. /\ list \in [Types -> Seq(Hooks)] /\ list[t] \in Seq(Hooks)
        /\ IsList(list[t])
    BY DEF IInv, TypeOK, Courses, Lists
  <1>2. /\ IsList(list'[t])
        /\ Nodes(list'[t]) = Nodes(list[t]) \ {list[t][i]}
        /\ \A x, y : Before(list'[t], x, y) => Before(list[t], x, y)
    BY <1>1, RemoveKeepsOrder
  <1>3. \A u \in Types \ {t} : list'[u] = list[u]
    BY <1>1
  <1>4. \A u \in Types \ {t} : list[t][i] \notin Nodes(list[u])
    BY DEF Courses, Lists, Nodes
  <1>5. \A u \in Types : list[t][i] \notin Nodes(list'[u])
    BY <1>2, <1>3, <1>4
  <1>6. ASSUME NEW u \in Types
        PROVE  /\ IsList(list'[u])
               /\ Nodes(list'[u]) \subseteq Nodes(list[u])
               /\ \A x, y : Before(list'[u], x, y) => Before(list[u], x, y)
    BY <1>2, <1>3 DEF Courses, Lists
  <1>7. ASSUME NEW u \in Types
        PROVE  Nodes(list'[u]) \ deleted' \subseteq Nodes(list[u]) \ deleted
    BY <1>5, <1>6
  <1>8. QED
    BY <1>6, <1>7, ListsShrink

(***************************************************************************)
(* unhook(): the hook leaves its list when no walk is active, or is marked.*)
(***************************************************************************)
LEMMA UnhookCourses ==
  ASSUME IInv, Courses, NEW h \in Hooks, Unhook(h)
  PROVE  Courses'
  <1>1. UNCHANGED <<priority, command, remaining, running, stack, limit, fired>>
    BY DEF Unhook
  <1>2. CallsCounted'
    BY <1>1 DEF Courses, CallsCounted, Called
  <1>3. CASE hook_exec_recursion = 0
    <2>1. stack = <<>>
      BY <1>3, WalkIsProtected DEF IInv, TypeOK
    <2>2. WalksOnCourse'
      BY <1>1, <2>1 DEF WalksOnCourse
    <2>3. PICK t \in Types : h \in Nodes(list[t])
      BY DEF Unhook, Valid, Linked
    <2> DEFINE i == IndexOf(list[t], h)
    <2>4. i \in DOMAIN list[t] /\ list[t][i] = h
      BY <2>3 DEF Nodes, IndexOf
    <2>5. deleted' = deleted /\ Free(h)
      BY <1>3 DEF Unhook, FreeOrMark
    <2>6. \A u \in Types \ {t} : h \notin Nodes(list[u])
      BY <2>3 DEF Courses, Lists
    <2>7. list \in [Types -> Seq(Hooks)]
      BY DEF IInv, TypeOK
    <2>8. list' = [list EXCEPT ![t] = RemoveNode(list[t], i)]
      <3> HIDE DEF i
      <3>1. list' = [u \in Types |-> IF h \in Nodes(list[u])
                       THEN RemoveNode(list[u], IndexOf(list[u], h))
                       ELSE list[u]]
        BY <2>5 DEF Free
      <3>2. list'[t] = RemoveNode(list[t], i)
        BY <2>3, <3>1 DEF i
      <3>3. \A u \in Types \ {t} : list'[u] = list[u]
        BY <2>6, <3>1
      <3>4. QED
        BY <2>7, <3>1, <3>2, <3>3
    <2> HIDE DEF i
    <2>9. Lists' /\ InOrder' /\ TimersCounted' /\ TimerWithinLimit'
      BY <1>1, <2>4, <2>5, <2>8, OneLeaves
    <2>10. QED
      BY <1>2, <2>2, <2>9 DEF Courses
  <1>4. CASE hook_exec_recursion # 0
    <2>1. UNCHANGED list /\ deleted \subseteq deleted'
      BY <1>4 DEF Unhook, FreeOrMark
    <2>2. WalksOnCourse'
      BY <1>1, <2>1, CourseMark DEF Courses
    <2>3. Lists' /\ InOrder'
      BY <1>1, <2>1, OrderMark DEF Courses
    <2>4. TimersCounted' /\ TimerWithinLimit'
      BY <1>1, <2>1, TimersMark DEF Courses
    <2>5. QED
      BY <1>2, <2>2, <2>3, <2>4 DEF Courses
  <1>5. QED
    BY <1>3, <1>4

(***************************************************************************)
(* hook_remove_deleted() takes a marked hook out of its list.              *)
(***************************************************************************)
LEMMA PurgeOneCourses ==
  ASSUME IInv, Courses, PurgeOne
  PROVE  Courses'
  <1>1. UNCHANGED <<priority, command, remaining, running, stack, limit, fired>>
    BY DEF PurgeOne
  <1>2. stack = <<>>
    BY DEF PurgeOne, IInv, FreedInTime
  <1>3. CallsCounted' /\ WalksOnCourse'
    BY <1>1, <1>2 DEF CallsCounted, WalksOnCourse
  <1>4. PICK t \in Types : \E i \in DOMAIN list[t] :
          /\ list' = [list EXCEPT ![t] = RemoveNode(list[t], i)]
          /\ deleted' = deleted \ {list[t][i]}
    BY DEF PurgeOne
  <1>5. PICK i \in DOMAIN list[t] :
          /\ list' = [list EXCEPT ![t] = RemoveNode(list[t], i)]
          /\ deleted' = deleted \ {list[t][i]}
    BY <1>4
  <1>6. Lists' /\ InOrder' /\ TimersCounted' /\ TimerWithinLimit'
    BY <1>1, <1>5, OneLeaves
  <1>7. QED
    BY <1>3, <1>6 DEF Courses

(***************************************************************************)
(* The priorities and the names can be compared.                           *)
(***************************************************************************)
LEMMA KeysAreInt ==
  ASSUME IInv
  PROVE  \A x \in Hooks : priority[x] \in Int /\ command[x] \in Int
  BY HooksAssumption DEF IInv, TypeOK

(***************************************************************************)
(* hook_add_to_list(): the new hook takes its place by its name and its    *)
(* priority, and no walk or call knows it yet.                             *)
(***************************************************************************)
LEMMA AddHookCourses ==
  ASSUME IInv, Courses, NEW t \in Types, NEW h \in Hooks,
         NEW c \in CommandNames, NEW p \in Priorities,
         NEW n \in MaxCallsValues, AddHook(t, h, c, p, n)
  PROVE  Courses'
  <1> DEFINE s == list[t]
             after == {y \in Hooks : Precedes(t, c, p, y)}
             pos == FindPos(s, deleted, after)
             r == InsertNode(s, pos, h)
  <1>1. /\ list \in [Types -> Seq(Hooks)] /\ s \in Seq(Hooks) /\ IsList(s)
        /\ \A u \in Types : list[u] \in Seq(Hooks)
    BY DEF IInv, TypeOK, Courses, Lists
  <1>2. /\ pos \in 1 .. Len(s) + 1
        /\ \A k \in DOMAIN s :
              k < pos => s[k] \in deleted \/ ~Precedes(t, c, p, s[k])
        /\ pos \in DOMAIN s =>
              s[pos] \notin deleted /\ Precedes(t, c, p, s[pos])
    <2>1. /\ pos \in 1 .. Len(s) + 1
          /\ \A k \in DOMAIN s : k < pos => s[k] \in deleted \/ s[k] \notin after
          /\ pos \in DOMAIN s => s[pos] \in after \ deleted
      <3> HIDE DEF after
      <3>1. QED
        BY <1>1, FindPosInRange
    <2>2. \A k \in DOMAIN s : s[k] \in Hooks
      BY <1>1
    <2> HIDE DEF pos, s
    <2>3. QED
      BY <2>1, <2>2
  <1>3. /\ h \notin Linked /\ UNCHANGED <<deleted, stack>>
        /\ \A u \in Types : h \notin Nodes(list[u])
        /\ (t # "timer" => n = 0) /\ n \in Nat
    BY HooksAssumption DEF AddHook, Linked
  <1>4. /\ \A x \in Hooks \ {h} : /\ priority'[x] = priority[x]
                                  /\ command'[x] = command[x]
                                  /\ remaining'[x] = remaining[x]
                                  /\ running'[x] = running[x]
                                  /\ limit'[x] = limit[x]
                                  /\ fired'[x] = fired[x]
        /\ priority'[h] = p /\ command'[h] = c
        /\ remaining'[h] = n /\ running'[h] = 0
        /\ limit'[h] = n /\ fired'[h] = 0
    BY DEF AddHook, IInv, TypeOK
  <1>5. list' = [list EXCEPT ![t] = r]
    BY DEF AddHook
  <1>6. /\ Nodes(r) = Nodes(s) \cup {h} /\ IsList(r)
        /\ \A x, y : Before(s, x, y) => Before(r, x, y)
        /\ \A x, y : Before(r, x, y) =>
             \/ Before(s, x, y)
             \/ x = h /\ \E k \in DOMAIN s : pos <= k /\ s[k] = y
             \/ y = h /\ \E k \in DOMAIN s : k < pos /\ s[k] = x
    <2>1. h \notin Nodes(s)
      BY <1>3
    <2>2. s \in Seq(Hooks) /\ IsList(s) /\ pos \in 1 .. Len(s) + 1
      BY <1>1, <1>2
    <2> HIDE DEF s, pos
    <2>3. Nodes(r) = Nodes(s) \cup {h}
      BY <2>2, InsertNodeKeeps
    <2>4. QED
      BY <2>1, <2>2, <2>3, InsertKeepsOrder
  <1> HIDE DEF r, pos
  <1>7. list'[t] = r /\ \A u \in Types \ {t} : list'[u] = list[u]
    BY <1>1, <1>5
  <1>8. Lists'
    BY <1>3, <1>6, <1>7 DEF Courses, Lists
  <1>9. ASSUME NEW u \in Types
        PROVE  /\ Nodes(list[u]) \subseteq Nodes(list'[u])
               /\ \A x, y : Before(list[u], x, y) => Before(list'[u], x, y)
    BY <1>6, <1>7
  <1>10. WalksOnCourse'
    <2>1. ASSUME NEW i \in DOMAIN stack
          PROVE  OnCourse(list'[stack[i].type], deleted, stack[i])
      <3>1. stack[i].type \in Types
        BY FrameFacts
      <3>2. OnCourse(list[stack[i].type], deleted, stack[i])
        BY DEF Courses, WalksOnCourse
      <3>3. QED
        BY <1>9, <3>1, <3>2, CourseIsKept
    <2>2. QED
      BY <1>3, <2>1 DEF WalksOnCourse
  <1>11. CallsCounted'
    <2>1. ASSUME NEW i \in DOMAIN stack, Called(stack[i])
          PROVE  running'[stack[i].ptr] = running[stack[i].ptr]
      <3>1. stack[i].ptr \in Linked /\ Linked \subseteq Hooks
        BY <1>1, <2>1, FrameFacts DEF Called, Linked, Nodes
      <3>2. QED
        BY <1>3, <1>4, <3>1
    <2>2. QED
      BY <1>3, <2>1, CallsAreKept DEF Courses
  <1>12. TimersCounted'
    <2> SUFFICES ASSUME NEW u \in Types, NEW x \in Nodes(list'[u])
                 PROVE  TimerCounted(u, x)'
      BY DEF TimersCounted
    <2>1. CASE x = h
      <3>1. u = t
        BY <1>3, <1>7, <2>1
      <3>2. QED
        BY <1>3, <1>4, <2>1, <3>1 DEF TimerCounted
    <2>2. CASE x # h
      <3>1. x \in Nodes(list[u])
        BY <1>6, <1>7, <2>2
      <3>2. x \in Hooks
        BY <1>1, <3>1 DEF Nodes
      <3>3. TimerCounted(u, x)
        BY <3>1 DEF Courses, TimersCounted
      <3>4. QED
        BY <1>3, <1>4, <2>2, <3>2, <3>3 DEF TimerCounted
    <2>3. QED
      BY <2>1, <2>2
  <1>13. TimerWithinLimit'
    BY <1>3, <1>4 DEF Courses, TimerWithinLimit
  <1>14. InOrder'
    <2> SUFFICES ASSUME NEW u \in Types, NEW x \in Alive(u)', NEW y \in Alive(u)',
                        Before(list'[u], x, y)
                 PROVE  InPlace(u, x, y)'
      BY DEF InOrder
    <2>1. x \notin deleted /\ y \notin deleted
      BY <1>3 DEF Alive
    <2>2. CASE Before(list[u], x, y)
      <3>1. x \in Nodes(list[u]) /\ y \in Nodes(list[u])
        BY <1>1, <2>2, BeforeOrder DEF Courses, Lists
      <3>2. x \in Hooks \ {h} /\ y \in Hooks \ {h}
        BY <1>1, <1>3, <3>1 DEF Nodes
      <3>3. InPlace(u, x, y)
        BY <2>1, <2>2, <3>1 DEF Courses, InOrder, Alive
      <3>4. QED
        BY <1>4, <3>2, <3>3 DEF InPlace
    <2>3. CASE u = t /\ x = h /\ \E k \in DOMAIN s : pos <= k /\ s[k] = y
      <3>1. PICK k \in DOMAIN s : pos <= k /\ s[k] = y
        BY <2>3
      <3>2. pos \in DOMAIN s /\ (pos = k \/ pos < k)
        BY <1>1, <1>2, <3>1
      <3>3. /\ s[pos] \notin deleted /\ Precedes(t, c, p, s[pos])
            /\ s[pos] \in Nodes(s) /\ y \in Nodes(s)
        BY <1>2, <3>1, <3>2 DEF Nodes
      <3>4. pos < k => Before(s, s[pos], y)
        BY <3>1, <3>2 DEF Before
      <3>5. s[pos] \in Hooks /\ y \in Hooks \ {h}
        BY <1>1, <1>3, <3>3 DEF Nodes
      <3>6. s[pos] = y \/ InPlace(t, s[pos], y)
        BY <2>1, <3>1, <3>2, <3>3, <3>4 DEF Courses, InOrder, Alive
      <3>7. /\ priority[s[pos]] \in Int /\ command[s[pos]] \in Int
            /\ priority[y] \in Int /\ command[y] \in Int
            /\ p \in Int /\ c \in Int
        BY <3>5, KeysAreInt, HooksAssumption
      <3>8. /\ priority'[x] = p /\ priority'[y] = priority[y]
            /\ command'[x] = c /\ command'[y] = command[y]
        BY <1>4, <2>3, <3>5
      <3>9. QED
        BY <2>3, <3>3, <3>6, <3>7, <3>8 DEF Precedes, InPlace
    <2>4. CASE u = t /\ y = h /\ \E k \in DOMAIN s : k < pos /\ s[k] = x
      <3>1. PICK k \in DOMAIN s : k < pos /\ s[k] = x
        BY <2>4
      <3>2. ~Precedes(t, c, p, x) /\ x \in Hooks \ {h}
        BY <1>1, <1>2, <1>3, <2>1, <3>1 DEF Nodes
      <3>3. /\ priority'[y] = p /\ priority'[x] = priority[x]
            /\ command'[y] = c /\ command'[x] = command[x]
            /\ p \in Int /\ priority[x] \in Int
            /\ c \in Int /\ command[x] \in Int
        BY <1>4, <2>4, <3>2, KeysAreInt, HooksAssumption
      <3>4. QED
        BY <2>4, <3>2, <3>3 DEF Precedes, InPlace
    <2>5. QED
      BY <1>6, <1>7, <2>2, <2>3, <2>4
  <1>15. QED
    BY <1>8, <1>10, <1>11, <1>12, <1>13, <1>14 DEF Courses

(***************************************************************************)
(* A walk starts, over the hooks of type t.                                *)
(***************************************************************************)
LEMMA WalkCourses ==
  ASSUME IInv, Courses, NEW t \in Types, stack' = Append(stack, Walk(t)),
         UNCHANGED hookVars
  PROVE  Courses'
  <1>1. /\ UNCHANGED <<list, priority, command, remaining, running, limit, fired>>
        /\ UNCHANGED deleted
    BY DEF hookVars
  <1>2. list[t] \in Seq(Hooks)
    BY DEF IInv, TypeOK
  <1> DEFINE f == Walk(t)
  <1>3. /\ f.type = t /\ f.ptr = HeadOf(list[t]) /\ f.next = NoHook
        /\ f.calling = FALSE /\ f.start = Nodes(list[t]) \ deleted
        /\ f.seen = {}
    BY DEF Walk, Alive
  <1>4. f \in Frame
    <2>1. Nodes(list[t]) \subseteq Hooks
      BY <1>2 DEF Nodes
    <2>2. HeadOf(list[t]) \in Hooks \cup {NoHook}
      BY <1>2, <2>1, HeadOfInList
    <2>3. Nodes(list[t]) \ deleted \in SUBSET Hooks
      BY <2>1
    <2>4. QED
      BY <2>2, <2>3 DEF Walk, Alive, Frame
  <1> HIDE DEF f
  <1>5. OnCourse(list[f.type], deleted, f)
    BY <1>2, <1>3, CourseBegins
  <1>6. WalksOnCourse'
    BY <1>1, <1>4, <1>5, CoursePush DEF f, Courses
  <1>7. CallsCounted'
    <2>1. /\ DOMAIN stack' = DOMAIN stack \cup {Len(stack) + 1}
          /\ stack'[Len(stack) + 1] = f
          /\ \A i \in DOMAIN stack : stack'[i] = stack[i]
      BY <1>4, PushKeeps DEF f, IInv, TypeOK
    <2>2. ~Called(f)
      BY <1>3 DEF Called
    <2>3. QED
      BY <1>1, <2>1, <2>2, CallsAreKept DEF Courses
  <1>8. Lists' /\ InOrder'
    BY <1>1, OrderMark DEF Courses
  <1>9. TimersCounted' /\ TimerWithinLimit'
    BY <1>1, TimersMark DEF Courses
  <1>10. QED
    BY <1>6, <1>7, <1>8, <1>9 DEF Courses

(***************************************************************************)
(* A walk ends: the others are as they were.                               *)
(***************************************************************************)
LEMMA EndCourses ==
  ASSUME IInv, Courses, stack # <<>>, stack' = Pop, UNCHANGED hookVars
  PROVE  Courses'
  <1>1. /\ UNCHANGED <<list, priority, command, remaining, running, limit, fired>>
        /\ UNCHANGED deleted
    BY DEF hookVars
  <1>2. WalksOnCourse'
    BY <1>1, CoursePop DEF Courses
  <1>3. CallsCounted'
    <2>1. \A i \in DOMAIN stack' : i \in DOMAIN stack /\ stack'[i] = stack[i]
      BY PopKeeps DEF IInv, TypeOK, Pop
    <2>2. QED
      BY <1>1, <2>1, CallsAreKept DEF Courses
  <1>4. Lists' /\ InOrder'
    BY <1>1, OrderMark DEF Courses
  <1>5. TimersCounted' /\ TimerWithinLimit'
    BY <1>1, TimersMark DEF Courses
  <1>6. QED
    BY <1>2, <1>3, <1>4, <1>5 DEF Courses

(***************************************************************************)
(* What a turn of the innermost walk can rely on.                          *)
(***************************************************************************)
LEMMA TopCourse ==
  ASSUME IInv, Courses, stack # <<>>
  PROVE  /\ Len(stack) \in DOMAIN stack /\ stack[Len(stack)] = Top
         /\ Top \in Frame /\ Top.type \in Types
         /\ list[Top.type] \in Seq(Hooks) /\ IsList(list[Top.type])
         /\ OnCourse(list[Top.type], deleted, Top)
         /\ Top.ptr # NoHook =>
              /\ Top.ptr \in Nodes(list[Top.type]) /\ Top.ptr \in Hooks
              /\ NextHook(list[Top.type], Top.ptr) \in Hooks \cup {NoHook}
  <1>1. stack \in Seq(Frame)
    BY DEF IInv, TypeOK
  <1>2. Len(stack) \in DOMAIN stack /\ stack[Len(stack)] = Top
    BY <1>1 DEF Top
  <1>3. /\ Top \in Frame /\ Top.type \in Types /\ PointersOf(Top)
        /\ list[Top.type] \in Seq(Hooks) /\ Nodes(list[Top.type]) \subseteq Hooks
        /\ Top.ptr # NoHook =>
              NextHook(list[Top.type], Top.ptr)
                 \in Nodes(list[Top.type]) \cup {NoHook}
    BY TopFacts
  <1>4. IsList(list[Top.type])
    BY <1>3 DEF Courses, Lists
  <1>5. OnCourse(list[Top.type], deleted, Top)
    BY <1>2 DEF Courses, WalksOnCourse
  <1>6. Top.ptr # NoHook => Top.ptr \in Nodes(list[Top.type])
    BY <1>3 DEF PointersOf
  <1>7. QED
    BY <1>2, <1>3, <1>4, <1>5, <1>6

(***************************************************************************)
(* A hook that is deleted, running or does not match is passed over.       *)
(***************************************************************************)
LEMMA SkipCourses ==
  ASSUME IInv, Courses, Skip
  PROVE  Courses'
  <1> DEFINE n == NextHook(list[Top.type], Top.ptr)
             g == [Top EXCEPT !.ptr = n, !.seen = Top.seen \cup {Top.ptr}]
  <1>1. /\ stack # <<>> /\ ~Top.calling /\ Top.ptr # NoHook
        /\ UNCHANGED <<list, priority, command, remaining, running, limit, fired>>
        /\ UNCHANGED deleted
        /\ stack' = SetTop(g)
    BY DEF Skip, Visiting, hookVars
  <1>2. /\ Top \in Frame
        /\ list[Top.type] \in Seq(Hooks) /\ IsList(list[Top.type])
        /\ OnCourse(list[Top.type], deleted, Top)
        /\ Top.ptr \in Nodes(list[Top.type]) /\ Top.ptr \in Hooks
        /\ n \in Hooks \cup {NoHook}
    BY <1>1, TopCourse
  <1>3. g \in Frame
    BY <1>2 DEF Frame
  <1>4. /\ g.start = Top.start /\ g.seen = Top.seen \cup {Top.ptr}
        /\ g.type = Top.type /\ g.ptr = n /\ g.next = Top.next
        /\ g.calling = Top.calling
    BY <1>2 DEF Frame
  <1> HIDE DEF n, g
  <1>5. Ahead(g) = n /\ (~g.calling => g.next = NoHook)
    BY <1>1, <1>2, <1>4 DEF Ahead, OnCourse
  <1>6. OnCourse(list[g.type], deleted, g)
    BY <1>1, <1>2, <1>4, <1>5, CourseAdvances DEF n
  <1>7. WalksOnCourse'
    BY <1>1, <1>3, <1>6, CourseTop DEF Courses
  <1>8. CallsCounted'
    <2>1. /\ DOMAIN stack' = DOMAIN stack
          /\ \A i \in DOMAIN stack :
                stack'[i] = IF i = Len(stack) THEN g ELSE stack[i]
      BY <1>1, <1>3, SetTopKeeps DEF IInv, TypeOK, SetTop
    <2>2. ~Called(g)
      BY <1>1, <1>4 DEF Called
    <2>3. QED
      BY <1>1, <2>1, <2>2, CallsAreKept DEF Courses
  <1>9. Lists' /\ InOrder'
    BY <1>1, OrderMark DEF Courses
  <1>10. TimersCounted' /\ TimerWithinLimit'
    BY <1>1, TimersMark DEF Courses
  <1>11. QED
    BY <1>7, <1>8, <1>9, <1>10 DEF Courses

(***************************************************************************)
(* A callback is called: no other walk was calling the same hook.          *)
(***************************************************************************)
LEMMA CallCourses ==
  ASSUME IInv, Courses, Call
  PROVE  Courses'
  <1> DEFINE h == Top.ptr
             n == NextHook(list[Top.type], h)
             g == [Top EXCEPT !.next = n, !.calling = TRUE,
                              !.seen = Top.seen \cup {h}]
  <1>1. /\ stack # <<>> /\ ~Top.calling /\ h # NoHook
        /\ h \notin deleted /\ running[h] = 0
        /\ UNCHANGED <<list, priority, command, remaining, limit, deleted>>
        /\ running' = [running EXCEPT ![h] = 1]
        /\ stack' = SetTop(g)
    BY DEF Call, Visiting, CanCall
  <1>2. /\ Len(stack) \in DOMAIN stack /\ stack[Len(stack)] = Top
        /\ Top \in Frame /\ Top.type \in Types
        /\ list[Top.type] \in Seq(Hooks) /\ IsList(list[Top.type])
        /\ OnCourse(list[Top.type], deleted, Top)
        /\ h \in Nodes(list[Top.type]) /\ h \in Hooks
        /\ n \in Hooks \cup {NoHook}
    BY <1>1, TopCourse
  <1>3. g \in Frame
    BY <1>2 DEF Frame
  <1>4. /\ g.start = Top.start /\ g.seen = Top.seen \cup {h}
        /\ g.type = Top.type /\ g.ptr = h /\ g.next = n
        /\ g.calling = TRUE
    BY <1>2 DEF Frame
  <1>5. /\ running' \in [Hooks -> Int] /\ running'[h] = 1
        /\ \A x \in Hooks \ {h} : running'[x] = running[x]
    BY <1>1, <1>2 DEF IInv, TypeOK
  <1>6. /\ \A x \in Hooks : x # h \/ limit[h] = 0 => fired'[x] = fired[x]
        /\ limit[h] > 0 => fired'[h] = fired[h] + 1
    BY <1>2 DEF Call, IInv, TypeOK
  <1> HIDE DEF n, g
  <1>7. Ahead(g) = n
    BY <1>4 DEF Ahead
  <1>8. OnCourse(list[g.type], deleted, g)
    <2> HIDE DEF h
    <2>1. QED
      BY <1>1, <1>2, <1>4, <1>7, CourseAdvances DEF n, h
  <1>9. WalksOnCourse'
    BY <1>1, <1>3, <1>8, CourseTop DEF Courses
  <1>10. /\ DOMAIN stack' = DOMAIN stack
         /\ \A i \in DOMAIN stack :
               stack'[i] = IF i = Len(stack) THEN g ELSE stack[i]
    BY <1>1, <1>3, SetTopKeeps DEF IInv, TypeOK, SetTop
  <1> HIDE DEF h
  <1>11. ASSUME NEW i \in DOMAIN stack, Called(stack[i])
         PROVE  /\ running[stack[i].ptr] = 1 /\ stack[i].ptr # h
                /\ running'[stack[i].ptr] = 1
                /\ i # Len(stack)
    <2>1. running[stack[i].ptr] = 1
      BY <1>11 DEF Courses, CallsCounted
    <2>2. stack[i].ptr \in Hooks
      BY <1>11, FrameFacts DEF Called, Nodes
    <2>3. i # Len(stack)
      BY <1>1, <1>2, <1>11 DEF Called
    <2>4. QED
      BY <1>1, <1>5, <2>1, <2>2, <2>3
  <1>12. CallsCounted'
    <2> SUFFICES ASSUME NEW i \in DOMAIN stack', Called(stack'[i])
                 PROVE  /\ running'[stack'[i].ptr] = 1
                        /\ \A j \in DOMAIN stack' :
                             Called(stack'[j]) /\ stack'[j].ptr = stack'[i].ptr
                                => j = i
      BY DEF CallsCounted, Called
    <2>1. \A j \in DOMAIN stack \ {Len(stack)} :
             /\ stack'[j] = stack[j]
             /\ Called(stack[j]) => /\ running'[stack[j].ptr] = 1
                                    /\ stack[j].ptr # h
      BY <1>10, <1>11
    <2>2. stack'[Len(stack)] = g
      BY <1>2, <1>10
    <2>3. running'[stack'[i].ptr] = 1
      BY <1>4, <1>5, <1>10, <2>1, <2>2
    <2>4. ASSUME NEW j \in DOMAIN stack', Called(stack'[j]),
                 stack'[j].ptr = stack'[i].ptr
          PROVE  j = i
      <3>1. CASE i = Len(stack)
        BY <1>4, <1>10, <2>1, <2>2, <2>4, <3>1
      <3>2. CASE i # Len(stack) /\ j = Len(stack)
        BY <1>4, <1>10, <2>1, <2>2, <2>4, <3>2
      <3>3. CASE i # Len(stack) /\ j # Len(stack)
        BY <1>10, <2>1, <2>4, <3>3 DEF Courses, CallsCounted
      <3>4. QED
        BY <3>1, <3>2, <3>3
    <2>5. QED
      BY <2>3, <2>4
  <1>13. Lists' /\ InOrder'
    BY <1>1, OrderMark DEF Courses
  <1>14. /\ \A x \in Hooks : /\ limit[x] \in Nat /\ fired[x] \in Nat
                             /\ remaining[x] \in Nat /\ running[x] \in Int
         /\ limit[h] > 0 => /\ remaining[h] > 0
                            /\ fired[h] + remaining[h] = limit[h]
    <2>1. \A x \in Hooks : /\ limit[x] \in Nat /\ fired[x] \in Nat
                           /\ remaining[x] \in Nat /\ running[x] \in Int
      BY DEF IInv, TypeOK
    <2>2. TimerCounted(Top.type, h)
      BY <1>2 DEF Courses, TimersCounted
    <2>3. QED
      BY <1>1, <1>2, <2>1, <2>2 DEF TimerCounted
  <1>15. TimersCounted'
    <2> SUFFICES ASSUME NEW t \in Types, NEW x \in Nodes(list[t])
                 PROVE  TimerCounted(t, x)'
      BY <1>1 DEF TimersCounted
    <2>1. TimerCounted(t, x)
      BY DEF Courses, TimersCounted
    <2>2. x \in Hooks
      BY DEF IInv, TypeOK, Nodes
    <2>3. CASE x = h
      <3> SUFFICES ASSUME limit[h] > 0
                   PROVE  TimerCounted(t, x)'
        BY <1>1, <2>3 DEF TimerCounted
      <3>1. /\ fired'[h] = fired[h] + 1 /\ running'[h] = 1
            /\ remaining'[h] = remaining[h] /\ limit'[h] = limit[h]
        BY <1>1, <1>5, <1>6
      <3>2. fired'[h] + remaining'[h] = limit'[h] + running'[h]
        <4>1. fired[h] + remaining[h] = limit[h]
          BY <1>14
        <4>2. limit[h] \in Nat /\ fired[h] \in Nat /\ remaining[h] \in Nat
          BY <1>2, <1>14
        <4>3. QED
          BY <3>1, <4>1, <4>2
      <3>3. t = "timer"
        BY <2>1, <2>3 DEF TimerCounted
      <3>4. QED
        BY <1>14, <2>3, <3>1, <3>2, <3>3 DEF TimerCounted
    <2>4. CASE x # h
      BY <1>1, <1>5, <1>6, <2>1, <2>2, <2>4 DEF TimerCounted
    <2>5. QED
      BY <2>3, <2>4
  <1>16. TimerWithinLimit'
    <2> SUFFICES ASSUME NEW x \in Hooks, limit[x] > 0
                 PROVE  fired'[x] <= limit[x]
      BY <1>1 DEF TimerWithinLimit
    <2>1. fired[x] <= limit[x]
      BY DEF Courses, TimerWithinLimit
    <2>2. CASE x = h
      BY <1>6, <1>14, <2>2
    <2>3. CASE x # h
      BY <1>6, <2>1, <2>3
    <2>4. QED
      BY <2>2, <2>3
  <1>17. QED
    BY <1>9, <1>12, <1>13, <1>15, <1>16 DEF Courses

(***************************************************************************)
(* A callback returns: the call is counted, and a timer whose calls are    *)
(* used up is marked, so that it is not called again.                      *)
(***************************************************************************)
LEMMA ReturnCourses ==
  ASSUME IInv, Courses, NEW over \in BOOLEAN, Return(over)
  PROVE  Courses'
  <1> DEFINE h == Top.ptr
             g == [Top EXCEPT !.ptr = IF over THEN NoHook ELSE Top.next,
                              !.next = NoHook,
                              !.calling = FALSE,
                              !.start = IF over THEN {} ELSE Top.start]
  <1>1. /\ stack # <<>> /\ Top.calling /\ Top.type # "command"
        /\ UNCHANGED <<priority, command, limit, fired>>
        /\ running' = [running EXCEPT ![h] = 0]
        /\ remaining' = CountCall(h)
        /\ IF LastCall(h) THEN FreeOrMark(h)
           ELSE UNCHANGED <<list, deleted, real_delete_pending>>
        /\ stack' = IF over /\ Top.type = "command_run" THEN Pop ELSE SetTop(g)
    BY DEF Return, LeaveHook, Resume
  <1>2. /\ Len(stack) \in DOMAIN stack /\ stack[Len(stack)] = Top
        /\ Top \in Frame /\ Top.type \in Types
        /\ list[Top.type] \in Seq(Hooks) /\ IsList(list[Top.type])
        /\ OnCourse(list[Top.type], deleted, Top)
        /\ h \in Nodes(list[Top.type]) /\ h \in Hooks
    <2>1. h # NoHook
      BY <1>1, TopFacts DEF PointersOf
    <2>2. QED
      BY <1>1, <2>1, TopCourse
  <1>3. /\ UNCHANGED list /\ deleted \subseteq deleted'
        /\ LastCall(h) => h \in deleted'
        /\ deleted' \subseteq deleted \cup {h}
    <2>1. hook_exec_recursion # 0
      BY <1>1, TopFacts DEF IInv, TypeOK
    <2>2. QED
      BY <1>1, <2>1 DEF FreeOrMark
  <1>4. g \in Frame
    BY <1>2 DEF Frame
  <1>5. /\ g.start = (IF over THEN {} ELSE Top.start) /\ g.seen = Top.seen
        /\ g.type = Top.type /\ g.ptr = (IF over THEN NoHook ELSE Top.next)
        /\ g.next = NoHook /\ g.calling = FALSE
    BY <1>2 DEF Frame
  <1> HIDE DEF g
  <1>6. OnCourse(list[g.type], deleted', g)
    <2>1. OnCourse(list[g.type], deleted, g)
      <3>1. CASE over
        BY <1>2, <1>5, <3>1, CourseIsOver DEF OnCourse
      <3>2. CASE ~over
        BY <1>1, <1>2, <1>5, <3>2, CourseResumes
      <3>3. QED
        BY <3>1, <3>2
    <2>2. QED
      BY <1>3, <2>1, CourseIsKept
  <1>7. WalksOnCourse'
    <2>1. CASE over /\ Top.type = "command_run"
      BY <1>1, <1>3, <2>1, CoursePop DEF Courses
    <2>2. CASE ~(over /\ Top.type = "command_run")
      BY <1>1, <1>3, <1>4, <1>6, <2>2, CourseTop DEF Courses
    <2>3. QED
      BY <2>1, <2>2
  <1>8. ASSUME NEW i \in DOMAIN stack', Called(stack'[i])
        PROVE  i \in DOMAIN stack /\ stack'[i] = stack[i] /\ i # Len(stack)
    <2>1. CASE over /\ Top.type = "command_run"
      BY <1>1, <2>1, PopKeeps DEF IInv, TypeOK, Pop
    <2>2. CASE ~(over /\ Top.type = "command_run")
      <3>1. /\ DOMAIN stack' = DOMAIN stack
            /\ \A j \in DOMAIN stack :
                  stack'[j] = IF j = Len(stack) THEN g ELSE stack[j]
        BY <1>1, <1>4, <2>2, SetTopKeeps DEF IInv, TypeOK, SetTop
      <3>2. ~Called(g)
        BY <1>5 DEF Called
      <3>3. QED
        BY <1>8, <3>1, <3>2
    <2>3. QED
      BY <2>1, <2>2
  <1>9. /\ running[h] = 1
        /\ \A i \in DOMAIN stack : Called(stack[i]) /\ stack[i].ptr = h
              => i = Len(stack)
    <2>1. Called(stack[Len(stack)])
      BY <1>1, <1>2 DEF Called
    <2>2. QED
      BY <1>2, <2>1 DEF Courses, CallsCounted
  <1>10. /\ running'[h] = 0
         /\ \A x \in Hooks \ {h} : running'[x] = running[x]
    BY <1>1, <1>2 DEF IInv, TypeOK
  <1>11. CallsCounted'
    <2>1. ASSUME NEW i \in DOMAIN stack', Called(stack'[i])
          PROVE  /\ i \in DOMAIN stack /\ stack'[i] = stack[i]
                 /\ running'[stack[i].ptr] = running[stack[i].ptr]
      <3>1. i \in DOMAIN stack /\ stack'[i] = stack[i] /\ i # Len(stack)
        BY <1>8, <2>1
      <3>2. stack[i].ptr # h
        BY <1>9, <2>1, <3>1
      <3>3. stack[i].ptr \in Hooks
        BY <2>1, <3>1, FrameFacts DEF Called, Nodes
      <3>4. QED
        BY <1>10, <3>1, <3>2, <3>3
    <2>2. QED
      BY <2>1, CallsAreKept DEF Courses
  <1>12. Lists' /\ InOrder'
    BY <1>1, <1>3, OrderMark DEF Courses
  <1>13. TimerWithinLimit'
    BY <1>1 DEF Courses, TimerWithinLimit
  <1>14. TimerCounted(Top.type, h)
    BY <1>2 DEF Courses, TimersCounted
  <1>15. /\ \A x \in Hooks \ {h} : remaining'[x] = remaining[x]
         /\ Top.type = "timer" /\ h \notin deleted /\ remaining[h] > 0 =>
               remaining'[h] = remaining[h] - 1
    <2>1. remaining \in [Hooks -> Nat]
      BY DEF IInv, TypeOK
    <2>2. \/ remaining' = remaining /\ ~(IsLiveTimer(h) /\ remaining[h] > 0)
          \/ remaining' = [remaining EXCEPT ![h] = remaining[h] - 1]
      BY <1>1 DEF CountCall
    <2>3. QED
      BY <1>2, <2>1, <2>2 DEF IsLiveTimer
  <1> HIDE DEF h
  <1>16. TimersCounted'
    <2> SUFFICES ASSUME NEW t \in Types, NEW x \in Nodes(list[t])
                 PROVE  TimerCounted(t, x)'
      BY <1>3 DEF TimersCounted
    <2>1. TimerCounted(t, x)
      BY DEF Courses, TimersCounted
    <2>2. x \in Hooks
      BY DEF IInv, TypeOK, Nodes
    <2>3. CASE x = h /\ limit[h] > 0 /\ h \notin deleted'
      <3>1. Top.type = "timer" /\ h \notin deleted /\ remaining[h] > 0
            /\ fired[h] + remaining[h] = limit[h] + 1
        BY <1>3, <1>9, <1>14, <2>3 DEF TimerCounted
      <3>2. remaining'[h] = remaining[h] - 1
        BY <1>15, <3>1
      <3>3. remaining[h] # 1
        BY <1>3, <2>3, <3>1 DEF LastCall, IsLiveTimer
      <3>4. /\ limit[h] \in Nat /\ fired[h] \in Nat /\ remaining[h] \in Nat
        BY <1>2 DEF IInv, TypeOK
      <3>5. remaining'[h] > 0 /\ fired'[h] + remaining'[h] = limit'[h] + running'[h]
        BY <1>1, <1>10, <3>1, <3>2, <3>3, <3>4
      <3>6. t = "timer"
        BY <2>1, <2>3 DEF TimerCounted
      <3>7. QED
        BY <2>3, <3>5, <3>6 DEF TimerCounted
    <2>4. CASE x = h /\ (~(limit[h] > 0) \/ h \in deleted')
      BY <1>1, <2>1, <2>4 DEF TimerCounted
    <2>5. CASE x # h
      <3>1. remaining'[x] = remaining[x] /\ running'[x] = running[x]
        BY <1>10, <1>15, <2>2, <2>5
      <3>2. x \notin deleted' => x \notin deleted
        BY <1>3
      <3>3. QED
        BY <1>1, <2>1, <3>1, <3>2 DEF TimerCounted
    <2>6. QED
      BY <2>3, <2>4, <2>5
  <1>17. QED
    BY <1>7, <1>11, <1>12, <1>13, <1>16 DEF Courses

(***************************************************************************)
(* hook->running of a hook of type command counts its own calls: it is no  *)
(* timer, and no walk calls it.                                            *)
(***************************************************************************)
LEMMA CommandCounts ==
  ASSUME IInv, Courses, "command" \in Types, NEW h \in Nodes(list["command"]),
         NEW m \in Int, running' = [running EXCEPT ![h] = m],
         UNCHANGED <<list, priority, command, remaining, deleted, limit, fired>>
  PROVE  /\ Lists' /\ InOrder' /\ TimersCounted' /\ TimerWithinLimit'
         /\ \A i \in DOMAIN stack : Called(stack[i]) =>
               running'[stack[i].ptr] = running[stack[i].ptr]
  <1>1. /\ running \in [Hooks -> Int] /\ h \in Hooks
    BY DEF IInv, TypeOK, Nodes
  <1>2. \A x \in Hooks \ {h} : running'[x] = running[x]
    BY <1>1
  <1>3. ASSUME NEW t \in Types, NEW x \in Nodes(list[t])
        PROVE  TimerCounted(t, x)'
    <2>1. TimerCounted(t, x) /\ TimerCounted("command", h)
      BY DEF Courses, TimersCounted
    <2>2. x \in Hooks
      BY DEF IInv, TypeOK, Nodes
    <2>3. CASE x = h
      BY <2>1, <2>3 DEF TimerCounted
    <2>4. CASE x # h
      BY <1>2, <2>1, <2>2, <2>4 DEF TimerCounted
    <2>5. QED
      BY <2>3, <2>4
  <1>4. TimersCounted' /\ TimerWithinLimit'
    BY <1>3 DEF Courses, TimersCounted, TimerWithinLimit
  <1>5. ASSUME NEW i \in DOMAIN stack, Called(stack[i])
        PROVE  running'[stack[i].ptr] = running[stack[i].ptr]
    <2>1. /\ stack[i].type \in Types /\ stack[i].type # "command"
          /\ list[stack[i].type] \in Seq(Hooks)
          /\ stack[i].ptr \in Nodes(list[stack[i].type])
      BY <1>5, FrameFacts DEF Called
    <2>2. stack[i].ptr # h
      BY <2>1 DEF Courses, Lists
    <2>3. stack[i].ptr \in Hooks
      BY <2>1 DEF Nodes
    <2>4. QED
      BY <1>2, <2>2, <2>3
  <1>6. Lists' /\ InOrder'
    BY OrderMark DEF Courses
  <1>7. QED
    BY <1>4, <1>5, <1>6

(***************************************************************************)
(* hook_command_exec() calls the command it has found.                     *)
(***************************************************************************)
LEMMA CommandFoundCourses ==
  ASSUME IInv, Courses, NEW h \in Hooks, CommandFound(h)
  PROVE  Courses'
  <1> DEFINE g == [type |-> "command", ptr |-> h, next |-> NoHook,
                   calling |-> TRUE, start |-> {}, seen |-> {}]
  <1>1. /\ stack # <<>> /\ "command" \in Types /\ h \in Nodes(list["command"])
        /\ UNCHANGED <<list, priority, command, remaining, deleted, limit, fired>>
        /\ running' = [running EXCEPT ![h] = running[h] + 1]
        /\ stack' = SetTop(g)
    BY DEF CommandFound, Visiting, Alive
  <1>2. running[h] + 1 \in Int
    BY DEF IInv, TypeOK
  <1>3. g \in Frame
    BY <1>1 DEF Frame
  <1>4. /\ g.type = "command" /\ g.start = {} /\ g.seen = {}
        /\ g.next = NoHook /\ g.calling = TRUE
    OBVIOUS
  <1> HIDE DEF g
  <1>5. /\ Lists' /\ InOrder' /\ TimersCounted' /\ TimerWithinLimit'
        /\ \A i \in DOMAIN stack : Called(stack[i]) =>
              running'[stack[i].ptr] = running[stack[i].ptr]
    BY <1>1, <1>2, CommandCounts
  <1>6. OnCourse(list[g.type], deleted, g)
    BY <1>4, CourseIsOver
  <1>7. WalksOnCourse'
    BY <1>1, <1>3, <1>6, CourseTop DEF Courses
  <1>8. CallsCounted'
    <2>1. /\ DOMAIN stack' = DOMAIN stack
          /\ \A i \in DOMAIN stack :
                stack'[i] = IF i = Len(stack) THEN g ELSE stack[i]
      BY <1>1, <1>3, SetTopKeeps DEF IInv, TypeOK, SetTop
    <2>2. ~Called(g)
      BY <1>4 DEF Called
    <2>3. QED
      BY <1>5, <2>1, <2>2, CallsAreKept DEF Courses
  <1>9. QED
    BY <1>5, <1>7, <1>8 DEF Courses

(***************************************************************************)
(* The callback of a command returns.                                      *)
(***************************************************************************)
LEMMA CommandReturnCourses ==
  ASSUME IInv, Courses, CommandReturn
  PROVE  Courses'
  <1> DEFINE h == Top.ptr
  <1>1. /\ stack # <<>> /\ Top.calling /\ Top.type = "command"
        /\ UNCHANGED <<list, priority, command, remaining, deleted, limit, fired>>
        /\ running' = [running EXCEPT ![h] = running[h] - 1]
        /\ stack' = Pop
    BY DEF CommandReturn
  <1>2. "command" \in Types /\ h \in Nodes(list["command"]) /\ h \in Hooks
    <2>1. h # NoHook
      BY <1>1, TopFacts DEF PointersOf
    <2>2. QED
      BY <1>1, <2>1, TopCourse
  <1>3. running[h] - 1 \in Int
    BY <1>2 DEF IInv, TypeOK
  <1> HIDE DEF h
  <1>4. /\ Lists' /\ InOrder' /\ TimersCounted' /\ TimerWithinLimit'
        /\ \A i \in DOMAIN stack : Called(stack[i]) =>
              running'[stack[i].ptr] = running[stack[i].ptr]
    BY <1>1, <1>2, <1>3, CommandCounts
  <1>5. WalksOnCourse'
    BY <1>1, CoursePop DEF Courses
  <1>6. CallsCounted'
    <2>1. \A i \in DOMAIN stack' : i \in DOMAIN stack /\ stack'[i] = stack[i]
      BY <1>1, PopKeeps DEF IInv, TypeOK, Pop
    <2>2. QED
      BY <1>4, <2>1, CallsAreKept DEF Courses
  <1>7. QED
    BY <1>4, <1>5, <1>6 DEF Courses

(***************************************************************************)
(* No hook is there when the program starts.                               *)
(***************************************************************************)
LEMMA CoursesInit ==
  ASSUME Init
  PROVE  Courses
  <1>1. /\ \A t \in Types : list[t] = <<>>
        /\ stack = <<>>
        /\ \A h \in Hooks : limit[h] = 0
    BY DEF Init
  <1>2. \A t \in Types : Nodes(list[t]) = {} /\ IsList(list[t])
    BY <1>1 DEF Nodes, IsList
  <1>3. Lists /\ InOrder /\ TimersCounted
    BY <1>2 DEF Lists, InOrder, Alive, TimersCounted
  <1>4. WalksOnCourse /\ CallsCounted
    BY <1>1 DEF WalksOnCourse, CallsCounted
  <1>5. TimerWithinLimit
    BY <1>1 DEF TimerWithinLimit
  <1>6. QED
    BY <1>3, <1>4, <1>5 DEF Courses

(***************************************************************************)
(* Every step keeps the walks on their course and the timers counted.      *)
(***************************************************************************)
LEMMA CoursesStep ==
  ASSUME IInv, Courses, [Next]_vars
  PROVE  Courses'
  <1>1. ASSUME NEW t \in Types, NEW h \in Hooks, NEW c \in CommandNames,
               NEW p \in Priorities, NEW n \in MaxCallsValues,
               AddHook(t, h, c, p, n)
        PROVE  Courses'
    BY <1>1, AddHookCourses
  <1>2. ASSUME NEW h \in Hooks, Unhook(h)
        PROVE  Courses'
    BY <1>2, UnhookCourses
  <1>3. ASSUME NEW t \in Types, Exec(t)
        PROVE  Courses'
    BY <1>3, WalkCourses DEF Exec
  <1>4. CASE ExecCommand
    BY <1>4, WalkCourses DEF ExecCommand
  <1>5. CASE Skip
    BY <1>5, SkipCourses
  <1>6. CASE Call
    BY <1>6, CallCourses
  <1>7. ASSUME NEW over \in BOOLEAN, Return(over)
        PROVE  Courses'
    BY <1>7, ReturnCourses
  <1>8. CASE Finish
    BY <1>8, EndCourses DEF Finish, Visiting
  <1>9. CASE CommandNotFound
    BY <1>9, EndCourses DEF CommandNotFound, Visiting
  <1>10. ASSUME NEW h \in Hooks, CommandFound(h)
         PROVE  Courses'
    BY <1>10, CommandFoundCourses
  <1>11. CASE CommandReturn
    BY <1>11, CommandReturnCourses
  <1>12. CASE PurgeOne
    BY <1>12, PurgeOneCourses
  <1>13. ASSUME UNCHANGED <<hookVars, stack>>
         PROVE  Courses'
    <2>1. /\ UNCHANGED <<list, priority, command, remaining, running, limit, fired>>
          /\ UNCHANGED <<deleted, stack>>
      BY <1>13 DEF hookVars
    <2>2. Lists' /\ InOrder'
      BY <2>1, OrderMark DEF Courses
    <2>3. TimersCounted' /\ TimerWithinLimit'
      BY <2>1, TimersMark DEF Courses
    <2>4. WalksOnCourse'
      BY <2>1, CourseMark DEF Courses
    <2>5. CallsCounted'
      BY <2>1 DEF Courses, CallsCounted, Called
    <2>6. QED
      BY <2>2, <2>3, <2>4, <2>5 DEF Courses
  <1>14. CASE PurgeEnd
    BY <1>13, <1>14 DEF PurgeEnd
  <1>15. CASE UNCHANGED vars
    BY <1>13, <1>15 DEF vars, hookVars
  <1>16. QED
    BY <1>1, <1>2, <1>3, <1>4, <1>5, <1>6, <1>7, <1>8, <1>9, <1>10, <1>11,
       <1>12, <1>14, <1>15 DEF Next, Callbacks, Walks

(***************************************************************************)
(* The stronger invariant holds in every state.                            *)
(***************************************************************************)
THEOREM WalkInvariant ==
  ASSUME ~TopLevelCommands
  PROVE  Spec => []WalkInv
  <1>1. Init => WalkInv
    BY IInvInit, CoursesInit DEF WalkInv
  <1>2. WalkInv /\ [Next]_vars => WalkInv'
    BY IInvStep, CoursesStep DEF WalkInv
  <1>3. QED
    BY <1>1, <1>2, PTL DEF Spec

(***************************************************************************)
(* A timer with an end is never called more often than it was registered   *)
(* for, whatever its callback does: hook_timer_exec() run again from the   *)
(* callback skips the hook that is running, and the last call marks it.    *)
(***************************************************************************)
THEOREM TimersKeepTheirLimit ==
  ASSUME ~TopLevelCommands
  PROVE  Spec => []TimerWithinLimit
  <1>1. WalkInv => TimerWithinLimit
    BY DEF WalkInv, Courses
  <1>2. QED
    BY <1>1, WalkInvariant, PTL

(***************************************************************************)
(* A walk of hook_*_exec() and hook_*_send() looks at no hook twice, and   *)
(* when it reaches the end it has looked at all that were there at its     *)
(* start and still are, commands in the order of their names and then of   *)
(* their priorities, the others in the order of their priorities, whatever *)
(* its callbacks added and removed.                                        *)
(***************************************************************************)
THEOREM WalksAreExact ==
  ASSUME ~TopLevelCommands
  PROVE  Spec => []WalkIsExact
  <1>1. ASSUME WalkInv
        PROVE  WalkIsExact
    <2>1. IInv /\ Courses
      BY <1>1 DEF WalkInv
    <2>2. ASSUME NEW i \in DOMAIN stack
          PROVE  LET f == stack[i] IN
                 /\ (~f.calling /\ f.ptr = NoHook) =>
                       f.start \cap Alive(f.type) \subseteq f.seen
                 /\ f.next \notin f.seen
                 /\ f.calling \/ f.ptr \notin f.seen
      <3>1. stack[i].type \in Types /\ list[stack[i].type] \in Seq(Hooks)
        BY <2>1, FrameFacts
      <3>2. /\ IsList(list[stack[i].type])
            /\ OnCourse(list[stack[i].type], deleted, stack[i])
        BY <2>1, <3>1 DEF Courses, Lists, WalksOnCourse
      <3>3. QED
        BY <3>1, <3>2, CourseIsExact DEF Alive
    <2>3. WalkIsComplete /\ WalkVisitsOnce
      BY <2>2 DEF WalkIsComplete, WalkVisitsOnce
    <2>4. HooksAreSorted
      <3> SUFFICES ASSUME NEW t \in Types,
                          NEW i \in DOMAIN list[t], NEW j \in DOMAIN list[t],
                          i < j, {list[t][i], list[t][j]} \cap deleted = {}
                   PROVE  InPlace(t, list[t][i], list[t][j])
        BY DEF HooksAreSorted
      <3>1. Before(list[t], list[t][i], list[t][j])
        BY DEF Before
      <3>2. list[t][i] \in Alive(t) /\ list[t][j] \in Alive(t)
        BY DEF Alive, Nodes
      <3>3. QED
        BY <2>1, <3>1, <3>2 DEF Courses, InOrder
    <2>5. QED
      BY <2>3, <2>4 DEF WalkIsExact
  <1>2. QED
    BY <1>1, WalkInvariant, PTL
=============================================================================
