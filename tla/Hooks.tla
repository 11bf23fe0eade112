-------------------------------- MODULE Hooks -------------------------------
(***************************************************************************)
(* The hooks of core/wee-hook.c and core/hook/*.c.                         *)
(*                                                                         *)
(* A hook is a callback that a plugin registers.  When something happens   *)
(* (time passes, a signal is sent, a command is run, an info is asked for) *)
(* the program walks the list of hooks of that type and calls the matching *)
(* ones.  There is one thread, but a callback may do everything again from *)
(* inside the walk: add hooks, remove any hook (itself and the one the     *)
(* walk visits next included), and start a nested walk.  A hook removed    *)
(* while a walk is active is only marked `deleted'; the last walk to end   *)
(* frees the marked hooks.                                                 *)
(*                                                                         *)
(* The call stack of the walks is explicit: each frame holds the two       *)
(* pointers of the loop (ptr_hook and next_hook).  Addresses are reused:   *)
(* a hook that was freed may be allocated again with another type.         *)
(***************************************************************************)
EXTENDS HookList, Integers, FiniteSets

CONSTANTS
  Hooks,              \* addresses that malloc() returns for a struct t_hook
  Types,              \* the types of hooks of the model, see HookTypes
  Priorities,         \* the priorities given to new hooks
  CommandNames,       \* names of commands, as numbers: see Precedes
  MaxCallsValues,     \* the values of max_calls given to hook_timer()
  MaxDepth,           \* bound: nested walks
  HOOK_COMMAND_MAX_CALLS,
  TopLevelCommands    \* may a command run outside every hook callback?

(***************************************************************************)
(* The types, named as in enum t_hook_type.  "signal" stands for those     *)
(* whose walk stops at one answer of a callback (signal and hsignal at     *)
(* WHOREIRC_RC_OK_EAT, modifier at an empty string), "info" for those      *)
(* whose walk ends after the first hook called (info, info_hashtable,      *)
(* infolist, hdata), "timer" also for those that call every match (print,  *)
(* config, completion, focus, fd, process), with max_calls = 0.            *)
(***************************************************************************)
HookTypes == {"timer", "signal", "info", "command_run", "command"}

(* The callback's answer ends the walk. *)
StopsAtEat   == {"signal", "command_run"}
StopsAtFirst == {"info"}

ASSUME HooksAssumption ==
  /\ NoHook \notin Hooks
  /\ Types \subseteq HookTypes
  /\ Priorities \subseteq Int /\ Priorities # {}
  /\ CommandNames \subseteq Int /\ CommandNames # {}
  /\ MaxCallsValues \subseteq Nat
  /\ MaxDepth \in Nat
  /\ HOOK_COMMAND_MAX_CALLS \in Nat
  /\ TopLevelCommands \in BOOLEAN

VARIABLES
  list,       \* weechat_hooks[type]: the linked list of each type
  priority,   \* hook->priority
  command,    \* HOOK_COMMAND(hook, command); AnyName for the other types
  remaining,  \* HOOK_TIMER(hook, remaining_calls); 0: the timer has no end
  deleted,    \* the hooks with hook->deleted = 1
  running,    \* hook->running
  real_delete_pending,
  hook_exec_recursion,
  stack,      \* the active walks, the innermost last
  purging,    \* hook_remove_deleted() is at work
  limit,      \* history: max_calls of the timer, as registered
  fired       \* history: how often a timer with an end was called

hookVars == <<list, priority, command, remaining, deleted, running, limit,
              fired>>
vars == <<list, priority, command, remaining, deleted, running,
          real_delete_pending, hook_exec_recursion, stack, purging, limit,
          fired>>

(***************************************************************************)
(* A walk: its list, the hook it is at (ptr_hook), the next one, saved     *)
(* before the callback is called (next_hook), whether the callback is      *)
(* running, and two history fields: the hooks that were alive when the     *)
(* walk began, and those it has looked at.                                 *)
(***************************************************************************)
Frame == [type: Types, ptr: Hooks \cup {NoHook}, next: Hooks \cup {NoHook},
          calling: BOOLEAN, start: SUBSET Hooks, seen: SUBSET Hooks]

TypeOK ==
  /\ list \in [Types -> Seq(Hooks)]
  /\ priority \in [Hooks -> Priorities]
  /\ command \in [Hooks -> CommandNames]
  /\ remaining \in [Hooks -> Nat]
  /\ deleted \in SUBSET Hooks
  /\ running \in [Hooks -> Int]
  /\ real_delete_pending \in BOOLEAN
  /\ hook_exec_recursion \in Nat
  /\ stack \in Seq(Frame)
  /\ purging \in BOOLEAN
  /\ limit \in [Hooks -> Nat]
  /\ fired \in [Hooks -> Nat]

Linked == UNION {Nodes(list[t]) : t \in Types}     \* the hooks not freed
Alive(t) == Nodes(list[t]) \ deleted

(* hook_valid *)
Valid(h) == h \in Linked \ deleted

Top == stack[Len(stack)]
Pop == SubSeq(stack, 1, Len(stack) - 1)
SetTop(f) == [stack EXCEPT ![Len(stack)] = f]

(***************************************************************************)
(* Code outside this file is running: the main loop, or a callback.        *)
(***************************************************************************)
Outside == ~purging /\ (stack # <<>> => Top.calling)

AnyName == CHOOSE c \in CommandNames : TRUE

Init ==
  /\ list = [t \in Types |-> <<>>]
  /\ priority = [h \in Hooks |-> CHOOSE p \in Priorities : TRUE]
  /\ command = [h \in Hooks |-> AnyName]
  /\ remaining = [h \in Hooks |-> 0]
  /\ deleted = {}
  /\ running = [h \in Hooks |-> 0]
  /\ real_delete_pending = FALSE
  /\ hook_exec_recursion = 0
  /\ stack = <<>>
  /\ purging = FALSE
  /\ limit = [h \in Hooks |-> 0]
  /\ fired = [h \in Hooks |-> 0]
-----------------------------------------------------------------------------
(***************************************************************************)
(* The order of hook_find_pos(): a new hook of type t, with name c and     *)
(* priority p, goes before the hook y.  Commands are sorted by their names *)
(* (numbers here, compared as string_strcasecmp() compares the names), and *)
(* by priority only under the same name, which two plugins may both use.   *)
(***************************************************************************)
Precedes_AnyName(t, c, p, y) == p > priority[y]    \* faulty: one order

Precedes(t, c, p, y) ==
  IF t = "command"
  THEN c < command[y] \/ (c = command[y] /\ p > priority[y])
  ELSE p > priority[y]

(***************************************************************************)
(* hook_timer(), hook_command()...: hook_init_data and hook_add_to_list.   *)
(***************************************************************************)
AddHook(t, h, c, p, n) ==
  /\ Outside
  /\ h \notin Linked
  /\ t # "timer" => n = 0
  /\ t # "command" => c = AnyName
  /\ LET after == {y \in Hooks : Precedes(t, c, p, y)} IN
     list' = [list EXCEPT ![t] = InsertNode(@, FindPos(@, deleted, after), h)]
  /\ priority' = [priority EXCEPT ![h] = p]
  /\ command' = [command EXCEPT ![h] = c]
  /\ remaining' = [remaining EXCEPT ![h] = n]
  /\ running' = [running EXCEPT ![h] = 0]
  /\ limit' = [limit EXCEPT ![h] = n]
  /\ fired' = [fired EXCEPT ![h] = 0]
  /\ UNCHANGED <<deleted, real_delete_pending, hook_exec_recursion, stack,
                 purging>>

(***************************************************************************)
(* unhook(h) for a hook that hook_valid() accepts; it does nothing for     *)
(* another pointer.  The hook leaves the list at once only when no hook    *)
(* exec is pending.                                                        *)
(***************************************************************************)
Free(h) ==
  list' = [t \in Types |-> IF h \in Nodes(list[t])
                           THEN RemoveNode(list[t], IndexOf(list[t], h))
                           ELSE list[t]]

FreeOrMark_AlwaysFrees(h) ==     \* faulty: ignores the active walks
  Free(h) /\ UNCHANGED <<deleted, real_delete_pending>>

FreeOrMark(h) ==
  IF hook_exec_recursion = 0
  THEN /\ Free(h)
       /\ UNCHANGED <<deleted, real_delete_pending>>
  ELSE /\ deleted' = deleted \cup {h}
       /\ real_delete_pending' = TRUE
       /\ UNCHANGED list

Unhook(h) ==
  /\ Outside
  /\ Valid(h)
  /\ FreeOrMark(h)
  /\ UNCHANGED <<priority, command, remaining, running, hook_exec_recursion,
                 stack, purging, limit, fired>>
-----------------------------------------------------------------------------
Walk(t) == [type |-> t, ptr |-> HeadOf(list[t]), next |-> NoHook,
            calling |-> FALSE, start |-> Alive(t), seen |-> {}]

(***************************************************************************)
(* hook_timer_exec(), hook_signal_send(), hook_info_get()...: start a walk.*)
(***************************************************************************)
Exec(t) ==
  /\ Outside
  /\ Len(stack) < MaxDepth
  /\ t \notin {"command_run", "command"}
  /\ t = "timer" => list[t] # <<>>
  /\ hook_exec_recursion' = hook_exec_recursion + 1
  /\ stack' = Append(stack, Walk(t))
  /\ UNCHANGED <<hookVars, real_delete_pending, purging>>

(***************************************************************************)
(* hook_command_exec() first offers the command to the hooks of type       *)
(* command_run: hook_command_run_exec() walks that list like the others,   *)
(* but it does not call hook_exec_start() and hook_exec_end().             *)
(***************************************************************************)
ExecCommand ==
  /\ {"command_run", "command"} \subseteq Types
  /\ Outside
  /\ Len(stack) < MaxDepth
  /\ stack = <<>> => TopLevelCommands
  /\ stack' = Append(stack, Walk("command_run"))
  /\ UNCHANGED <<hookVars, real_delete_pending, hook_exec_recursion, purging>>

(* The walk is at a hook and must decide whether to call it. *)
Visiting == ~purging /\ stack # <<>> /\ ~Top.calling /\ Top.type # "command"

(***************************************************************************)
(* One turn of the loop.  The hook is skipped when it is deleted, running  *)
(* in an outer walk, or does not match; else its callback is called.       *)
(***************************************************************************)
Skip ==
  /\ Visiting
  /\ Top.ptr # NoHook
  /\ stack' = SetTop([Top EXCEPT !.ptr = NextHook(list[Top.type], Top.ptr),
                                 !.seen = @ \cup {Top.ptr}])
  /\ UNCHANGED <<hookVars, real_delete_pending, hook_exec_recursion, purging>>

CanCall_Reentrant(h) == h \notin deleted     \* faulty: no test of running

CanCall(h) == h \notin deleted /\ running[h] = 0

Call ==
  /\ Visiting
  /\ Top.ptr # NoHook
  /\ CanCall(Top.ptr)
  /\ running' = [running EXCEPT ![Top.ptr] = 1]
  /\ fired' = IF limit[Top.ptr] > 0
              THEN [fired EXCEPT ![Top.ptr] = @ + 1] ELSE fired
  /\ stack' = SetTop([Top EXCEPT !.next = NextHook(list[Top.type], Top.ptr),
                                 !.calling = TRUE,
                                 !.seen = @ \cup {Top.ptr}])
  /\ UNCHANGED <<list, priority, command, remaining, deleted,
                 real_delete_pending, hook_exec_recursion, purging, limit>>

(***************************************************************************)
(* The callback returns to the loop.  hook_timer_exec() then counts the    *)
(* call and unhooks the timer after the last one, unless the callback      *)
(* unhooked it; a walk that is over (EAT, first answer) goes to its end,   *)
(* and a command that is eaten is not executed at all.                     *)
(***************************************************************************)
IsLiveTimer(h) == Top.type = "timer" /\ h \notin deleted

LastCall(h) == IsLiveTimer(h) /\ remaining[h] = 1

CountCall_Unchecked(h) ==     \* faulty: also counts a timer without end
  IF IsLiveTimer(h) THEN [remaining EXCEPT ![h] = @ - 1] ELSE remaining

CountCall(h) ==
  IF IsLiveTimer(h) /\ remaining[h] > 0
  THEN [remaining EXCEPT ![h] = @ - 1] ELSE remaining

LeaveHook(h) == [running EXCEPT ![h] = 0]

Resume_FromHead == HeadOf(list[Top.type])     \* faulty: starts over

Resume == Top.next

Return(over) ==
  /\ ~purging
  /\ stack # <<>>
  /\ Top.calling
  /\ Top.type # "command"
  /\ over => Top.type \in StopsAtEat \cup StopsAtFirst
  /\ Top.type \in StopsAtFirst => over
  /\ LET h == Top.ptr IN
     /\ running' = LeaveHook(h)
     /\ remaining' = CountCall(h)
     /\ IF LastCall(h) THEN FreeOrMark(h)
        ELSE UNCHANGED <<list, deleted, real_delete_pending>>
  /\ stack' = IF over /\ Top.type = "command_run" THEN Pop
              ELSE SetTop([Top EXCEPT !.ptr = IF over THEN NoHook ELSE Resume,
                                      !.next = NoHook,
                                      !.calling = FALSE,
                                      !.start = IF over THEN {} ELSE @])
  /\ UNCHANGED <<priority, command, hook_exec_recursion, purging, limit,
                 fired>>

(***************************************************************************)
(* hook_exec_end(): the last walk to end starts hook_remove_deleted().     *)
(***************************************************************************)
ExecEnd_NeverPurges ==     \* faulty: forgets the hooks marked deleted
  /\ hook_exec_recursion' = hook_exec_recursion - 1
  /\ UNCHANGED purging

ExecEnd ==
  /\ hook_exec_recursion' = IF hook_exec_recursion > 0
                            THEN hook_exec_recursion - 1 ELSE 0
  /\ purging' = (hook_exec_recursion' = 0 /\ real_delete_pending)

Finish ==
  /\ Visiting
  /\ Top.ptr = NoHook
  /\ Top.type # "command_run"
  /\ stack' = Pop
  /\ ExecEnd
  /\ UNCHANGED <<hookVars, real_delete_pending>>

(***************************************************************************)
(* hook_command_run_exec() is over.  If no callback ate the command,       *)
(* hook_command_exec() goes on: hook_exec_start(), then the choice of one  *)
(* hook of type command by its name, or of none (not found, ambiguous, or  *)
(* already running HOOK_COMMAND_MAX_CALLS times), and hook_exec_end().     *)
(***************************************************************************)
CommandNotFound ==
  /\ Visiting
  /\ Top.type = "command_run"
  /\ Top.ptr = NoHook
  /\ stack' = Pop
  /\ purging' = (hook_exec_recursion = 0 /\ real_delete_pending)
  /\ UNCHANGED <<hookVars, real_delete_pending, hook_exec_recursion>>

CommandFound(h) ==
  /\ Visiting
  /\ Top.type = "command_run"
  /\ Top.ptr = NoHook
  /\ "command" \in Types
  /\ h \in Alive("command")
  /\ running[h] < HOOK_COMMAND_MAX_CALLS
  /\ hook_exec_recursion' = hook_exec_recursion + 1
  /\ running' = [running EXCEPT ![h] = @ + 1]
  /\ stack' = SetTop([type |-> "command", ptr |-> h, next |-> NoHook,
                      calling |-> TRUE, start |-> {}, seen |-> {}])
  /\ UNCHANGED <<list, priority, command, remaining, deleted,
                 real_delete_pending, purging, limit, fired>>

CommandReturn ==
  /\ ~purging
  /\ stack # <<>>
  /\ Top.calling
  /\ Top.type = "command"
  /\ running' = [running EXCEPT ![Top.ptr] = @ - 1]
  /\ stack' = Pop
  /\ ExecEnd
  /\ UNCHANGED <<list, priority, command, remaining, deleted,
                 real_delete_pending, limit, fired>>

(***************************************************************************)
(* One turn of the loop of hook_remove_deleted(), which nothing else can   *)
(* interrupt: free a marked hook; when none is left, clear the flag.       *)
(***************************************************************************)
PurgeOne ==
  /\ purging
  /\ \E t \in Types : \E i \in DOMAIN list[t] :
       /\ list[t][i] \in deleted
       /\ \A j \in DOMAIN list[t] : list[t][j] \in deleted => i <= j
       /\ list' = [list EXCEPT ![t] = RemoveNode(@, i)]
       /\ deleted' = deleted \ {list[t][i]}
  /\ UNCHANGED <<priority, command, remaining, running, real_delete_pending,
                 hook_exec_recursion, stack, purging, limit, fired>>

PurgeEnd ==
  /\ purging
  /\ Linked \cap deleted = {}
  /\ real_delete_pending' = FALSE
  /\ purging' = FALSE
  /\ UNCHANGED <<hookVars, hook_exec_recursion, stack>>
-----------------------------------------------------------------------------
Callbacks ==      \* what the main loop and the callbacks may do
  \/ \E t \in Types, h \in Hooks, c \in CommandNames, p \in Priorities,
        n \in MaxCallsValues : AddHook(t, h, c, p, n)
  \/ \E h \in Hooks : Unhook(h)
  \/ \E t \in Types : Exec(t)
  \/ ExecCommand

Walks ==          \* what the loops of the walks do
  \/ Skip
  \/ Call
  \/ \E over \in BOOLEAN : Return(over)
  \/ Finish
  \/ CommandNotFound
  \/ \E h \in Hooks : CommandFound(h)
  \/ CommandReturn
  \/ PurgeOne
  \/ PurgeEnd

Next == Callbacks \/ Walks

Spec == Init /\ [][Next]_vars
-----------------------------------------------------------------------------
(***************************************************************************)
(* No walk holds a pointer to a hook that was freed: neither the hook it   *)
(* is at nor the one it saved before the callback.  unhook() relies on     *)
(* hook_exec_recursion to know that a walk is active (wee-hook.c, "there   *)
(* is one or more hook exec, then delete later").                          *)
(***************************************************************************)
NoDanglingWalk ==
  \A i \in DOMAIN stack :
     {stack[i].ptr, stack[i].next} \subseteq
        Nodes(list[stack[i].type]) \cup {NoHook}

(***************************************************************************)
(* A walk that reaches the end of the list has looked at every hook that   *)
(* was there when it began and is still there, whatever the callbacks      *)
(* added and removed meanwhile.                                            *)
(***************************************************************************)
WalkIsComplete ==
  \A i \in DOMAIN stack :
     (~stack[i].calling /\ stack[i].ptr = NoHook) =>
        stack[i].start \cap Alive(stack[i].type) \subseteq stack[i].seen

(***************************************************************************)
(* A walk never looks at the same hook twice: what a callback adds before  *)
(* or after the current hook cannot send the loop backwards.               *)
(***************************************************************************)
WalkVisitsOnce ==
  \A i \in DOMAIN stack :
     /\ stack[i].next \notin stack[i].seen
     /\ stack[i].calling \/ stack[i].ptr \notin stack[i].seen

(***************************************************************************)
(* A timer registered for N calls is called at most N times, even when its *)
(* callback runs the timers again (hook_timer_exec in a nested walk).      *)
(***************************************************************************)
TimerWithinLimit == \A h \in Hooks : limit[h] > 0 => fired[h] <= limit[h]

(***************************************************************************)
(* Once no walk is active, every hook that was unhooked has been freed.    *)
(***************************************************************************)
NothingLeftDeleted ==
  (stack = <<>> /\ ~purging) => deleted = {} /\ ~real_delete_pending

(***************************************************************************)
(* "Hooks are sorted by priority, except commands which are sorted by      *)
(* command name, and then priority" (wee-hook.c), although hook_find_pos() *)
(* ignores the deleted hooks that are still linked between them.           *)
(***************************************************************************)
InPlace(t, x, y) ==
  IF t = "command"
  THEN command[x] <= command[y]
       /\ (command[x] = command[y] => priority[x] >= priority[y])
  ELSE priority[x] >= priority[y]

HooksAreSorted ==
  \A t \in Types : \A i, j \in DOMAIN list[t] :
     (i < j /\ {list[t][i], list[t][j]} \cap deleted = {}) =>
        InPlace(t, list[t][i], list[t][j])

(***************************************************************************)
(* A walk is exact: it looks once at each hook that stays, in the order    *)
(* that is due to its list (hook_*_exec() and hook_*_send()): commands by  *)
(* name and then priority, the others by priority.                         *)
(***************************************************************************)
WalkIsExact == WalkIsComplete /\ WalkVisitsOnce /\ HooksAreSorted
-----------------------------------------------------------------------------
(***************************************************************************)
(* The inductive invariant behind NoDanglingWalk and NothingLeftDeleted    *)
(* (Hooks_proofs): the pointers of a walk are linked, hook_exec_recursion  *)
(* counts the walks that called hook_exec_start(), the outermost walk is   *)
(* one of them, hooks are marked only while a walk is active, and they are *)
(* freed when there is none.                                               *)
(***************************************************************************)
Guarded(s) == {i \in DOMAIN s : s[i].type # "command_run"}

RecursionCountsWalks == hook_exec_recursion = Cardinality(Guarded(stack))

PointersOf(f) ==
  /\ {f.ptr, f.next} \subseteq Nodes(list[f.type]) \cup {NoHook}
  /\ f.calling => f.ptr # NoHook

PointersAreLinked == \A i \in DOMAIN stack : PointersOf(stack[i])

OutermostIsGuarded == stack # <<>> => stack[1].type # "command_run"

FreedInTime ==
  /\ purging => stack = <<>> /\ hook_exec_recursion = 0
  /\ deleted \subseteq Linked
  /\ deleted # {} => real_delete_pending
  /\ real_delete_pending => purging \/ stack # <<>>

IInv ==
  /\ TypeOK
  /\ PointersAreLinked
  /\ RecursionCountsWalks
  /\ OutermostIsGuarded
  /\ FreedInTime
-----------------------------------------------------------------------------
(***************************************************************************)
(* What the rest of the invariant adds for WalkIsExact and                 *)
(* TimerWithinLimit.  The lists: a hook is linked once, in one list, and   *)
(* the hooks not marked are sorted.                                        *)
(***************************************************************************)
Lists ==
  /\ \A t \in Types : IsList(list[t])
  /\ \A t, u \in Types : t # u => Nodes(list[t]) \cap Nodes(list[u]) = {}

InOrder ==
  \A t \in Types : \A x, y \in Alive(t) :
     Before(list[t], x, y) => InPlace(t, x, y)

(***************************************************************************)
(* The walks: the hook that comes next is after those looked at, and the   *)
(* hooks that were there from the start and are not yet looked at come     *)
(* from it on.  D is the set of the hooks marked in the list s.            *)
(***************************************************************************)
Ahead(f) == IF f.calling THEN f.next ELSE f.ptr

OnCourse(s, D, f) ==
  /\ f.start \subseteq Nodes(s) /\ f.seen \subseteq Nodes(s)
  /\ ~f.calling => f.next = NoHook
  /\ Ahead(f) # NoHook => \A x \in f.seen : Before(s, x, Ahead(f))
  /\ \A x \in f.start \ (D \cup f.seen) :
        Ahead(f) # NoHook /\ (x = Ahead(f) \/ Before(s, Ahead(f), x))

WalksOnCourse ==
  \A i \in DOMAIN stack :
     OnCourse(list[stack[i].type], deleted, stack[i])

(***************************************************************************)
(* The calls: hook->running is 1 for a hook whose callback was called by   *)
(* a walk, and no other walk calls the same one.                           *)
(***************************************************************************)
Called(f) == f.calling /\ f.type # "command"

CallsCounted ==
  \A i \in DOMAIN stack : Called(stack[i]) =>
     /\ running[stack[i].ptr] = 1
     /\ \A j \in DOMAIN stack :
           Called(stack[j]) /\ stack[j].ptr = stack[i].ptr => j = i

(***************************************************************************)
(* The timers: what is left and what was done make the limit, with the     *)
(* call that is not yet counted.                                           *)
(***************************************************************************)
TimerCounted(t, h) ==
  limit[h] > 0 =>
     /\ t = "timer"
     /\ h \notin deleted =>
          /\ remaining[h] > 0
          /\ fired[h] + remaining[h] = limit[h] + running[h]

TimersCounted ==
  \A t \in Types : \A h \in Nodes(list[t]) : TimerCounted(t, h)

Courses ==
  /\ Lists
  /\ InOrder
  /\ WalksOnCourse
  /\ CallsCounted
  /\ TimersCounted
  /\ TimerWithinLimit

WalkInv == IInv /\ Courses
=============================================================================
