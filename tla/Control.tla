------------------------------ MODULE Control ------------------------------
(***************************************************************************)
(* Errors, *catch and *throw, critical sections and the interrupt key in   *)
(* siod/slib.c.                                                            *)
(*                                                                         *)
(* One C thread evaluates Lisp.  `stack' is its C stack, reduced to the    *)
(* calls that matter here; the frame on top is the one executing.  longjmp *)
(* cuts the stack; only then does the leval_catch it returns to take the   *)
(* frames that are gone off the list.  SIGINT may arrive between any two   *)
(* steps: under Unix its handler raises an error at once unless            *)
(* nointerrupt is set, under Windows it leaves a flag that the evaluator   *)
(* polls.                                                                  *)
(***************************************************************************)
EXTENDS Naturals, Sequences

CONSTANTS Win32,    \* built for Windows
          AfterGC,  \* *after-gc* holds an expression
          MaxDepth  \* bound: frames on the stack

ASSUME ControlAssumption ==
  /\ Win32 \in BOOLEAN
  /\ AfterGC \in BOOLEAN
  /\ MaxDepth \in Nat \ {0}

VARIABLES
  stack,          \* the C stack, innermost frame last
  catch_framep,   \* the linked list of catch frames: their places in stack
  nointerrupt, interrupt_differed, errjmp_ok, inside_err,
  status          \* "running"; "fatal": exit 10; "astray": err has read
                  \* a catch frame that is gone

flags == <<nointerrupt, interrupt_differed, errjmp_ok, inside_err>>
vars == <<stack, catch_framep, flags, status>>

(* Tags of *catch: 'errobj, 'all (catchall) and any other.                 *)
Tag == {"errobj", "all", "other"}

(* Frames.  "catch": leval_catch, with its tag and the rest of the list;   *)
(* "landed" when its setjmp has returned for a longjmp, and "linked" when  *)
(* catch_framep has been set to its frame again.                           *)
(* "crit": between no_interrupt(1) and no_interrupt(flag).  "gc": the same *)
(* with errjmp_ok = 0.  "hook": *after-gc* evaluated by gc_for_newcell.    *)
(* "err": err, having found the frame `target' (0: none); its flag is      *)
(* was_inside.  "jump": err after it has cleared nointerrupt.  "restart":  *)
(* repl_driver after its setjmp.                                           *)
Frame(kind, tag, next, flag, target) ==
  [kind |-> kind, tag |-> tag, next |-> next, flag |-> flag, target |-> target]

Catching == {"catch", "landed", "linked"}

Top == stack[Len(stack)]
Pop == SubSeq(stack, 1, Len(stack) - 1)
Push(f) == Len(stack) < MaxDepth /\ stack' = Append(stack, f)
On(kinds) == status = "running" /\ stack # <<>> /\ Top.kind \in kinds
Lisp == status = "running" /\ (stack # <<>> => Top.kind \in {"catch", "hook"})

(* The frames of the list that match, the innermost one being the target.  *)
Matches(tags) == {k \in 1..Len(catch_framep) : stack[catch_framep[k]].tag \in tags}
IsTarget(i, tags) ==
  \/ i = 0 /\ Matches(tags) = {}
  \/ \E k \in Matches(tags) : (\A j \in Matches(tags) : k <= j) /\ i = catch_framep[k]

(* A frame of the list is no longer on the C stack.                        *)
Dangling ==
  \E k \in 1..Len(catch_framep) :
    ~(catch_framep[k] \in 1..Len(stack) /\ stack[catch_framep[k]].kind \in Catching)

Init ==
  /\ stack = <<Frame("restart", "all", <<>>, 0, 0)>>
  /\ catch_framep = <<>>
  /\ nointerrupt = 1
  /\ interrupt_differed = 0
  /\ errjmp_ok = 1
  /\ inside_err = 0
  /\ status = "running"
-----------------------------------------------------------------------------
(* Mutations: inside_err counts; it is not cleared before the longjmp to   *)
(* repl_driver.                                                            *)
Raise_Counts(s, ok) ==
  /\ ok = 1 /\ ~Dangling
  /\ Len(s) < MaxDepth
  /\ \E i \in 0..Len(stack) :
       /\ IsTarget(i, {"errobj", "all"})
       /\ stack' = Append(s, Frame("err", "all", <<>>, inside_err, i))
       /\ inside_err' = IF i = 0 THEN 0 ELSE inside_err + 1
  /\ nointerrupt' = 1
  /\ UNCHANGED status

Raise_StaysInside(s, ok) ==
  /\ ok = 1 /\ ~Dangling
  /\ Len(s) < MaxDepth
  /\ \E i \in 0..Len(stack) :
       /\ IsTarget(i, {"errobj", "all"})
       /\ stack' = Append(s, Frame("err", "all", <<>>, inside_err, i))
  /\ inside_err' = 1
  /\ nointerrupt' = 1
  /\ UNCHANGED status

(* err, called with s below it: fatal in the collector; otherwise it looks *)
(* along the list for a frame that catches errors.  What it does when a    *)
(* frame of the list is gone the code does not determine.                  *)
Raise(s, ok) ==
  \/ /\ ok = 1 /\ ~Dangling
     /\ Len(s) < MaxDepth
     /\ \E i \in 0..Len(stack) :
          /\ IsTarget(i, {"errobj", "all"})
          /\ stack' = Append(s, Frame("err", "all", <<>>, inside_err, i))
          /\ inside_err' = IF i = 0 THEN 0 ELSE 1
     /\ nointerrupt' = 1
     /\ UNCHANGED status
  \/ /\ ok = 1 /\ Dangling
     /\ status' = "astray"
     /\ UNCHANGED <<stack, nointerrupt, inside_err>>
  \/ /\ ok = 0
     /\ status' = "fatal"
     /\ UNCHANGED <<stack, nointerrupt, inside_err>>

Astray == status = "astray" /\ UNCHANGED vars

(* err conses the value of the error, unless it was called inside err.     *)
Consing == On({"err"}) /\ Top.flag = 0 /\ Top.target # 0

(* An error raised by the program: by a primitive, in Lisp or in a         *)
(* critical section, or by a failing allocation.                           *)
Error ==
  /\ Lisp \/ On({"crit"}) \/ Consing
  /\ Raise(stack, errjmp_ok)
  /\ UNCHANGED <<catch_framep, interrupt_differed, errjmp_ok>>

(* Mutation: nointerrupt stays set.                                        *)
ErrOpen_StaysMasked ==
  /\ On({"err"})
  /\ Top.target # 0
  /\ stack' = [stack EXCEPT ![Len(stack)].kind = "jump"]
  /\ UNCHANGED <<catch_framep, flags, status>>

(* The value is in the frame that catches; nointerrupt is cleared.         *)
ErrOpen ==
  /\ On({"err"})
  /\ Top.target # 0
  /\ stack' = [stack EXCEPT ![Len(stack)].kind = "jump"]
  /\ nointerrupt' = 0
  /\ UNCHANGED <<catch_framep, interrupt_differed, errjmp_ok, inside_err, status>>

(* longjmp to the leval_catch at place i: what was above it is gone, but   *)
(* catch_framep still names it.                                            *)
Longjmp(i) ==
  /\ stack' = Append(SubSeq(stack, 1, i - 1), [stack[i] EXCEPT !.kind = "landed"])
  /\ UNCHANGED catch_framep

(* err leaves in two steps: inside_err is cleared, then it jumps.          *)
ErrClear ==
  /\ On({"jump"})
  /\ inside_err # 0
  /\ inside_err' = 0
  /\ UNCHANGED <<stack, catch_framep, nointerrupt, interrupt_differed, errjmp_ok, status>>

ErrJump ==
  /\ On({"jump"})
  /\ inside_err = 0
  /\ Longjmp(Top.target)
  /\ UNCHANGED <<flags, status>>

(* leval_catch after a longjmp: catch_framep is its own frame again, ...   *)
CatchRelink ==
  /\ On({"landed"})
  /\ stack' = Append(Pop, [Top EXCEPT !.kind = "linked"])
  /\ catch_framep' = <<Len(stack)>> \o Top.next
  /\ UNCHANGED <<flags, status>>

(* Mutation: the frame stays linked.                                       *)
CatchUnlink_Linked ==
  /\ On({"linked"})
  /\ stack' = Pop
  /\ UNCHANGED <<catch_framep, flags, status>>

(* ... then the rest of the list, and it returns (once unlinked its frame  *)
(* is out of reach, so the return is no step of its own).                  *)
CatchUnlink ==
  /\ On({"linked"})
  /\ stack' = Pop
  /\ catch_framep' = Top.next
  /\ UNCHANGED <<flags, status>>

(* No frame catches the error: repl_driver starts over.                    *)
Restart ==
  /\ On({"err"})
  /\ Top.target = 0
  /\ stack' = <<Frame("restart", "all", <<>>, 0, 0)>>
  /\ catch_framep' = <<>>
  /\ errjmp_ok' = 1
  /\ interrupt_differed' = 0
  /\ UNCHANGED <<nointerrupt, inside_err, status>>

RestartOpen ==
  /\ On({"restart"})
  /\ stack' = Pop
  /\ nointerrupt' = 0
  /\ UNCHANGED <<catch_framep, interrupt_differed, errjmp_ok, inside_err, status>>
-----------------------------------------------------------------------------
CatchEnter(tag) ==
  /\ Lisp
  /\ Push(Frame("catch", tag, catch_framep, 0, 0))
  /\ catch_framep' = <<Len(stack) + 1>> \o catch_framep
  /\ UNCHANGED <<flags, status>>

(* Mutation: the frame stays linked.                                       *)
CatchReturn_Linked ==
  /\ On({"catch"})
  /\ stack' = Pop
  /\ UNCHANGED <<catch_framep, flags, status>>

(* leval_catch_1 unlinks whatever frame is first in the list.              *)
CatchReturn ==
  /\ On({"catch"})
  /\ stack' = Pop
  /\ catch_framep' = stack[Head(catch_framep)].next
  /\ UNCHANGED <<flags, status>>

Throw(tag) ==
  /\ Lisp
  /\ \E i \in 1..Len(stack) : IsTarget(i, {tag, "all"}) /\ Longjmp(i)
  /\ UNCHANGED <<flags, status>>

ThrowUncaught(tag) ==
  /\ Lisp
  /\ IsTarget(0, {tag, "all"})
  /\ Raise(stack, errjmp_ok)
  /\ UNCHANGED <<catch_framep, interrupt_differed, errjmp_ok>>
-----------------------------------------------------------------------------
(* Every allocation may collect.                                           *)
Allocating == Lisp \/ On({"crit"}) \/ Consing

CritEnter ==
  /\ Allocating
  /\ Push(Frame("crit", "all", <<>>, nointerrupt, 0))
  /\ nointerrupt' = 1
  /\ UNCHANGED <<catch_framep, interrupt_differed, errjmp_ok, inside_err, status>>

GcEnter ==
  /\ Allocating
  /\ Push(Frame("gc", "all", <<>>, nointerrupt, 0))
  /\ nointerrupt' = 1
  /\ errjmp_ok' = 0
  /\ UNCHANGED <<catch_framep, interrupt_differed, inside_err, status>>

(* Mutation: an interrupt that was put off is forgotten about.             *)
Deferred_Never == FALSE

(* no_interrupt(flag) at the end of the section: an interrupt that was put *)
(* off is raised when interrupts are allowed again.                        *)
Deferred == Top.flag = 0 /\ interrupt_differed = 1

(* Under Unix SIGINT may come after nointerrupt = 0 and before the test:   *)
(* its handler raises and leaves the other interrupt put off.              *)
RaisedOrLeft == interrupt_differed' = 0 \/ (~Win32 /\ UNCHANGED interrupt_differed)

(* Mutation: no_interrupt(0) instead of no_interrupt(flag).                *)
CritExit_Opens ==
  /\ On({"crit"})
  /\ ~Deferred
  /\ nointerrupt' = 0
  /\ stack' = Pop
  /\ UNCHANGED <<catch_framep, interrupt_differed, errjmp_ok, inside_err, status>>

CritExit ==
  /\ On({"crit"})
  /\ ~Deferred
  /\ nointerrupt' = Top.flag
  /\ stack' = Pop
  /\ UNCHANGED <<catch_framep, interrupt_differed, errjmp_ok, inside_err, status>>

CritExitInterrupted ==
  /\ On({"crit"})
  /\ Deferred
  /\ RaisedOrLeft
  /\ Raise(Pop, errjmp_ok)
  /\ UNCHANGED <<catch_framep, errjmp_ok>>

(* Mutations: errjmp_ok is set only after *after-gc*; only after           *)
(* no_interrupt(flag).                                                     *)
GcExit_HookInside ==
  /\ On({"gc"})
  /\ ~Deferred
  /\ nointerrupt' = Top.flag
  /\ \/ stack' = Pop /\ errjmp_ok' = 1
     \/ /\ AfterGC /\ stack' = Append(Pop, Frame("hook", "all", <<>>, 0, 0))
        /\ UNCHANGED errjmp_ok
  /\ UNCHANGED <<catch_framep, interrupt_differed, inside_err, status>>

GcExitInterrupted_TooEarly ==
  /\ On({"gc"})
  /\ Deferred
  /\ RaisedOrLeft
  /\ UNCHANGED errjmp_ok
  /\ Raise(Pop, errjmp_ok)
  /\ UNCHANGED catch_framep

(* errjmp_ok is set again before no_interrupt(flag); then gc_for_newcell   *)
(* may evaluate *after-gc*.                                                *)
GcExit ==
  /\ On({"gc"})
  /\ ~Deferred
  /\ nointerrupt' = Top.flag
  /\ errjmp_ok' = 1
  /\ \/ stack' = Pop
     \/ AfterGC /\ stack' = Append(Pop, Frame("hook", "all", <<>>, 0, 0))
  /\ UNCHANGED <<catch_framep, interrupt_differed, inside_err, status>>

GcExitInterrupted ==
  /\ On({"gc"})
  /\ Deferred
  /\ RaisedOrLeft
  /\ errjmp_ok' = 1
  /\ Raise(Pop, 1)
  /\ UNCHANGED catch_framep

HookReturn ==
  /\ On({"hook"})
  /\ stack' = Pop
  /\ UNCHANGED <<catch_framep, flags, status>>
-----------------------------------------------------------------------------
(* handle_sigint.                                                          *)
SigintDeferred ==
  /\ status = "running"
  /\ Win32 \/ nointerrupt = 1
  /\ interrupt_differed' = 1
  /\ UNCHANGED <<stack, catch_framep, nointerrupt, errjmp_ok, inside_err, status>>

SigintRaised ==
  /\ status = "running"
  /\ ~Win32 /\ nointerrupt = 0
  /\ Raise(stack, errjmp_ok)
  /\ UNCHANGED <<catch_framep, interrupt_differed, errjmp_ok>>

(* INTERRUPT_CHECK, in the evaluator, whatever nointerrupt is.             *)
InterruptCheck ==
  /\ Win32
  /\ Lisp
  /\ interrupt_differed = 1
  /\ interrupt_differed' = 0
  /\ Raise(stack, errjmp_ok)
  /\ UNCHANGED <<catch_framep, errjmp_ok>>

Next ==
  \/ \E tag \in Tag : CatchEnter(tag) \/ Throw(tag) \/ ThrowUncaught(tag)
  \/ CatchReturn \/ CatchRelink \/ CatchUnlink
  \/ Error \/ ErrOpen \/ ErrClear \/ ErrJump \/ Restart \/ RestartOpen
  \/ CritEnter \/ CritExit \/ CritExitInterrupted
  \/ GcEnter \/ GcExit \/ GcExitInterrupted \/ HookReturn
  \/ SigintDeferred \/ SigintRaised \/ InterruptCheck
  \/ Astray

Spec == Init /\ [][Next]_vars

(* A critical section is straight-line C code that makes finitely many     *)
(* calls, so the one at each depth ends; and so does a collection.         *)
CritEndsAt(d) == Len(stack) = d /\ (CritExit \/ CritExitInterrupted)
Fairness == /\ \A d \in 1..MaxDepth : SF_vars(CritEndsAt(d))
            /\ WF_vars(GcExit \/ GcExitInterrupted)
FairSpec == Spec /\ Fairness
-----------------------------------------------------------------------------
Kind == Catching \union {"crit", "gc", "hook", "err", "jump", "restart"}
Has(kinds) == \E i \in 1..Len(stack) : stack[i].kind \in kinds

(* Every variable has its type.                                            *)
TypeOK ==
  /\ stack \in Seq([kind : Kind, tag : Tag, next : Seq(Nat), flag : {0, 1}, target : Nat])
  /\ catch_framep \in Seq(Nat)
  /\ nointerrupt \in {0, 1}
  /\ interrupt_differed \in {0, 1}
  /\ errjmp_ok \in {0, 1}
  /\ inside_err \in {0, 1}
  /\ status \in {"running", "fatal", "astray"}

(* c lists exactly the calls of leval_catch that are on the C stack,       *)
(* innermost first, and each of them keeps the rest of the list.           *)
ListsLive(c) ==
  /\ \A k \in 1..Len(c) :
       /\ c[k] \in 1..Len(stack)
       /\ stack[c[k]].kind \in Catching
       /\ stack[c[k]].next = SubSeq(c, k + 1, Len(c))
       /\ \A j \in 1..Len(c) : j < k => c[j] > c[k]
  /\ \A i \in 1..Len(stack) :
       stack[i].kind \in Catching => \E k \in 1..Len(c) : c[k] = i

(* catch_framep lists exactly the live calls of leval_catch, except that   *)
(* between a longjmp and the assignment in the leval_catch it returns to   *)
(* the calls that were cut off still come first.                           *)
CatchFramesLive ==
  \E n \in 0..Len(catch_framep) :
    /\ ListsLive(SubSeq(catch_framep, n + 1, Len(catch_framep)))
    /\ \A k \in 1..n : catch_framep[k] > Len(stack)
    /\ n # 0 => stack # <<>> /\ Top.kind = "landed"

(* No interrupt and no error ends the process: err is never called while   *)
(* the collector runs, which can neither longjmp nor go on.                *)
NeverFatal == status # "fatal"

(* Only SIGINT under Unix, just after a longjmp, makes err read a catch    *)
(* frame that is gone: no error of the program, no interrupt that was put  *)
(* off or polled for, and no SIGINT at another place does.                 *)
OnlyLandingStrays ==
  status = "astray" => ~Win32 /\ stack # <<>> /\ Top.kind = "landed"

(* Every error, throw and interrupt finds a place to go: the frame it      *)
(* jumps to is alive, except in the window above, and it is not raised     *)
(* where no jump is allowed.                                               *)
JumpsLand == CatchFramesLive /\ NeverFatal /\ OnlyLandingStrays

(* With no *after-gc* expression no interrupt comes in the middle of a     *)
(* critical section.                                                       *)
CriticalProtected == ~AfterGC /\ On({"crit", "gc"}) => nointerrupt = 1

(* With no *after-gc* expression interrupts are disabled only where some   *)
(* code will enable them again.                                            *)
NotStuck == ~AfterGC /\ nointerrupt = 1 => Has({"crit", "gc", "err", "restart"})

(* With no *after-gc* expression inside_err is set only while err runs, so *)
(* no later error loses its value because of an earlier one.               *)
InsideErrOnlyInErr == ~AfterGC /\ inside_err = 1 => Has({"err", "jump"})

(* The flags mean what the C stack says, however sections, collections and *)
(* errors nest and whatever was unwound.                                   *)
FlagsMean == CriticalProtected /\ NotStuck /\ InsideErrOnlyInErr

(* An interrupt that arrives in a critical section is not lost: it is      *)
(* raised at the end of the section, if no other error is raised before.   *)
DeferredIsRaised ==
  interrupt_differed = 1 /\ On({"crit", "gc"}) ~> Has({"err", "jump"})
=============================================================================
