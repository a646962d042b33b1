------------------------------- MODULE ElmLists -------------------------------
(***************************************************************************)
(* GuardRails.c: the intrusive lists of a bin (insertElmHead, rmElm), one  *)
(* pointer written at a time, and the calls that a thread makes inside     *)
(* others: a report (onExitHelper) that getBuf or a signal starts, and the *)
(* allocations that the C library makes for the report.                    *)
(*                                                                         *)
(* There is one thread: the slot's lock keeps the others out, but being    *)
(* recursive it lets the calls in that its holder makes.  The thread's     *)
(* stack is a sequence of frames, the running one last.  There is one slot *)
(* with one bin, that of a page: the requests of the program and those of  *)
(* the C library are small, and all of one unit.  Options -d and -t are    *)
(* those of SlotHeap: here a freed block is free at once, and reports are  *)
(* written to a file.                                                      *)
(***************************************************************************)
EXTENDS Integers, Sequences, SequencesExt, FiniteSets

CONSTANTS
  Blocks, NoBlock,
  LowWater, HighWater, \* of the bin
  DumpInterval,        \* -D
  MaxRequestedBytes,   \* -M
  AbortOnOOM,          \* -a
  Signals,             \* whether SIGUSR2 may arrive while a call is running
  RequestBound,        \* a bound of the model: the program's requests
  MaxFrames            \* a bound of the model: the depth of the stack

ASSUME ListsAssumption ==
  /\ NoBlock \notin Blocks /\ IsFiniteSet(Blocks)
  /\ {LowWater, HighWater, DumpInterval, MaxRequestedBytes} \subseteq Nat
  /\ HighWater <= Cardinality(Blocks)
  /\ {AbortOnOOM, Signals} \subseteq BOOLEAN

VARIABLES
  next, prev, magic,   \* of each block's header
  head,                \* headFree and headInUse
  numFree,
  requested, freed, hwm, lastDump,
  fresh,               \* blocks that the pools still have
  gMutex,              \* whether the thread holds gMutex, which is not recursive
  live,                \* the program's blocks
  kept,                \* blocks the C library keeps (setlocale, stdout's buffer)
  stack, aborted

links == <<next, prev, head>>
stats == <<requested, freed, hwm, lastDump>>
vars == <<links, magic, numFree, stats, fresh, gMutex, live, kept, stack, aborted>>

Lists == {"free", "inuse"}
Other(l) == IF l = "free" THEN "inuse" ELSE "free"

(***************************************************************************)
(* Frames: the function, the label it is at, the block it works on (a      *)
(* report: its cursor), the list it changes, the block that the C library  *)
(* holds for a report, what the report is for and what it has printed.     *)
(***************************************************************************)
Frame(fn, pc, elm, why) ==
  [fn |-> fn, pc |-> pc, elm |-> elm, list |-> "free", mine |-> NoBlock,
   why |-> why, seen |-> {}]
MallocFrame == Frame("malloc", "replenish", NoBlock, "call")
FreeFrame(b) == Frame("free", "mark", b, "call")
ReportFrame(why) == Frame("report", "open", NoBlock, why)

Top == stack[Len(stack)]
At(fn, pc) == ~aborted /\ stack # <<>> /\ Top.fn = fn /\ Top.pc = pc
AtLink(pc) == ~aborted /\ stack # <<>> /\ Top.pc = pc /\ Top.elm # NoBlock

(* The running frame goes on as f; it may call another. *)
Become(f) == stack' = Append(Front(stack), f)
GoTo(pc) == Become([Top EXCEPT !.pc = pc])
CallFrom(f, callee) ==
  /\ Len(stack) < MaxFrames
  /\ stack' = Append(Append(Front(stack), f), callee)
Pop == stack' = Front(stack)

(* The bin is full and its blocks, which are all alike, are in some order. *)
Init ==
  /\ LET free == CHOOSE f \in [1 .. HighWater -> Blocks] : IsInjective(f)
         Ranks(b) == {k \in 1 .. HighWater : free[k] = b}
     IN  /\ head = [l \in Lists |-> IF l = "free" /\ HighWater > 0 THEN free[1] ELSE NoBlock]
         /\ next = [b \in Blocks |-> IF \E k \in Ranks(b) : k < HighWater
                                     THEN free[1 + CHOOSE k \in Ranks(b) : TRUE] ELSE NoBlock]
         /\ prev = [b \in Blocks |-> IF \E k \in Ranks(b) : k > 1
                                     THEN free[(CHOOSE k \in Ranks(b) : TRUE) - 1] ELSE NoBlock]
         /\ fresh = {b \in Blocks : Ranks(b) = {}}
  /\ magic = [b \in Blocks |-> IF b \in fresh THEN "zero" ELSE "free"]
  /\ numFree = HighWater
  /\ requested = 0 /\ freed = 0 /\ hwm = 0 /\ lastDump = 0
  /\ gMutex = FALSE /\ live = {} /\ kept = {}
  /\ stack = <<>> /\ aborted = FALSE

(***************************************************************************)
(* The program calls, or a signal does.                                    *)
(***************************************************************************)
Malloc ==
  /\ ~aborted /\ stack = <<>>
  /\ requested < RequestBound
  /\ stack' = <<MallocFrame>>
  /\ UNCHANGED <<links, magic, numFree, stats, fresh, gMutex, live, kept, aborted>>

Free(b) ==
  /\ ~aborted /\ stack = <<>>
  /\ b \in live
  /\ live' = live \ {b}
  /\ stack' = <<FreeFrame(b)>>
  /\ UNCHANGED <<links, magic, numFree, stats, fresh, gMutex, kept, aborted>>

(* sigUsr2Handler, or the destructor: onExit. *)
Report ==
  /\ ~aborted
  /\ stack # <<>> => Signals
  /\ \A k \in 1 .. Len(stack) : stack[k].why # "signal"
  /\ requested < RequestBound
  /\ Len(stack) < MaxFrames
  /\ stack' = Append(stack, ReportFrame("signal"))
  /\ UNCHANGED <<links, magic, numFree, stats, fresh, gMutex, live, kept, aborted>>

(* A call that ends gives a block, or NoBlock, to its caller. *)
Return(b) ==
  IF Len(stack) = 1
  THEN Pop /\ live' = live \cup ({b} \ {NoBlock})
  ELSE /\ stack' = [Front(stack) EXCEPT ![Len(stack) - 1].mine = b]
       /\ UNCHANGED live

(***************************************************************************)
(* rmElm and insertElmHead, a pointer at a time.                           *)
(***************************************************************************)
Written == UNCHANGED <<magic, numFree, stats, fresh, gMutex, live, kept, aborted>>

Remove1Always ==                                                  \* a mutant
  /\ AtLink("rm1")
  /\ head' = [head EXCEPT ![Top.list] = next[Top.elm]]
  /\ GoTo("rm2") /\ UNCHANGED <<next, prev>> /\ Written
Remove1 ==
  /\ AtLink("rm1")
  /\ head' = IF head[Top.list] = Top.elm
             THEN [head EXCEPT ![Top.list] = next[Top.elm]] ELSE head
  /\ GoTo("rm2") /\ UNCHANGED <<next, prev>> /\ Written

Remove2 ==
  /\ AtLink("rm2")
  /\ next' = IF prev[Top.elm] = NoBlock THEN next
             ELSE [next EXCEPT ![prev[Top.elm]] = next[Top.elm]]
  /\ GoTo("rm3") /\ UNCHANGED <<prev, head>> /\ Written

Remove3OneWay ==                                                  \* a mutant
  /\ AtLink("rm3")
  /\ GoTo("rm4") /\ UNCHANGED <<next, prev, head>> /\ Written
Remove3 ==
  /\ AtLink("rm3")
  /\ prev' = IF next[Top.elm] = NoBlock THEN prev
             ELSE [prev EXCEPT ![next[Top.elm]] = prev[Top.elm]]
  /\ GoTo("rm4") /\ UNCHANGED <<next, head>> /\ Written

Remove4 ==
  /\ AtLink("rm4")
  /\ prev' = [prev EXCEPT ![Top.elm] = NoBlock]
  /\ GoTo("rm5") /\ UNCHANGED <<next, head>> /\ Written

(* getBuf and putBuf insert next what they have removed. *)
Remove5 ==
  /\ AtLink("rm5")
  /\ next' = [next EXCEPT ![Top.elm] = NoBlock]
  /\ Become([Top EXCEPT !.pc = "in1", !.list = Other(@)])
  /\ UNCHANGED <<prev, head>> /\ Written

Insert1 ==
  /\ AtLink("in1")
  /\ prev' = IF head[Top.list] = NoBlock THEN prev
             ELSE [prev EXCEPT ![head[Top.list]] = Top.elm]
  /\ GoTo("in2") /\ UNCHANGED <<next, head>> /\ Written

Insert2Cut ==                                                     \* a mutant
  /\ AtLink("in2")
  /\ next' = [next EXCEPT ![Top.elm] = NoBlock]
  /\ GoTo("in3") /\ UNCHANGED <<prev, head>> /\ Written
Insert2 ==
  /\ AtLink("in2")
  /\ next' = [next EXCEPT ![Top.elm] = head[Top.list]]
  /\ GoTo("in3") /\ UNCHANGED <<prev, head>> /\ Written

Insert3 ==
  /\ AtLink("in3")
  /\ prev' = [prev EXCEPT ![Top.elm] = NoBlock]
  /\ GoTo("in4") /\ UNCHANGED <<next, head>> /\ Written

Insert4 ==
  /\ AtLink("in4")
  /\ head' = [head EXCEPT ![Top.list] = Top.elm]
  /\ GoTo("linked") /\ UNCHANGED <<next, prev>> /\ Written

Link == \/ Remove1 \/ Remove2 \/ Remove3 \/ Remove4 \/ Remove5
        \/ Insert1 \/ Insert2 \/ Insert3 \/ Insert4

(***************************************************************************)
(* getBuf, from the slot's lock to memalignInt's change of the magic.      *)
(***************************************************************************)
Replenish ==
  /\ At("malloc", "replenish")
  /\ GoTo(IF head["free"] = NoBlock \/ numFree < LowWater THEN "pool" ELSE "load")
  /\ UNCHANGED <<links, magic, numFree, stats, fresh, gMutex, live, kept, aborted>>

(* getFromPool under gMutex.  With -a a failing mmap is reported there. *)
Pool ==
  /\ At("malloc", "pool")
  /\ ~gMutex
  /\ IF fresh # {}
     THEN \E b \in fresh :
            /\ fresh' = fresh \ {b}
            /\ magic' = [magic EXCEPT ![b] = "free"]
            /\ Become([Top EXCEPT !.pc = "in1", !.elm = b, !.list = "free"])
            /\ UNCHANGED <<gMutex, live>>
     ELSE IF AbortOnOOM
     THEN /\ gMutex' = TRUE
          /\ CallFrom(Top, ReportFrame("oom"))
          /\ UNCHANGED <<fresh, magic, live>>
     ELSE Return(NoBlock) /\ UNCHANGED <<fresh, magic, gMutex>>
  /\ UNCHANGED <<links, numFree, stats, kept, aborted>>

Filled ==
  /\ At("malloc", "linked") /\ Top.list = "free"
  /\ numFree' = numFree + 1
  /\ GoTo(IF numFree + 1 < HighWater THEN "pool" ELSE "load")
  /\ UNCHANGED <<links, magic, stats, fresh, gMutex, live, kept, aborted>>

Load ==
  /\ At("malloc", "load")
  /\ head["free"] # NoBlock
  /\ Become([Top EXCEPT !.pc = "rm1", !.elm = head["free"], !.list = "free"])
  /\ UNCHANGED <<links, magic, numFree, stats, fresh, gMutex, live, kept, aborted>>

(* The statistics, and the report of -D. *)
CountTwice ==                                                     \* a mutant
  /\ At("malloc", "linked") /\ Top.list = "inuse"
  /\ numFree' = numFree - 2
  /\ GoTo("limit")
  /\ UNCHANGED <<links, magic, stats, fresh, gMutex, live, kept, aborted>>
CountAndRepeat ==                                                 \* a mutant
  /\ At("malloc", "linked") /\ Top.list = "inuse"
  /\ numFree' = numFree - 1
  /\ requested' = requested + 1
  /\ hwm' = IF requested + 1 - freed > hwm THEN requested + 1 - freed ELSE hwm
  /\ IF hwm' > lastDump + DumpInterval
     THEN CallFrom([Top EXCEPT !.pc = "limit"], ReportFrame("hwm"))
     ELSE GoTo("limit")
  /\ UNCHANGED <<links, magic, freed, lastDump, fresh, gMutex, live, kept, aborted>>
Count ==
  /\ At("malloc", "linked") /\ Top.list = "inuse"
  /\ numFree' = numFree - 1
  /\ requested' = requested + 1
  /\ hwm' = IF requested + 1 - freed > hwm THEN requested + 1 - freed ELSE hwm
  /\ IF hwm' > lastDump + DumpInterval
     THEN /\ lastDump' = hwm'
          /\ CallFrom([Top EXCEPT !.pc = "limit"], ReportFrame("hwm"))
     ELSE GoTo("limit") /\ UNCHANGED lastDump
  /\ UNCHANGED <<links, magic, freed, fresh, gMutex, live, kept, aborted>>

(* -M: a report, and then abort(). *)
Limit ==
  /\ At("malloc", "limit")
  /\ IF requested > MaxRequestedBytes
     THEN CallFrom(Top, ReportFrame("limit"))
     ELSE GoTo("publish")
  /\ UNCHANGED <<links, magic, numFree, stats, fresh, gMutex, live, kept, aborted>>

(* memalignInt, after the lock; an assertion tests the magic. *)
Publish ==
  /\ At("malloc", "publish")
  /\ IF magic[Top.elm] = "free"
     THEN /\ magic' = [magic EXCEPT ![Top.elm] = "inuse"]
          /\ Return(Top.elm)
          /\ UNCHANGED aborted
     ELSE aborted' = TRUE /\ UNCHANGED <<magic, stack, live>>
  /\ UNCHANGED <<links, numFree, stats, fresh, gMutex, kept>>

(***************************************************************************)
(* putBuf.                                                                 *)
(***************************************************************************)
Mark ==
  /\ At("free", "mark")
  /\ IF magic[Top.elm] = "inuse"
     THEN /\ magic' = [magic EXCEPT ![Top.elm] = "free"]
          /\ freed' = freed + 1
          /\ Become([Top EXCEPT !.pc = "rm1", !.list = "inuse"])
          /\ UNCHANGED aborted
     ELSE aborted' = TRUE /\ UNCHANGED <<magic, freed, stack>>
  /\ UNCHANGED <<links, numFree, requested, hwm, lastDump, fresh, gMutex, live, kept>>

Put ==
  /\ At("free", "linked")
  /\ numFree' = numFree + 1
  /\ Return(NoBlock)
  /\ UNCHANGED <<links, magic, stats, fresh, gMutex, kept, aborted>>

(***************************************************************************)
(* onExitHelper.  dumpOffsets opens a file, and the C library allocates    *)
(* for it; a null pointer makes fopen, or setlocale, and an assertion fail.*)
(***************************************************************************)
Open ==
  /\ At("report", "open")
  /\ CallFrom([Top EXCEPT !.pc = "close"], MallocFrame)
  /\ UNCHANGED <<links, magic, numFree, stats, fresh, gMutex, live, kept, aborted>>

(* fclose gives the block back. *)
Close ==
  /\ At("report", "close")
  /\ Top.mine # NoBlock
  /\ CallFrom([Top EXCEPT !.pc = "locale"], FreeFrame(Top.mine))
  /\ UNCHANGED <<links, magic, numFree, stats, fresh, gMutex, live, kept, aborted>>

(* onExit's reports call setlocale, which may allocate, and keeps it. *)
SetLocale ==
  /\ At("report", "locale") /\ Top.why = "signal"
  /\ CallFrom([Top EXCEPT !.pc = "kept"], MallocFrame)
  /\ UNCHANGED <<links, magic, numFree, stats, fresh, gMutex, live, kept, aborted>>

Keep ==
  /\ At("report", "kept")
  /\ Top.mine # NoBlock
  /\ kept' = kept \cup {Top.mine}
  /\ GoTo("walk")
  /\ UNCHANGED <<links, magic, numFree, stats, fresh, gMutex, live, aborted>>

LibraryFails ==
  /\ At("report", "close") \/ At("report", "kept")
  /\ Top.mine = NoBlock
  /\ aborted' = TRUE
  /\ UNCHANGED <<links, magic, numFree, stats, fresh, gMutex, live, kept, stack>>

Walk ==
  /\ At("report", "locale") \/ At("report", "walk")
  /\ Become([Top EXCEPT !.pc = "print", !.elm = head["inuse"], !.mine = NoBlock])
  /\ UNCHANGED <<links, magic, numFree, stats, fresh, gMutex, live, kept, aborted>>

(* A line of the file; dprintf may allocate for it. *)
PrintElmAllocates ==
  /\ At("report", "print") /\ Top.elm # NoBlock
  /\ CallFrom([Top EXCEPT !.pc = "printed", !.seen = @ \cup {Top.elm}], MallocFrame)
  /\ UNCHANGED <<links, magic, numFree, stats, fresh, gMutex, live, kept, aborted>>

PrintElm ==
  /\ At("report", "print") /\ Top.elm # NoBlock
  /\ Become([Top EXCEPT !.pc = "advance", !.seen = @ \cup {Top.elm}])
  /\ UNCHANGED <<links, magic, numFree, stats, fresh, gMutex, live, kept, aborted>>

Printed ==
  /\ At("report", "printed")
  /\ IF Top.mine = NoBlock THEN GoTo("advance")
     ELSE CallFrom([Top EXCEPT !.pc = "advance"], FreeFrame(Top.mine))
  /\ UNCHANGED <<links, magic, numFree, stats, fresh, gMutex, live, kept, aborted>>

AdvanceFromHead ==                                                \* a mutant
  /\ At("report", "advance")
  /\ Become([Top EXCEPT !.pc = "print", !.elm = next[head["inuse"]], !.mine = NoBlock])
  /\ UNCHANGED <<links, magic, numFree, stats, fresh, gMutex, live, kept, aborted>>
Advance ==
  /\ At("report", "advance")
  /\ Become([Top EXCEPT !.pc = "print", !.elm = next[Top.elm], !.mine = NoBlock])
  /\ UNCHANGED <<links, magic, numFree, stats, fresh, gMutex, live, kept, aborted>>

(* The end of the report; those of -M and -a are followed by abort(). *)
End ==
  /\ At("report", "print") /\ Top.elm = NoBlock
  /\ IF Top.why \in {"limit", "oom"}
     THEN aborted' = TRUE /\ UNCHANGED stack
     ELSE Pop /\ UNCHANGED aborted
  /\ UNCHANGED <<links, magic, numFree, stats, fresh, gMutex, live, kept>>

Step == \/ Link
        \/ Replenish \/ Pool \/ Filled \/ Load \/ Count \/ Limit \/ Publish
        \/ Mark \/ Put
        \/ Open \/ Close \/ SetLocale \/ Keep \/ LibraryFails
        \/ Walk \/ PrintElmAllocates \/ PrintElm \/ Printed \/ Advance \/ End

(* The program computes, or the process is gone. *)
Quiet == (stack = <<>> \/ aborted) /\ UNCHANGED vars

Next == \/ Malloc \/ (\E b \in live : Free(b)) \/ Report
        \/ Step
        \/ Quiet

(* The thread runs while it is in a call. *)
Spec == Init /\ [][Next]_vars /\ WF_vars(Step)

(***************************************************************************)
(* The lists as sequences: what a walk along next comes to before the null *)
(* pointer, cut off after more steps than there are blocks.                *)
(***************************************************************************)
WalkFrom(first, nxt) ==
  LET at[k \in 0 .. Cardinality(Blocks) + 1] ==
        IF k = 0 THEN first
        ELSE IF at[k - 1] = NoBlock THEN NoBlock ELSE nxt[at[k - 1]]
  IN  at
Visited(at) == [k \in 1 .. Cardinality({i \in DOMAIN at : at[i] # NoBlock}) |-> at[k - 1]]
Forward(l) == Visited(WalkFrom(head[l], next))

(* The blocks that somebody holds, or that a call is about to return. *)
Held == live \cup kept \cup {stack[k].mine : k \in 1 .. Len(stack)}
        \cup {stack[k].elm : k \in {j \in 1 .. Len(stack) :
                stack[j].pc \in {"limit", "publish", "mark"}}}

Labels == {"replenish", "pool", "load", "rm1", "rm2", "rm3", "rm4", "rm5", "in1", "in2",
           "in3", "in4", "linked", "limit", "publish", "mark", "open", "close",
           "locale", "kept", "walk", "print", "printed", "advance"}

(***************************************************************************)
(* Properties.                                                             *)
(***************************************************************************)
(* Every variable keeps its type; numFree never wraps below zero. *)
TypeOK ==
  /\ next \in [Blocks -> Blocks \cup {NoBlock}] /\ prev \in [Blocks -> Blocks \cup {NoBlock}]
  /\ magic \in [Blocks -> {"zero", "free", "inuse"}]
  /\ head \in [Lists -> Blocks \cup {NoBlock}]
  /\ {numFree, requested, freed, hwm, lastDump} \subseteq Nat
  /\ fresh \subseteq Blocks /\ live \subseteq Blocks /\ kept \subseteq Blocks
  /\ gMutex \in BOOLEAN /\ aborted \in BOOLEAN
  /\ \A k \in 1 .. Len(stack) :
       /\ stack[k].fn \in {"malloc", "free", "report"} /\ stack[k].pc \in Labels
       /\ {stack[k].elm, stack[k].mine} \subseteq Blocks \cup {NoBlock}

(* Whenever no pointer is being written, each list can be walked from both *)
(* ends, and the lists hold what is free and what somebody holds.          *)
Linked ==
  stack = <<>> \/ Top.pc \notin {"rm1", "rm2", "rm3", "rm4", "rm5", "in1", "in2", "in3", "in4", "linked"} =>
    /\ \A l \in Lists : \A k \in 1 .. Len(Forward(l)) :
         prev[Forward(l)[k]] = IF k = 1 THEN NoBlock ELSE Forward(l)[k - 1]
    /\ ToSet(Forward("inuse")) \ {NoBlock} = Held \ {NoBlock}
    /\ numFree = Len(Forward("free"))

(* At every single write the lists that a reader would find are those of   *)
(* BlockLists: no write leaves a block on two lists, or cuts a list.       *)
ImplementsLists == INSTANCE BlockLists WITH free <- Forward("free"), inuse <- Forward("inuse")
ListsKept == ImplementsLists!Init /\ [][ImplementsLists!Next]_(ImplementsLists!vars)

(* A report that has come to the end of the list has printed each block    *)
(* that the program holds, also when it allocated for its own lines: "it   *)
(* will contain not only leaked memory but also any in-use memory".        *)
ReportComplete ==
  \A k \in 1 .. Len(stack) :
    stack[k].fn = "report" /\ stack[k].pc = "print" /\ stack[k].elm = NoBlock
      => live \subseteq stack[k].seen

(* The allocations of a report for -D start no further report: its high    *)
(* water mark is noted before it begins.                                   *)
ReportsNest ==
  Cardinality({k \in 1 .. Len(stack) : stack[k].why = "hwm"}) <= 1

(* Every call, and every report in it, returns. *)
CallsEnd == stack # <<>> ~> (stack = <<>> \/ aborted)

(***************************************************************************)
(* What the documents say and the code does not do.                        *)
(***************************************************************************)
(* README.md, -a: "Abort on rlimit-induced OOM rather than return NULL". *)
AbortHappens ==
  (\E k \in 1 .. Len(stack) : stack[k].why = "oom") ~> aborted
===============================================================================
