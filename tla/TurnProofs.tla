----------------------------- MODULE TurnProofs -----------------------------
(***************************************************************************)
(* Proofs about the turn loop, for every set of scenarios.                 *)
(***************************************************************************)
EXTENDS Turn, TLAPS, FiniteSetTheorems, WellFoundedInduction

----------------------------------------------------------------------------
(* The loop of one run.                                                    *)

\* The record of a run has the fields of Asleep.
Shaped(x) ==
  /\ x = [f \in DOMAIN x |-> x[f]]
  /\ DOMAIN x = {"pc", "turn", "kinds", "empty", "ok", "named", "used", "retry", "repaired",
                 "recent", "errors", "at", "cancel", "wall", "reason", "changed"}

Inside == {"top", "assemble", "fit", "fitted", "call", "answer", "dispatch", "tool", "append",
           "guard", "cycle", "compact", "elide", "summarize", "return"}

\* The turn of a run, at every place of the loop: the retry of a truncated call is a turn
\* that is not checked against the ceiling.
TurnOf(x) ==
  /\ x.turn \in Int /\ x.used \in Nat /\ x.retry \in BOOLEAN
  /\ x.pc \in Inside \cup {"idle", "begin", "finish", "done"}
  /\ x.pc \in {"idle", "begin", "done"} => x.turn = 0
  /\ x.pc = "top" => x.turn <= (IF x.retry THEN MaxTurns ELSE MaxTurns - 1)
  /\ x.pc \in {"assemble", "fit", "fitted", "call"}
       => x.turn <= (IF x.retry THEN MaxTurns + 1 ELSE MaxTurns)
  /\ x.pc \in {"compact", "elide", "summarize"} => x.turn < MaxTurns
  /\ x.turn <= MaxTurns + 1
  /\ x.used <= MaxToolCalls

\* The calls of the turn: as many names as kinds, and a result of every call that returned.
BatchOf(x) ==
  x.pc \in {"dispatch", "tool", "append", "guard", "cycle"} =>
    /\ x.kinds \in Seq(STRING) /\ x.named \in Seq(Nat) /\ x.ok \in Seq(BOOLEAN)
    /\ Len(x.named) = Len(x.kinds) /\ Len(x.kinds) >= 1 /\ x.empty \in BOOLEAN
    /\ x.at \in 0..Len(x.kinds)
    /\ x.at = 0 => x.pc = "append"
    /\ x.pc \in {"dispatch", "tool"} => Len(x.ok) = x.at - 1
    /\ x.pc \in {"append", "guard", "cycle"} => Len(x.ok) = Len(x.kinds)

Looping(x) == Shaped(x) /\ TurnOf(x) /\ BatchOf(x)
LoopInv ==
  /\ run = [r \in Runs |-> run[r]]
  /\ \A r \in Runs : Looping(run[r])
  /\ calls \in Nat

LEMMA MaxTurnsIs == MaxTurns \in Nat /\ MaxTurns # 0 /\ MaxToolCalls \in Nat
BY TurnConstants

\* The goroutine of r goes from one place of the loop to another.
Stepped(r, from, to) ==
  /\ run[r].pc \in from /\ run'[r].pc \in to
  /\ \A q \in Runs : q # r => run'[q] = run[q]

LEMMA GoesLoops ==
  ASSUME LoopInv, NEW r \in Runs, NEW rec, Looping(rec), Goes(r, rec), calls' \in Nat
  PROVE  LoopInv' /\ run'[r] = rec /\ \A q \in Runs : q # r => run'[q] = run[q]
<1>1. run' = [q \in Runs |-> run'[q]]
  BY DEF Goes, LoopInv
<1>2. \A q \in Runs : run'[q] = IF q = r THEN rec ELSE run[q]
  BY DEF Goes, LoopInv
<1>3. \A q \in Runs : Looping(run'[q])
  BY <1>2 DEF LoopInv
<1> QED BY <1>1, <1>2, <1>3 DEF LoopInv, Looping, Shaped, TurnOf, BatchOf

\* A run returns from any place.
LEMMA ReturnLoops ==
  ASSUME NEW x, Looping(x), NEW reason, NEW y, y = [x EXCEPT !.pc = "return", !.reason = reason]
  PROVE  Looping(y) /\ y.pc = "return"
<1>1. Shaped(y) /\ y.pc = "return" /\ y.turn = x.turn /\ y.used = x.used /\ y.retry = x.retry
  BY DEF Looping, Shaped
<1>2. TurnOf(y)
  BY <1>1, MaxTurnsIs DEF Looping, TurnOf, Inside
<1>3. BatchOf(y)
  BY <1>1 DEF BatchOf
<1> QED BY <1>1, <1>2, <1>3 DEF Looping

LEMMA BeginLoops ==
  ASSUME LoopInv, NEW r \in Runs, Begin(r)
  PROVE  LoopInv' /\ Stepped(r, {"begin"}, {"top", "return"})
<1>1. Looping(run[r]) /\ run[r].pc = "begin" /\ calls' \in Nat
  BY DEF LoopInv, Begin, At
<1>2. CASE Goes(r, [run[r] EXCEPT !.pc = "top"])
  <2> DEFINE y == [run[r] EXCEPT !.pc = "top"]
  <2>1. Shaped(y) /\ y.pc = "top"
    BY <1>1 DEF Looping, Shaped
  <2>2. y.turn = run[r].turn /\ y.used = run[r].used /\ y.retry = run[r].retry
    BY <1>1 DEF Looping, Shaped
  <2>4. TurnOf(y)
    BY <1>1, <2>1, <2>2, MaxTurnsIs DEF Looping, TurnOf, Inside
  <2>5. BatchOf(y)
    BY <1>1, <2>1 DEF Looping, BatchOf
  <2> HIDE DEF y
  <2> QED BY <1>1, <1>2, <2>1, <2>4, <2>5, GoesLoops DEF Looping, y, Stepped
<1>3. CASE \E reason : Returns(r, reason)
  <2>1. PICK reason : Returns(r, reason)
    BY <1>3
  <2>2. Looping([run[r] EXCEPT !.pc = "return", !.reason = reason])
       /\ [run[r] EXCEPT !.pc = "return", !.reason = reason].pc = "return"
    BY <1>1, ReturnLoops
  <2> QED BY <1>1, <2>1, <2>2, GoesLoops DEF Returns, Stepped
<1> QED BY <1>2, <1>3 DEF Begin

LEMMA BoundaryLoops ==
  ASSUME LoopInv, NEW r \in Runs, Boundary(r)
  PROVE  LoopInv' /\ Stepped(r, {"top"}, {"assemble", "return"})
<1>1. Looping(run[r]) /\ run[r].pc = "top" /\ calls' \in Nat
  BY DEF LoopInv, Boundary, At
<1>2. CASE Goes(r, [run[r] EXCEPT !.pc = "assemble", !.turn = @ + 1, !.kinds = <<>>])
  <2> DEFINE y == [run[r] EXCEPT !.pc = "assemble", !.turn = @ + 1, !.kinds = <<>>]
  <2>1. Shaped(y) /\ y.pc = "assemble"
    BY <1>1 DEF Looping, Shaped
  <2>2. y.turn = run[r].turn + 1 /\ y.used = run[r].used /\ y.retry = run[r].retry
    BY <1>1 DEF Looping, Shaped
  <2>4. TurnOf(y)
    BY <1>1, <2>1, <2>2, MaxTurnsIs DEF Looping, TurnOf, Inside
  <2>5. BatchOf(y)
    BY <1>1, <2>1 DEF Looping, BatchOf
  <2> HIDE DEF y
  <2> QED BY <1>1, <1>2, <2>1, <2>4, <2>5, GoesLoops DEF Looping, y, Stepped
<1>3. CASE \E reason : Returns(r, reason)
  <2>1. PICK reason : Returns(r, reason)
    BY <1>3
  <2>2. Looping([run[r] EXCEPT !.pc = "return", !.reason = reason])
       /\ [run[r] EXCEPT !.pc = "return", !.reason = reason].pc = "return"
    BY <1>1, ReturnLoops
  <2> QED BY <1>1, <2>1, <2>2, GoesLoops DEF Returns, Stepped
<1> QED BY <1>2, <1>3 DEF Boundary

LEMMA AssembleLoops ==
  ASSUME LoopInv, NEW r \in Runs, Assemble(r)
  PROVE  LoopInv' /\ Stepped(r, {"assemble"}, {"call", "fit", "top", "return"})
<1>1. Looping(run[r]) /\ run[r].pc = "assemble" /\ calls' \in Nat
  BY DEF LoopInv, Assemble, Unreachable, At
<1>2. CASE Goes(r, [run[r] EXCEPT !.pc = "call"])
  <2> DEFINE y == [run[r] EXCEPT !.pc = "call"]
  <2>1. Shaped(y) /\ y.pc = "call"
    BY <1>1 DEF Looping, Shaped
  <2>2. y.turn = run[r].turn /\ y.used = run[r].used /\ y.retry = run[r].retry
    BY <1>1 DEF Looping, Shaped
  <2>4. TurnOf(y)
    BY <1>1, <2>1, <2>2, MaxTurnsIs DEF Looping, TurnOf, Inside
  <2>5. BatchOf(y)
    BY <1>1, <2>1 DEF Looping, BatchOf
  <2> HIDE DEF y
  <2> QED BY <1>1, <1>2, <2>1, <2>4, <2>5, GoesLoops DEF Looping, y, Stepped
<1>3. CASE Goes(r, [run[r] EXCEPT !.pc = "fit", !.changed = FALSE])
  <2> DEFINE y == [run[r] EXCEPT !.pc = "fit", !.changed = FALSE]
  <2>1. Shaped(y) /\ y.pc = "fit"
    BY <1>1 DEF Looping, Shaped
  <2>2. y.turn = run[r].turn /\ y.used = run[r].used /\ y.retry = run[r].retry
    BY <1>1 DEF Looping, Shaped
  <2>4. TurnOf(y)
    BY <1>1, <2>1, <2>2, MaxTurnsIs DEF Looping, TurnOf, Inside
  <2>5. BatchOf(y)
    BY <1>1, <2>1 DEF Looping, BatchOf
  <2> HIDE DEF y
  <2> QED BY <1>1, <1>3, <2>1, <2>4, <2>5, GoesLoops DEF Looping, y, Stepped
<1>4. CASE Goes(r, [run[r] EXCEPT !.pc = "top", !.turn = @ - 1, !.repaired = TRUE])
  <2> DEFINE y == [run[r] EXCEPT !.pc = "top", !.turn = @ - 1, !.repaired = TRUE]
  <2>1. Shaped(y) /\ y.pc = "top"
    BY <1>1 DEF Looping, Shaped
  <2>2. y.turn = run[r].turn - 1 /\ y.used = run[r].used /\ y.retry = run[r].retry
    BY <1>1 DEF Looping, Shaped
  <2>4. TurnOf(y)
    BY <1>1, <2>1, <2>2, MaxTurnsIs DEF Looping, TurnOf, Inside
  <2>5. BatchOf(y)
    BY <1>1, <2>1 DEF Looping, BatchOf
  <2> HIDE DEF y
  <2> QED BY <1>1, <1>4, <2>1, <2>4, <2>5, GoesLoops DEF Looping, y, Stepped
<1>5. CASE Goes(r, [run[r] EXCEPT !.pc = "top", !.turn = @ - 1])
  <2> DEFINE y == [run[r] EXCEPT !.pc = "top", !.turn = @ - 1]
  <2>1. Shaped(y) /\ y.pc = "top"
    BY <1>1 DEF Looping, Shaped
  <2>2. y.turn = run[r].turn - 1 /\ y.used = run[r].used /\ y.retry = run[r].retry
    BY <1>1 DEF Looping, Shaped
  <2>4. TurnOf(y)
    BY <1>1, <2>1, <2>2, MaxTurnsIs DEF Looping, TurnOf, Inside
  <2>5. BatchOf(y)
    BY <1>1, <2>1 DEF Looping, BatchOf
  <2> HIDE DEF y
  <2> QED BY <1>1, <1>5, <2>1, <2>4, <2>5, GoesLoops DEF Looping, y, Stepped
<1>6. CASE \E reason : Returns(r, reason)
  <2>1. PICK reason : Returns(r, reason)
    BY <1>6
  <2>2. Looping([run[r] EXCEPT !.pc = "return", !.reason = reason])
       /\ [run[r] EXCEPT !.pc = "return", !.reason = reason].pc = "return"
    BY <1>1, ReturnLoops
  <2> QED BY <1>1, <2>1, <2>2, GoesLoops DEF Returns, Stepped
<1> QED BY <1>2, <1>3, <1>4, <1>5, <1>6 DEF Assemble, Unreachable

LEMMA StopsLoops ==
  ASSUME LoopInv, NEW r \in Runs, ContextStop(r)
  PROVE  LoopInv' /\ Stepped(r, {run[r].pc}, {"return"})
<1>1. Looping(run[r]) /\ calls' \in Nat
  BY DEF LoopInv, ContextStop, LoopKept
<1>2. PICK reason : Returns(r, reason)
  BY DEF ContextStop
<1>3. Looping([run[r] EXCEPT !.pc = "return", !.reason = reason])
      /\ [run[r] EXCEPT !.pc = "return", !.reason = reason].pc = "return"
  BY <1>1, ReturnLoops
<1> QED BY <1>1, <1>2, <1>3, GoesLoops DEF Returns, Stepped

LEMMA FailsLoops ==
  ASSUME LoopInv, NEW r \in Runs, Fails(r)
  PROVE  LoopInv' /\ Stepped(r, {"call"}, {"return"})
<1>1. Looping(run[r]) /\ run[r].pc = "call" /\ calls' \in Nat
  BY DEF LoopInv, Fails, Unreachable, At
<1>2. CASE \E reason : Returns(r, reason)
  <2>1. PICK reason : Returns(r, reason)
    BY <1>2
  <2>2. Looping([run[r] EXCEPT !.pc = "return", !.reason = reason])
       /\ [run[r] EXCEPT !.pc = "return", !.reason = reason].pc = "return"
    BY <1>1, ReturnLoops
  <2> QED BY <1>1, <2>1, <2>2, GoesLoops DEF Returns, Stepped
<1> QED BY <1>2 DEF Fails, Unreachable

LEMMA AnswerLoops ==
  ASSUME LoopInv, NEW r \in Runs, Answer(r)
  PROVE  LoopInv' /\ Stepped(r, {"answer"}, {"return"})
<1>1. Looping(run[r]) /\ run[r].pc = "answer" /\ calls' \in Nat
  BY DEF LoopInv, Answer, LoopKept, At
<1>2. CASE Goes(r, [run[r] EXCEPT !.pc = "return"])
  <2> DEFINE y == [run[r] EXCEPT !.pc = "return"]
  <2>1. Shaped(y) /\ y.pc = "return"
    BY <1>1 DEF Looping, Shaped
  <2>2. y.turn = run[r].turn /\ y.used = run[r].used /\ y.retry = run[r].retry
    BY <1>1 DEF Looping, Shaped
  <2>4. TurnOf(y)
    BY <1>1, <2>1, <2>2, MaxTurnsIs DEF Looping, TurnOf, Inside
  <2>5. BatchOf(y)
    BY <1>1, <2>1 DEF Looping, BatchOf
  <2> HIDE DEF y
  <2> QED BY <1>1, <1>2, <2>1, <2>4, <2>5, GoesLoops DEF Looping, y, Stepped
<1> QED BY <1>2 DEF Answer, LoopKept

LEMMA TruncatedLoops ==
  ASSUME LoopInv, NEW r \in Runs, Truncated(r)
  PROVE  LoopInv' /\ Stepped(r, {"call"}, {"top", "return"})
<1>1. Looping(run[r]) /\ run[r].pc = "call" /\ calls' \in Nat
  BY DEF LoopInv, Truncated, At
<1>2. CASE ~run[r].retry /\ Goes(r, [run[r] EXCEPT !.pc = "top", !.retry = TRUE])
  <2> DEFINE y == [run[r] EXCEPT !.pc = "top", !.retry = TRUE]
  <2>1. Shaped(y) /\ y.pc = "top"
    BY <1>1 DEF Looping, Shaped
  <2>2. y.turn = run[r].turn /\ y.used = run[r].used /\ y.retry = TRUE
    BY <1>1 DEF Looping, Shaped
  <2>4. TurnOf(y)
    BY <1>1, <2>1, <2>2, <1>2, MaxTurnsIs DEF Looping, TurnOf, Inside
  <2>5. BatchOf(y)
    BY <1>1, <2>1 DEF Looping, BatchOf
  <2> HIDE DEF y
  <2> QED BY <1>1, <1>2, <2>1, <2>4, <2>5, GoesLoops DEF Looping, y, Stepped
<1>3. CASE \E reason : Returns(r, reason)
  <2>1. PICK reason : Returns(r, reason)
    BY <1>3
  <2>2. Looping([run[r] EXCEPT !.pc = "return", !.reason = reason])
       /\ [run[r] EXCEPT !.pc = "return", !.reason = reason].pc = "return"
    BY <1>1, ReturnLoops
  <2> QED BY <1>1, <2>1, <2>2, GoesLoops DEF Returns, Stepped
<1> QED BY <1>2, <1>3 DEF Truncated

LEMMA ToolStartsLoops ==
  ASSUME LoopInv, NEW r \in Runs, ToolStarts(r)
  PROVE  LoopInv' /\ Stepped(r, {"dispatch"}, {"tool"})
<1>1. Looping(run[r]) /\ run[r].pc = "dispatch" /\ calls' \in Nat
  BY DEF LoopInv, ToolStarts, LoopKept, At
<1>2. CASE Goes(r, [run[r] EXCEPT !.pc = "tool"])
  <2> DEFINE y == [run[r] EXCEPT !.pc = "tool"]
  <2>1. Shaped(y) /\ y.pc = "tool"
    BY <1>1 DEF Looping, Shaped
  <2>2. y.turn = run[r].turn /\ y.used = run[r].used /\ y.retry = run[r].retry
    BY <1>1 DEF Looping, Shaped
  <2>3. y.kinds = run[r].kinds /\ y.named = run[r].named /\ y.ok = run[r].ok /\ y.empty = run[r].empty /\ y.at = run[r].at
    BY <1>1 DEF Looping, Shaped
  <2>4. TurnOf(y)
    BY <1>1, <2>1, <2>2, MaxTurnsIs DEF Looping, TurnOf, Inside
  <2>5. BatchOf(y)
    BY <1>1, <2>1, <2>3 DEF Looping, BatchOf
  <2> HIDE DEF y
  <2> QED BY <1>1, <1>2, <2>1, <2>4, <2>5, GoesLoops DEF Looping, y, Stepped
<1> QED BY <1>2 DEF ToolStarts, LoopKept

LEMMA CompactLoops ==
  ASSUME LoopInv, NEW r \in Runs, Compact(r)
  PROVE  LoopInv' /\ Stepped(r, {"compact"}, {"elide"})
<1>1. Looping(run[r]) /\ run[r].pc = "compact" /\ calls' \in Nat
  BY DEF LoopInv, Compact, LoopKept, At
<1>2. CASE Goes(r, [run[r] EXCEPT !.pc = "elide"])
  <2> DEFINE y == [run[r] EXCEPT !.pc = "elide"]
  <2>1. Shaped(y) /\ y.pc = "elide"
    BY <1>1 DEF Looping, Shaped
  <2>2. y.turn = run[r].turn /\ y.used = run[r].used /\ y.retry = run[r].retry
    BY <1>1 DEF Looping, Shaped
  <2>4. TurnOf(y)
    BY <1>1, <2>1, <2>2, MaxTurnsIs DEF Looping, TurnOf, Inside
  <2>5. BatchOf(y)
    BY <1>1, <2>1 DEF Looping, BatchOf
  <2> HIDE DEF y
  <2> QED BY <1>1, <1>2, <2>1, <2>4, <2>5, GoesLoops DEF Looping, y, Stepped
<1> QED BY <1>2 DEF Compact, LoopKept

LEMMA ElideOldLoops ==
  ASSUME LoopInv, NEW r \in Runs, ElideOld(r)
  PROVE  LoopInv' /\ Stepped(r, {"elide"}, {"top", "summarize"})
<1>1. Looping(run[r]) /\ run[r].pc = "elide" /\ calls' \in Nat
  BY DEF LoopInv, ElideOld, At
<1>2. CASE Goes(r, [run[r] EXCEPT !.pc = "top"])
  <2> DEFINE y == [run[r] EXCEPT !.pc = "top"]
  <2>1. Shaped(y) /\ y.pc = "top"
    BY <1>1 DEF Looping, Shaped
  <2>2. y.turn = run[r].turn /\ y.used = run[r].used /\ y.retry = run[r].retry
    BY <1>1 DEF Looping, Shaped
  <2>4. TurnOf(y)
    BY <1>1, <2>1, <2>2, MaxTurnsIs DEF Looping, TurnOf, Inside
  <2>5. BatchOf(y)
    BY <1>1, <2>1 DEF Looping, BatchOf
  <2> HIDE DEF y
  <2> QED BY <1>1, <1>2, <2>1, <2>4, <2>5, GoesLoops DEF Looping, y, Stepped
<1>3. CASE Goes(r, [run[r] EXCEPT !.pc = "summarize"])
  <2> DEFINE y == [run[r] EXCEPT !.pc = "summarize"]
  <2>1. Shaped(y) /\ y.pc = "summarize"
    BY <1>1 DEF Looping, Shaped
  <2>2. y.turn = run[r].turn /\ y.used = run[r].used /\ y.retry = run[r].retry
    BY <1>1 DEF Looping, Shaped
  <2>4. TurnOf(y)
    BY <1>1, <2>1, <2>2, MaxTurnsIs DEF Looping, TurnOf, Inside
  <2>5. BatchOf(y)
    BY <1>1, <2>1 DEF Looping, BatchOf
  <2> HIDE DEF y
  <2> QED BY <1>1, <1>3, <2>1, <2>4, <2>5, GoesLoops DEF Looping, y, Stepped
<1> QED BY <1>2, <1>3 DEF ElideOld

LEMMA SummarizeLoops ==
  ASSUME LoopInv, NEW r \in Runs, Summarize(r)
  PROVE  LoopInv' /\ Stepped(r, {"summarize"}, {"top"})
<1>1. Looping(run[r]) /\ run[r].pc = "summarize" /\ calls' \in Nat
  BY DEF LoopInv, Summarize, TrySummary, At
<1>2. CASE Goes(r, [run[r] EXCEPT !.pc = "top"])
  <2> DEFINE y == [run[r] EXCEPT !.pc = "top"]
  <2>1. Shaped(y) /\ y.pc = "top"
    BY <1>1 DEF Looping, Shaped
  <2>2. y.turn = run[r].turn /\ y.used = run[r].used /\ y.retry = run[r].retry
    BY <1>1 DEF Looping, Shaped
  <2>4. TurnOf(y)
    BY <1>1, <2>1, <2>2, MaxTurnsIs DEF Looping, TurnOf, Inside
  <2>5. BatchOf(y)
    BY <1>1, <2>1 DEF Looping, BatchOf
  <2> HIDE DEF y
  <2> QED BY <1>1, <1>2, <2>1, <2>4, <2>5, GoesLoops DEF Looping, y, Stepped
<1> QED BY <1>2 DEF Summarize, TrySummary

LEMMA FitElidesLoops ==
  ASSUME LoopInv, NEW r \in Runs, FitElides(r)
  PROVE  LoopInv' /\ Stepped(r, {"fit"}, {"fitted"})
<1>1. Looping(run[r]) /\ run[r].pc = "fit" /\ calls' \in Nat
  BY DEF LoopInv, FitElides, LoopKept, At
<1>2. CASE Goes(r, [run[r] EXCEPT !.pc = "fitted", !.changed = (ElidedOld(msgs) # {})])
  <2> DEFINE y == [run[r] EXCEPT !.pc = "fitted", !.changed = (ElidedOld(msgs) # {})]
  <2>1. Shaped(y) /\ y.pc = "fitted"
    BY <1>1 DEF Looping, Shaped
  <2>2. y.turn = run[r].turn /\ y.used = run[r].used /\ y.retry = run[r].retry
    BY <1>1 DEF Looping, Shaped
  <2>4. TurnOf(y)
    BY <1>1, <2>1, <2>2, MaxTurnsIs DEF Looping, TurnOf, Inside
  <2>5. BatchOf(y)
    BY <1>1, <2>1 DEF Looping, BatchOf
  <2> HIDE DEF y
  <2> QED BY <1>1, <1>2, <2>1, <2>4, <2>5, GoesLoops DEF Looping, y, Stepped
<1> QED BY <1>2 DEF FitElides, LoopKept

LEMMA FitSummarizesLoops ==
  ASSUME LoopInv, NEW r \in Runs, FitSummarizes(r)
  PROVE  LoopInv' /\ Stepped(r, {"fitted"}, {"top", "return"})
<1>1. Looping(run[r]) /\ run[r].pc = "fitted" /\ calls' \in Nat
  BY DEF LoopInv, FitSummarizes, TrySummary, At
<1>2. CASE Goes(r, [run[r] EXCEPT !.pc = "top", !.turn = @ - 1])
  <2> DEFINE y == [run[r] EXCEPT !.pc = "top", !.turn = @ - 1]
  <2>1. Shaped(y) /\ y.pc = "top"
    BY <1>1 DEF Looping, Shaped
  <2>2. y.turn = run[r].turn - 1 /\ y.used = run[r].used /\ y.retry = run[r].retry
    BY <1>1 DEF Looping, Shaped
  <2>4. TurnOf(y)
    BY <1>1, <2>1, <2>2, MaxTurnsIs DEF Looping, TurnOf, Inside
  <2>5. BatchOf(y)
    BY <1>1, <2>1 DEF Looping, BatchOf
  <2> HIDE DEF y
  <2> QED BY <1>1, <1>2, <2>1, <2>4, <2>5, GoesLoops DEF Looping, y, Stepped
<1>3. CASE Goes(r, [run[r] EXCEPT !.pc = "return", !.reason = "context_ceiling"])
  <2> DEFINE y == [run[r] EXCEPT !.pc = "return", !.reason = "context_ceiling"]
  <2>1. Shaped(y) /\ y.pc = "return"
    BY <1>1 DEF Looping, Shaped
  <2>2. y.turn = run[r].turn /\ y.used = run[r].used /\ y.retry = run[r].retry
    BY <1>1 DEF Looping, Shaped
  <2>4. TurnOf(y)
    BY <1>1, <2>1, <2>2, MaxTurnsIs DEF Looping, TurnOf, Inside
  <2>5. BatchOf(y)
    BY <1>1, <2>1 DEF Looping, BatchOf
  <2> HIDE DEF y
  <2> QED BY <1>1, <1>3, <2>1, <2>4, <2>5, GoesLoops DEF Looping, y, Stepped
<1> QED BY <1>2, <1>3 DEF FitSummarizes, TrySummary

LEMMA EndFlightLoops ==
  ASSUME LoopInv, NEW r \in Runs, EndFlight(r)
  PROVE  LoopInv' /\ Stepped(r, {"return"}, {"finish"})
<1>1. Looping(run[r]) /\ run[r].pc = "return" /\ calls' \in Nat
  BY DEF LoopInv, EndFlight, LoopKept, At
<1>2. CASE Goes(r, [run[r] EXCEPT !.pc = "finish"])
  <2> DEFINE y == [run[r] EXCEPT !.pc = "finish"]
  <2>1. Shaped(y) /\ y.pc = "finish"
    BY <1>1 DEF Looping, Shaped
  <2>2. y.turn = run[r].turn /\ y.used = run[r].used /\ y.retry = run[r].retry
    BY <1>1 DEF Looping, Shaped
  <2>4. TurnOf(y)
    BY <1>1, <2>1, <2>2, MaxTurnsIs DEF Looping, TurnOf, Inside
  <2>5. BatchOf(y)
    BY <1>1, <2>1 DEF Looping, BatchOf
  <2> HIDE DEF y
  <2> QED BY <1>1, <1>2, <2>1, <2>4, <2>5, GoesLoops DEF Looping, y, Stepped
<1> QED BY <1>2 DEF EndFlight, LoopKept

LEMMA TextLoops ==
  ASSUME LoopInv, NEW r \in Runs, Text(r)
  PROVE  LoopInv' /\ Stepped(r, {"call"}, {"answer", "return"})
<1>1. Looping(run[r]) /\ run[r].pc = "call" /\ calls' \in Nat
  BY DEF LoopInv, Text, At
<1>0. \E pc \in {"return", "answer"} : \E reason :
        Goes(r, [run[r] EXCEPT !.pc = pc, !.reason = reason])
  BY DEF Text, Returns
<1>7. PICK pc \in {"return", "answer"} :
        \E reason : Goes(r, [run[r] EXCEPT !.pc = pc, !.reason = reason])
  BY <1>0
<1>2. PICK reason : Goes(r, [run[r] EXCEPT !.pc = pc, !.reason = reason])
  BY <1>7
<1> DEFINE y == [run[r] EXCEPT !.pc = pc, !.reason = reason]
<1>3. Shaped(y) /\ y.pc = pc
  BY <1>1 DEF Looping, Shaped
<1>4. y.turn = run[r].turn /\ y.used = run[r].used /\ y.retry = run[r].retry
  BY <1>1 DEF Looping, Shaped
<1>5. TurnOf(y)
  BY <1>1, <1>3, <1>4, MaxTurnsIs DEF Looping, TurnOf, Inside
<1>6. BatchOf(y)
  BY <1>3 DEF BatchOf
<1> HIDE DEF y
<1> QED BY <1>1, <1>2, <1>3, <1>5, <1>6, GoesLoops DEF Looping, y, Stepped

LEMMA CallsLoops ==
  ASSUME LoopInv, NEW r \in Runs, Calls(r)
  PROVE  LoopInv' /\ Stepped(r, {"call"}, {"dispatch", "return"})
<1>1. Looping(run[r]) /\ run[r].pc = "call" /\ calls \in Nat
  BY DEF LoopInv, Calls, At
<1> DEFINE named(b) == [k \in 1..Len(b.kinds) |-> calls + k]
           y(b) == [run[r] EXCEPT !.pc = "dispatch", !.kinds = b.kinds, !.empty = b.empty,
                                  !.named = named(b), !.ok = <<>>, !.at = 1,
                                  !.retry = FALSE, !.used = @ + Len(b.kinds)]
<1>2. PICK b \in Batches :
        /\ calls' = calls + Len(b.kinds)
        /\ IF OverBudget(r, Len(b.kinds)) THEN Returns(r, "tool_budget") ELSE Goes(r, y(b))
  BY DEF Calls
<1>3. b.kinds \in Seq(STRING) /\ Len(b.kinds) \in Nat /\ Len(b.kinds) >= 1 /\ b.empty \in BOOLEAN
  BY TurnConstants
<1>4. calls' \in Nat
  BY <1>1, <1>2, <1>3
<1>5. CASE OverBudget(r, Len(b.kinds))
  <2>1. Looping([run[r] EXCEPT !.pc = "return", !.reason = "tool_budget"])
       /\ [run[r] EXCEPT !.pc = "return", !.reason = "tool_budget"].pc = "return"
    BY <1>1, ReturnLoops
  <2> QED BY <1>1, <1>2, <1>4, <1>5, <2>1, GoesLoops DEF Returns, Stepped
<1>6. CASE ~OverBudget(r, Len(b.kinds))
  <2> DEFINE z == y(b)
  <2>1. Shaped(z) /\ z.pc = "dispatch"
    BY <1>1, ZenonT(40) DEF Looping, Shaped
  <2>2. z.turn = run[r].turn /\ z.used = run[r].used + Len(b.kinds) /\ z.retry = FALSE
    BY <1>1 DEF Looping, Shaped
  <2>3. z.kinds = b.kinds /\ z.named = named(b) /\ z.empty = b.empty /\ z.ok = <<>> /\ z.at = 1
    BY <1>1 DEF Looping, Shaped
  <2>4. TurnOf(z)
    BY <1>1, <1>3, <1>6, <2>1, <2>2, MaxTurnsIs DEF Looping, TurnOf, Inside, OverBudget
  <2>5. named(b) \in Seq(Nat) /\ Len(named(b)) = Len(b.kinds)
    BY <1>1, <1>3
  <2>6. BatchOf(z)
    <3> HIDE DEF z, named
    <3> QED BY <1>3, <2>1, <2>3, <2>5 DEF BatchOf
  <2>7. Goes(r, z)
    BY <1>2, <1>6
  <2> HIDE DEF z
  <2> QED BY <1>1, <1>4, <2>1, <2>4, <2>6, <2>7, GoesLoops DEF Looping, Stepped
<1> QED BY <1>5, <1>6

LEMMA ToolReturnsLoops ==
  ASSUME LoopInv, NEW r \in Runs, ToolReturns(r)
  PROVE  LoopInv' /\ Stepped(r, {"tool"}, {"dispatch", "append", "return"})
<1>1. Looping(run[r]) /\ run[r].pc = "tool"
  BY DEF LoopInv, ToolReturns, At
<1> DEFINE y(ok) ==
     [run[r] EXCEPT !.ok = Append(@, ok),
                    !.at = IF run[r].at = Len(run[r].kinds) THEN 0 ELSE run[r].at + 1,
                    !.pc = IF run[r].at = Len(run[r].kinds) THEN "append" ELSE "dispatch"]
<1>2. CASE ContextStop(r)
  BY <1>1, <1>2, StopsLoops DEF Stepped
<1>3. CASE \E ok \in BOOLEAN : Goes(r, y(ok)) /\ calls' = calls
  <2>1. PICK ok \in BOOLEAN : Goes(r, y(ok)) /\ calls' = calls
    BY <1>3
  <2> DEFINE z == y(ok)
  <2>2. Shaped(z) /\ z.pc = (IF run[r].at = Len(run[r].kinds) THEN "append" ELSE "dispatch")
    BY <1>1 DEF Looping, Shaped
  <2>3. z.turn = run[r].turn /\ z.used = run[r].used /\ z.retry = run[r].retry
    BY <1>1 DEF Looping, Shaped
  <2>4. z.kinds = run[r].kinds /\ z.named = run[r].named /\ z.ok = Append(run[r].ok, ok) /\ z.empty = run[r].empty
        /\ z.at = (IF run[r].at = Len(run[r].kinds) THEN 0 ELSE run[r].at + 1)
    BY <1>1 DEF Looping, Shaped
  <2>5. TurnOf(z)
    BY <1>1, <2>2, <2>3, MaxTurnsIs DEF Looping, TurnOf, Inside
  <2>6. BatchOf(run[r])
    BY <1>1 DEF Looping
  <2>7. BatchOf(z)
    <3> HIDE DEF z
    <3>1. run[r].ok \in Seq(BOOLEAN) /\ run[r].kinds \in Seq(STRING) /\ run[r].named \in Seq(Nat)
          /\ run[r].at \in 1..Len(run[r].kinds) /\ Len(run[r].ok) = run[r].at - 1
          /\ Len(run[r].named) = Len(run[r].kinds) /\ run[r].empty \in BOOLEAN
      BY <1>1, <2>6 DEF BatchOf
    <3>2. z.ok \in Seq(BOOLEAN) /\ Len(z.ok) = run[r].at
      BY <3>1, <2>4, SMTT(20)
    <3>3. z.kinds \in Seq(STRING) /\ z.named \in Seq(Nat) /\ Len(z.named) = Len(z.kinds)
          /\ Len(z.kinds) \in Nat /\ Len(z.kinds) >= 1 /\ z.at \in 0..Len(z.kinds) /\ z.empty \in BOOLEAN
      BY <2>4, <3>1
    <3>4. CASE run[r].at = Len(run[r].kinds)
      BY <2>2, <2>4, <3>1, <3>2, <3>3, <3>4 DEF BatchOf
    <3>5. CASE run[r].at # Len(run[r].kinds)
      <4>1. z.pc = "dispatch" /\ z.at = run[r].at + 1 /\ Len(z.ok) = z.at - 1 /\ z.at # 0
        BY <2>2, <2>4, <3>1, <3>2, <3>5
      <4> QED BY <3>2, <3>3, <4>1 DEF BatchOf
    <3> QED BY <3>4, <3>5
  <2>8. calls' \in Nat
    BY <2>1 DEF LoopInv
  <2>9. Goes(r, z)
    BY <2>1
  <2> HIDE DEF z
  <2> QED BY <1>1, <2>2, <2>5, <2>7, <2>8, <2>9, GoesLoops DEF Looping, Stepped
<1> QED BY <1>2, <1>3 DEF ToolReturns, LoopKept

LEMMA AppendNextLoops ==
  ASSUME LoopInv, NEW r \in Runs, AppendNext(r)
  PROVE  LoopInv' /\ Stepped(r, {"append"}, {"append", "guard"})
<1>1. Looping(run[r]) /\ run[r].pc = "append" /\ calls' \in Nat
  BY DEF LoopInv, AppendNext, At, LoopKept
<1> DEFINE y == [run[r] EXCEPT !.at = IF TurnKept(r) THEN 1 ELSE run[r].at + 1,
                               !.pc = IF TurnKept(r) THEN "guard" ELSE "append"]
<1>2. Goes(r, y)
  BY DEF AppendNext
<1>3. Shaped(y) /\ y.pc = (IF TurnKept(r) THEN "guard" ELSE "append")
  BY <1>1 DEF Looping, Shaped
<1>4. y.turn = run[r].turn /\ y.used = run[r].used /\ y.retry = run[r].retry
  BY <1>1 DEF Looping, Shaped
<1>5. y.kinds = run[r].kinds /\ y.named = run[r].named /\ y.ok = run[r].ok /\ y.empty = run[r].empty
      /\ y.at = (IF TurnKept(r) THEN 1 ELSE run[r].at + 1)
  BY <1>1 DEF Looping, Shaped
<1>6. TurnOf(y)
  BY <1>1, <1>3, <1>4, MaxTurnsIs DEF Looping, TurnOf, Inside
<1>7. BatchOf(run[r])
  BY <1>1 DEF Looping
<1>8. BatchOf(y)
  <2> HIDE DEF y
  <2> QED BY <1>1, <1>3, <1>5, <1>7 DEF BatchOf, TurnKept
<1> HIDE DEF y
<1> QED BY <1>1, <1>2, <1>3, <1>6, <1>8, GoesLoops DEF Looping, Stepped

\* After the guards of a result: the next result, the end of the run or compaction.
LEMMA GuardLoops ==
  ASSUME NEW x, Looping(x), x.pc \in {"guard", "cycle"}, NEW pc, NEW at, NEW recent, NEW errors,
         NEW reason, NEW changed,
         at \in 1..Len(x.kinds), pc \in {"guard", "cycle", "compact", "return"},
         pc = "compact" => x.turn < MaxTurns,
         NEW y, Shaped(y), y.pc = pc, y.at = at, y.turn = x.turn, y.used = x.used,
         y.retry = x.retry, y.kinds = x.kinds, y.named = x.named, y.ok = x.ok /\ y.empty = x.empty
  PROVE  Looping(y)
<1>1. TurnOf(y)
  BY MaxTurnsIs DEF Looping, TurnOf, Inside
<1>2. BatchOf(y)
  BY DEF Looping, BatchOf
<1> QED BY <1>1, <1>2 DEF Looping

LEMMA ObserveLoops ==
  ASSUME LoopInv, NEW r \in Runs, Observe(r)
  PROVE  LoopInv' /\ Stepped(r, {"guard"}, {"guard", "cycle", "compact", "return"})
<1>1. Looping(run[r]) /\ run[r].pc = "guard" /\ calls' \in Nat
  BY DEF LoopInv, Observe, At, LoopKept
<1>2. PICK errors, recent : \E after : 
        /\ after = [run[r] EXCEPT !.errors = errors, !.recent = recent]
        /\ \/ Goes(r, [after EXCEPT !.pc = "cycle"])
           \/ Goes(r, [after EXCEPT !.pc = "return", !.reason = "tool_errors"])
           \/ run[r].at < Len(run[r].kinds) /\ Goes(r, [after EXCEPT !.at = @ + 1])
           \/ Goes(r, [after EXCEPT !.pc = "return", !.reason = "turn_ceiling"])
           \/ ~AtCeiling(r) /\ Goes(r, [after EXCEPT !.pc = "compact", !.changed = FALSE])
  BY Zenon DEF Observe
<1> DEFINE after == [run[r] EXCEPT !.errors = errors, !.recent = recent]
<1>3. Shaped(after) /\ after.pc = "guard" /\ after.turn = run[r].turn /\ after.used = run[r].used
      /\ after.retry = run[r].retry /\ after.kinds = run[r].kinds /\ after.named = run[r].named
      /\ after.ok = run[r].ok /\ after.empty = run[r].empty /\ after.at = run[r].at
  BY <1>1 DEF Looping, Shaped
<1>4. BatchOf(run[r]) /\ run[r].turn \in Int
  BY <1>1 DEF Looping, TurnOf
<1>5. run[r].at \in 1..Len(run[r].kinds)
  BY <1>1, <1>4 DEF BatchOf
<1>6. Looping(after)
  <2> HIDE DEF after
  <2> QED BY <1>1, <1>3, <1>5, GuardLoops
<1> HIDE DEF after
<1>7. CASE Goes(r, [after EXCEPT !.pc = "cycle"])
  <2> DEFINE y == [after EXCEPT !.pc = "cycle"]
  <2>1. Shaped(y) /\ y.pc = "cycle" /\ y.at = after.at /\ y.turn = after.turn
        /\ y.used = after.used /\ y.retry = after.retry /\ y.kinds = after.kinds
        /\ y.named = after.named /\ y.ok = after.ok /\ y.empty = after.empty
    BY <1>3 DEF Shaped
  <2>9. Goes(r, y)
    BY <1>7
  <2> HIDE DEF y
  <2>2. Looping(y)
    BY <1>3, <1>5, <1>6, <2>1, GuardLoops
  <2> QED BY <1>1, <2>1, <2>2, <2>9, GoesLoops DEF Stepped
<1>8. CASE \E reason : Goes(r, [after EXCEPT !.pc = "return", !.reason = reason])
  <2>1. PICK reason : Goes(r, [after EXCEPT !.pc = "return", !.reason = reason])
    BY <1>8
  <2>2. Looping([after EXCEPT !.pc = "return", !.reason = reason])
       /\ [after EXCEPT !.pc = "return", !.reason = reason].pc = "return"
    BY <1>6, ReturnLoops
  <2> QED BY <1>1, <2>1, <2>2, GoesLoops DEF Stepped
<1>9. CASE run[r].at < Len(run[r].kinds) /\ Goes(r, [after EXCEPT !.at = @ + 1])
  <2> DEFINE y == [after EXCEPT !.at = @ + 1]
  <2>1. Shaped(y) /\ y.pc = "guard" /\ y.at = after.at + 1 /\ y.turn = after.turn
        /\ y.used = after.used /\ y.retry = after.retry /\ y.kinds = after.kinds
        /\ y.named = after.named /\ y.ok = after.ok /\ y.empty = after.empty
    BY <1>3 DEF Shaped
  <2>2. after.at + 1 \in 1..Len(after.kinds)
    BY <1>3, <1>4, <1>5, <1>9 DEF BatchOf
  <2>9. Goes(r, y)
    BY <1>9
  <2> HIDE DEF y
  <2>3. Looping(y)
    BY <1>3, <1>6, <2>1, <2>2, GuardLoops
  <2> QED BY <1>1, <2>1, <2>3, <2>9, GoesLoops DEF Stepped
<1>10. CASE ~AtCeiling(r) /\ Goes(r, [after EXCEPT !.pc = "compact", !.changed = FALSE])
  <2> DEFINE y == [after EXCEPT !.pc = "compact", !.changed = FALSE]
  <2>1. Shaped(y) /\ y.pc = "compact" /\ y.at = after.at /\ y.turn = after.turn
        /\ y.used = after.used /\ y.retry = after.retry /\ y.kinds = after.kinds
        /\ y.named = after.named /\ y.ok = after.ok /\ y.empty = after.empty
    BY <1>3 DEF Shaped
  <2>2. after.turn < MaxTurns
    BY <1>3, <1>4, <1>10, MaxTurnsIs DEF AtCeiling
  <2>9. Goes(r, y)
    BY <1>10
  <2> HIDE DEF y
  <2>3. Looping(y)
    BY <1>3, <1>5, <1>6, <2>1, <2>2, GuardLoops
  <2> QED BY <1>1, <2>1, <2>3, <2>9, GoesLoops DEF Stepped
<1> QED BY <1>2, <1>7, <1>8, <1>9, <1>10 DEF after

LEMMA CycleDecidedLoops ==
  ASSUME LoopInv, NEW r \in Runs, CycleDecided(r)
  PROVE  LoopInv' /\ Stepped(r, {"cycle"}, {"guard", "compact", "return"})
<1>1. Looping(run[r]) /\ run[r].pc = "cycle" /\ calls' \in Nat
  BY DEF LoopInv, CycleDecided, At, LoopKept
<1> DEFINE more == run[r].at < Len(run[r].kinds)
           at == IF more THEN run[r].at + 1 ELSE run[r].at
           pc == IF more THEN "guard" ELSE IF AtCeiling(r) THEN "return" ELSE "compact"
           y == [run[r] EXCEPT !.recent = <<>>, !.at = IF more THEN @ + 1 ELSE @, !.pc = pc,
                               !.reason = IF ~more /\ AtCeiling(r) THEN "turn_ceiling" ELSE @]
<1>2. BatchOf(run[r]) /\ run[r].turn \in Int
  BY <1>1 DEF Looping, TurnOf
<1>3. CASE Goes(r, y)
  <2>1. Shaped(y) /\ y.pc = pc /\ y.at = at
    BY <1>1 DEF Looping, Shaped
  <2>2. y.turn = run[r].turn /\ y.used = run[r].used /\ y.retry = run[r].retry
        /\ y.kinds = run[r].kinds /\ y.named = run[r].named /\ y.ok = run[r].ok /\ y.empty = run[r].empty
    BY <1>1 DEF Looping, Shaped
  <2>3. at \in 1..Len(run[r].kinds)
    BY <1>1, <1>2 DEF BatchOf
  <2>4. pc \in {"guard", "cycle", "compact", "return"}
    OBVIOUS
  <2>5. pc = "compact" => run[r].turn < MaxTurns
    BY <1>2, MaxTurnsIs DEF AtCeiling
  <2>9. Goes(r, y) /\ pc \in {"guard", "compact", "return"}
    BY <1>3
  <2> HIDE DEF y, pc, at
  <2>6. Looping(y)
    BY <1>1, <2>1, <2>2, <2>3, <2>4, <2>5, GuardLoops
  <2> QED BY <1>1, <2>1, <2>6, <2>9, GoesLoops DEF Stepped
<1>4. CASE Returns(r, "cycle")
  <2>1. Looping([run[r] EXCEPT !.pc = "return", !.reason = "cycle"])
       /\ [run[r] EXCEPT !.pc = "return", !.reason = "cycle"].pc = "return"
    BY <1>1, ReturnLoops
  <2> QED BY <1>1, <1>4, <2>1, GoesLoops DEF Returns, Stepped
<1> QED BY <1>3, <1>4 DEF CycleDecided

\* A run that comes to rest, or starts.
LEMMA RestLoops ==
  ASSUME NEW y, Shaped(y), y.pc \in {"idle", "begin", "done"}, y.turn = 0, y.used = 0,
         y.retry \in BOOLEAN
  PROVE  Looping(y)
<1>1. TurnOf(y)
  BY MaxTurnsIs DEF TurnOf, Inside
<1>2. BatchOf(y)
  BY DEF BatchOf
<1> QED BY <1>1, <1>2 DEF Looping
LEMMA AsleepLoops ==
  ASSUME NEW pc \in {"idle", "begin", "done"}
  PROVE  Looping([Asleep EXCEPT !.pc = pc]) /\ Looping(Asleep)
<1>1. ASSUME NEW y, y \in {[Asleep EXCEPT !.pc = pc], Asleep}
      PROVE  /\ Shaped(y) /\ y.pc \in {"idle", "begin", "done"} /\ y.turn = 0 /\ y.used = 0
             /\ y.retry \in BOOLEAN
  <2>1. Shaped(Asleep) /\ Asleep.pc = "idle" /\ Asleep.turn = 0 /\ Asleep.used = 0
        /\ Asleep.retry = FALSE
    BY DEF Shaped, Asleep
  <2>2. CASE y = Asleep
    BY <2>1, <2>2
  <2>3. CASE y = [Asleep EXCEPT !.pc = pc]
    <3>1. Shaped(y) /\ y.pc = pc /\ y.turn = Asleep.turn /\ y.used = Asleep.used
          /\ y.retry = Asleep.retry
      BY <2>1, <2>3 DEF Shaped
    <3> QED BY <2>1, <3>1
  <2> QED BY <1>1, <2>2, <2>3
<1> QED BY <1>1, RestLoops

\* What Stop and the wall clock set.
LEMMA CancelLoops ==
  ASSUME NEW x, Looping(x)
  PROVE  Looping([x EXCEPT !.cancel = TRUE]) /\ Looping([x EXCEPT !.wall = TRUE])
<1>1. ASSUME NEW y, y \in {[x EXCEPT !.cancel = TRUE], [x EXCEPT !.wall = TRUE]}
      PROVE  Looping(y)
  <2>1. Shaped(y) /\ y.pc = x.pc /\ y.turn = x.turn /\ y.used = x.used /\ y.retry = x.retry
        /\ y.kinds = x.kinds /\ y.named = x.named /\ y.ok = x.ok /\ y.empty = x.empty /\ y.at = x.at
    BY <1>1 DEF Looping, Shaped
  <2>2. TurnOf(y)
    BY <2>1 DEF Looping, TurnOf
  <2>3. BatchOf(y)
    BY <2>1 DEF Looping, BatchOf
  <2> QED BY <2>1, <2>2, <2>3 DEF Looping
<1> QED BY <1>1

LEMMA OuterLoops ==
  ASSUME LoopInv,
         \/ \E r \in Runs : Finish(r) \/ Wall(r) \/ Stop(r)
         \/ Start \/ Restart
  PROVE  LoopInv'
<1>1. ASSUME NEW r \in Runs, Finish(r) PROVE LoopInv'
  <2>1. Goes(r, [Asleep EXCEPT !.pc = "done"]) /\ calls' \in Nat
    BY <1>1 DEF Finish, SchedKept, LoopInv
  <2>2. Looping([Asleep EXCEPT !.pc = "done"])
    BY AsleepLoops
  <2> QED BY <2>1, <2>2, GoesLoops
<1>2. ASSUME NEW r \in Runs, Wall(r) PROVE LoopInv'
  <2>1. Goes(r, [run[r] EXCEPT !.wall = TRUE]) /\ calls' \in Nat
    BY <1>2 DEF Wall, SchedKept, LoopInv, Goes
  <2>2. Looping([run[r] EXCEPT !.wall = TRUE])
    BY CancelLoops DEF LoopInv
  <2> QED BY <2>1, <2>2, GoesLoops
<1>3. ASSUME NEW r \in Runs, Stop(r) PROVE LoopInv'
  <2>1. Goes(r, [run[r] EXCEPT !.cancel = TRUE]) /\ calls' \in Nat
    BY <1>3 DEF Stop, SchedKept, LoopInv, Goes
  <2>2. Looping([run[r] EXCEPT !.cancel = TRUE])
    BY CancelLoops DEF LoopInv
  <2> QED BY <2>1, <2>2, GoesLoops
<1>4. CASE Start
  <2>1. Goes(started + 1, [Asleep EXCEPT !.pc = "begin"]) /\ calls' \in Nat
    BY <1>4 DEF Start, Goes, LoopInv
  <2>2. Looping([Asleep EXCEPT !.pc = "begin"])
    BY AsleepLoops
  <2>3. CASE started + 1 \in Runs
    BY <2>1, <2>2, <2>3, GoesLoops
  <2>4. CASE started + 1 \notin Runs
    BY <2>1, <2>4 DEF Goes, LoopInv
  <2> QED BY <2>3, <2>4
<1>5. CASE Restart
  <2>1. run' = [r \in Runs |-> IF run[r].pc = "idle" THEN run[r] ELSE [Asleep EXCEPT !.pc = "done"]]
        /\ calls' = calls
    BY <1>5 DEF Restart
  <2>2. Looping([Asleep EXCEPT !.pc = "done"])
    BY AsleepLoops
  <2>3. \A r \in Runs : Looping(run'[r])
    BY <2>1, <2>2 DEF LoopInv
  <2>4. run' = [r \in Runs |-> run'[r]] /\ calls' \in Nat
    BY <2>1 DEF LoopInv
  <2> QED BY <2>3, <2>4 DEF LoopInv, Looping, Shaped, TurnOf, BatchOf
<1> QED BY <1>1, <1>2, <1>3, <1>4, <1>5

LEMMA LoopKeeps ==
  ASSUME LoopInv, [Next]_vars
  PROVE  LoopInv'
<1>1. CASE UNCHANGED <<run, calls>>
  BY <1>1 DEF LoopInv, Looping, Shaped, TurnOf, BatchOf
<1>2. ASSUME NEW a \in Writers, Publish(a) \/ Install(a) PROVE UNCHANGED <<run, calls>>
  BY <1>2 DEF Publish, Install
<1>3. ASSUME NEW r \in Runs, Own(r) PROVE LoopInv'
  BY <1>3, BeginLoops, StopsLoops, BoundaryLoops, AssembleLoops, AnswerLoops, ToolStartsLoops,
     ToolReturnsLoops, AppendNextLoops, ObserveLoops, CompactLoops, ElideOldLoops,
     SummarizeLoops, FitElidesLoops, FitSummarizesLoops, EndFlightLoops, OuterLoops
  DEF Own, Stops
<1>4. ASSUME NEW r \in Runs, Served(r) PROVE LoopInv'
  BY <1>4, FailsLoops, TextLoops, TruncatedLoops, CallsLoops, CycleDecidedLoops DEF Served
<1>5. ASSUME NEW r \in Runs, StopReturns(r) \/ StopTimeout(r) \/ ForceFinish(r)
      PROVE  UNCHANGED <<run, calls>>
  BY <1>5 DEF StopReturns, StopTimeout, ForceFinish, SchedKept
<1>6. CASE Settle
  BY <1>1, <1>6 DEF Settle
<1>7. CASE UNCHANGED vars
  BY <1>1, <1>7 DEF vars
<1> QED BY <1>1, <1>2, <1>3, <1>4, <1>5, <1>6, <1>7, OuterLoops DEF Next

\* The record of every run follows the loop of run.go: the turn, the retry of a truncated call
\* and the calls of the turn agree with the place where its goroutine is.
THEOREM LoopAlways == Spec => []LoopInv
<1>1. Init => LoopInv
  <2>1. ASSUME Init PROVE run = [r \in Runs |-> Asleep] /\ calls = 0
    BY <2>1 DEF Init
  <2> QED BY <2>1, AsleepLoops DEF LoopInv
<1> QED BY <1>1, LoopKeeps, PTL DEF Spec

\* RunBounded: no run exceeds run.max_turns by more than the turn that asks again for a
\* truncated call, or run.max_tool_calls (run.go).
THEOREM RunBoundedAlways == Spec => []RunBounded
<1>1. LoopInv => RunBounded
  BY DEF LoopInv, Looping, TurnOf, RunBounded
<1> QED BY <1>1, LoopAlways, PTL

----------------------------------------------------------------------------
(* The flight book and the abort records.                                  *)

Stages == {"", "starting", "assemble", "call_model", "execute", "append", "compact"}
Flight == [run : Runs \cup {NoRun}, stage : Stages, paths : SUBSET Nat, complete : BOOLEAN,
           streamed : SUBSET (Nat \X STRING)]
Abort == [run : Runs, paths : SUBSET Nat, complete : BOOLEAN, writing : SUBSET Nat]

\* The book knows a run from its begin to the end of its flight, unless another run took its
\* place.
Known ==
  /\ flight \in Flight
  /\ \A r \in Runs : flight.run = r => run[r].pc \in Inside
  /\ \A r \in Runs \ late : run[r].pc \in Inside => flight.run = r \/ r \in recorded

\* The call in flight is the one whose file the book names.
Writing ==
  \A r \in Runs :
    flight.run = r /\ run[r].pc = "tool" /\ run[r].kinds[run[r].at] = "write"
      => flight.paths = {run[r].named[run[r].at]}

\* A run with a record is in recorded until its flight ends.
Recorded ==
  /\ aborts \in Seq(Abort)
  /\ \A i \in 1..Len(aborts) : aborts[i].run \notin late =>
       /\ aborts[i].writing \subseteq aborts[i].paths
       /\ run[aborts[i].run].pc \in Inside \cup {"finish", "done"}
       /\ run[aborts[i].run].pc \in Inside => aborts[i].run \in recorded
  /\ \A i, j \in 1..Len(aborts) :
       aborts[i].run \notin late /\ aborts[i].run = aborts[j].run => i = j

FlightInv == Known /\ Writing /\ Recorded

LEMMA RunsAreNot == NoRun \notin Runs
BY DEF Runs, NoRun

\* A step inside the loop, of a goroutine that starts no tool.
Moved(r) ==
  /\ run[r].pc \in Inside /\ run'[r].pc \in Inside \ {"tool"}
  /\ \A q \in Runs : q # r => run'[q] = run[q]
  /\ UNCHANGED <<aborts, recorded, late>>
  /\ flight' \in Flight /\ flight'.run = flight.run
  /\ flight.run # r => flight' = flight

LEMMA MovedFlight ==
  ASSUME LoopInv, FlightInv, NEW r \in Runs, Moved(r)
  PROVE  FlightInv'
<1>1. Known'
  BY DEF FlightInv, Known, Moved
<1>2. Writing'
  BY DEF FlightInv, Writing, Moved
<1>3. Recorded'
  <2>1. \A i \in 1..Len(aborts) : aborts[i].run \in Runs
    <3>1. \A i \in 1..Len(aborts) : aborts[i] \in Abort
      BY DEF FlightInv, Recorded
    <3> QED BY <3>1 DEF Abort
  <2> QED BY <2>1 DEF FlightInv, Recorded, Moved
<1> QED BY <1>1, <1>2, <1>3 DEF FlightInv

\* The paths a record names are those of the call in flight.
LEMMA AbortOfIs ==
  ASSUME LoopInv, FlightInv, NEW r \in Runs
  PROVE  /\ AbortOf(r) \in Abort /\ AbortOf(r).run = r
         /\ flight.run = r => AbortOf(r).writing \subseteq AbortOf(r).paths
<1>1. flight \in Flight
  BY DEF FlightInv, Known
<1>2. AbortPaths \in SUBSET Nat
  BY <1>1 DEF AbortPaths, Flight
<1>3. AbortComplete \in BOOLEAN
  BY <1>1 DEF AbortComplete, Flight
<1>4. InFlight(r) = IF run[r].pc = "tool" /\ run[r].kinds[run[r].at] = "write"
                    THEN {run[r].named[run[r].at]} ELSE {}
  BY DEF InFlight
<1>5. InFlight(r) \in SUBSET Nat
  <2>1. CASE run[r].pc = "tool"
    <3>1. BatchOf(run[r])
      BY DEF LoopInv, Looping
    <3>2. run[r].named \in Seq(Nat) /\ run[r].at \in 1..Len(run[r].named)
      BY <2>1, <3>1 DEF BatchOf
    <3> QED BY <1>4, <3>2
  <2>2. CASE run[r].pc # "tool"
    BY <1>4, <2>2
  <2> QED BY <2>1, <2>2
<1>6. flight.run = r => InFlight(r) \subseteq AbortPaths
  <2>1. ASSUME flight.run = r, InFlight(r) # {} PROVE flight.paths = InFlight(r)
    BY <1>4, <2>1 DEF FlightInv, Writing
  <2> QED BY <2>1 DEF AbortPaths
<1> QED BY <1>2, <1>3, <1>5, <1>6 DEF AbortOf, Abort

LEMMA FlightAtIs ==
  ASSUME NEW r \in Runs, NEW stage \in Stages, NEW paths \in SUBSET Nat, NEW complete \in BOOLEAN,
         flight \in Flight, FlightAt(r, stage, paths, complete)
  PROVE  /\ flight' \in Flight /\ flight'.run = flight.run
         /\ flight.run # r => flight' = flight
         /\ flight.run = r => flight'.paths = paths
<1>1. CASE flight.run # r
  BY <1>1 DEF FlightAt
<1>2. CASE flight.run = r
  <2>1. PICK streamed \in SUBSET (Nat \X STRING) :
          flight' = [flight EXCEPT !.stage = stage, !.paths = paths, !.complete = complete,
                                   !.streamed = streamed]
    BY <1>2 DEF FlightAt, Flight
  <2> QED BY <1>2, <2>1 DEF Flight
<1> QED BY <1>1, <1>2

\* A record is written, by the run or by Stop.
LEMMA RecordKeeps ==
  ASSUME LoopInv, FlightInv, NEW r \in Runs, NEW a, RecordAbort(r, a),
         late \subseteq late', r \in late' \/ flight.run = r \/ r \in recorded,
         \A q \in Runs : \/ run'[q].pc = run[q].pc
                         \/ run[q].pc \in Inside /\ run'[q].pc \in Inside
  PROVE  Recorded' /\ recorded \subseteq recorded'
<1> USE DEF FlightInv
<1>1. aborts \in Seq(Abort) /\ Len(aborts) \in Nat
      /\ \A i \in 1..Len(aborts) : aborts[i] \in Abort /\ aborts[i].run \in Runs
  <2>1. aborts \in Seq(Abort) /\ \A i \in 1..Len(aborts) : aborts[i] \in Abort
    BY DEF Recorded
  <2> QED BY <2>1 DEF Abort
<1>2. CASE r \in recorded
  <2>1. UNCHANGED <<aborts, recorded>>
    BY <1>2 DEF RecordAbort
  <2>2. Recorded
    OBVIOUS
  <2> QED BY <1>1, <2>1, <2>2 DEF Recorded
<1>3. CASE r \notin recorded
  <2> DEFINE n == Len(aborts)
             e == AbortOf(r)
  <2>1. aborts' = Append(aborts, e) /\ recorded' = recorded \cup {r}
    BY <1>3 DEF RecordAbort
  <2>2. e \in Abort /\ e.run = r /\ (flight.run = r => e.writing \subseteq e.paths)
    BY AbortOfIs
  <2> HIDE DEF e
  <2>3. aborts' \in Seq(Abort) /\ Len(aborts') = n + 1 /\ aborts'[n + 1] = e
        /\ \A i \in 1..n : aborts'[i] = aborts[i]
    BY <1>1, <2>1, <2>2
  <2>4. r \notin late' => flight.run = r /\ run[r].pc \in Inside
    BY <1>3 DEF Known
  <2>5. \A i \in 1..n : aborts[i].run = r => r \in late'
    BY <1>3, <2>4 DEF Recorded
  <2>6. \A i \in 1..Len(aborts') : i \in 1..n \/ i = n + 1
    BY <1>1, <2>3
  <2>7. ASSUME NEW i \in 1..Len(aborts'), aborts'[i].run \notin late'
        PROVE  /\ aborts'[i].writing \subseteq aborts'[i].paths
               /\ run'[aborts'[i].run].pc \in Inside \cup {"finish", "done"}
               /\ run'[aborts'[i].run].pc \in Inside => aborts'[i].run \in recorded'
    <3>1. CASE i = n + 1
      BY <2>1, <2>2, <2>3, <2>4, <2>7, <3>1
    <3>2. CASE i \in 1..n
      <4>1. aborts'[i] = aborts[i] /\ aborts[i].run \notin late /\ aborts[i].run \in Runs
        BY <1>1, <2>3, <2>7, <3>2
      <4>2. /\ aborts[i].writing \subseteq aborts[i].paths
            /\ run[aborts[i].run].pc \in Inside \cup {"finish", "done"}
            /\ run[aborts[i].run].pc \in Inside => aborts[i].run \in recorded
        BY <3>2, <4>1 DEF Recorded
      <4> QED BY <2>1, <4>1, <4>2 DEF Inside
    <3> QED BY <2>6, <3>1, <3>2
  <2>8. ASSUME NEW i \in 1..Len(aborts'), NEW j \in 1..Len(aborts'),
               aborts'[i].run \notin late', aborts'[i].run = aborts'[j].run
        PROVE  i = j
    <3>1. CASE i = n + 1 \/ j = n + 1
      BY <2>2, <2>3, <2>5, <2>6, <2>8, <3>1
    <3>2. CASE i \in 1..n /\ j \in 1..n
      BY <2>3, <2>8, <3>2 DEF Recorded
    <3> QED BY <2>6, <3>1, <3>2
  <2> QED BY <2>1, <2>3, <2>7, <2>8 DEF Recorded
<1> QED BY <1>2, <1>3

LEMMA ContextStopFlight ==
  ASSUME LoopInv, FlightInv, NEW r \in Runs, ContextStop(r), run[r].pc \in Inside
  PROVE  FlightInv'
<1>1. PICK reason : Returns(r, reason)
  BY DEF ContextStop
<1>2. \A q \in Runs : q # r => run'[q] = run[q]
  BY <1>1 DEF Returns, Goes, LoopInv
<1>3. run'[r].pc = "return"
  BY <1>1 DEF Returns, Goes, LoopInv, Looping, Shaped
<1>4. UNCHANGED <<flight, late>>
  BY DEF ContextStop, LoopKept, ghosts
<1>5. CASE run[r].wall
  <2>1. UNCHANGED <<aborts, recorded>>
    BY <1>5 DEF ContextStop
  <2>2. \A i \in 1..Len(aborts) : aborts[i].run \in Runs
    <3>1. \A i \in 1..Len(aborts) : aborts[i] \in Abort
      BY DEF FlightInv, Recorded
    <3> QED BY <3>1 DEF Abort
  <2>3. Known'
    BY <1>2, <1>3, <1>4, <2>1 DEF FlightInv, Known, Inside
  <2>4. Writing'
    BY <1>2, <1>3, <1>4 DEF FlightInv, Writing
  <2>5. Recorded'
    BY <1>2, <1>3, <1>4, <2>1, <2>2 DEF FlightInv, Recorded, Inside
  <2> QED BY <2>3, <2>4, <2>5 DEF FlightInv
<1>6. CASE ~run[r].wall
  <2>1. RecordAbort(r, Goroutine(r))
    BY <1>6 DEF ContextStop
  <2>2. r \in late' \/ flight.run = r \/ r \in recorded
    BY <1>4 DEF FlightInv, Known
  <2>3. Recorded' /\ recorded \subseteq recorded'
    BY <1>2, <1>3, <1>4, <2>1, <2>2, RecordKeeps DEF Inside
  <2>4. Known'
    BY <1>2, <1>3, <1>4, <2>3 DEF FlightInv, Known, Inside
  <2>5. Writing'
    BY <1>2, <1>3, <1>4 DEF FlightInv, Writing
  <2> QED BY <2>3, <2>4, <2>5 DEF FlightInv
<1> QED BY <1>5, <1>6

LEMMA StopTimeoutFlight ==
  ASSUME LoopInv, FlightInv, NEW r \in Runs, StopTimeout(r)
  PROVE  FlightInv'
<1>1. UNCHANGED <<run, flight>> /\ late' = late \cup ({r} \ (recorded \cup {flight.run}))
      /\ RecordAbort(r, Stopping(r))
  BY DEF StopTimeout
<1>2. Recorded' /\ recorded \subseteq recorded'
  BY <1>1, RecordKeeps
<1>3. Known'
  BY <1>1, <1>2 DEF FlightInv, Known
<1>4. Writing'
  BY <1>1 DEF FlightInv, Writing
<1> QED BY <1>2, <1>3, <1>4 DEF FlightInv

LEMMA BeginFlight ==
  ASSUME LoopInv, FlightInv, NEW r \in Runs, Begin(r)
  PROVE  FlightInv'
<1>1. run[r].pc = "begin" /\ run'[r].pc \in {"top", "return"} /\ \A q \in Runs : q # r => run'[q] = run[q]
  BY DEF Begin, At, Goes, Returns, LoopInv, Looping, Shaped
<1>2. /\ flight' = [NoFlight EXCEPT !.run = r, !.stage = "starting"]
      /\ recorded' = recorded \ {r} /\ aborts' = aborts
      /\ late' = late \cup ({flight.run} \ (recorded \cup {NoRun, r}))
  BY DEF Begin
<1>3. flight' \in Flight /\ flight'.run = r
  <2>1. NoFlight \in Flight
    BY DEF NoFlight, Flight, Stages
  <2>2. \A f \in Flight : [f EXCEPT !.run = r, !.stage = "starting"] \in Flight
                           /\ [f EXCEPT !.run = r, !.stage = "starting"].run = r
    BY DEF Flight, Stages
  <2> QED BY <1>2, <2>1, <2>2
<1>4. aborts \in Seq(Abort) /\ \A i \in 1..Len(aborts) : aborts[i].run \in Runs
  <2>1. aborts \in Seq(Abort) /\ \A i \in 1..Len(aborts) : aborts[i] \in Abort
    BY DEF FlightInv, Recorded
  <2> QED BY <2>1 DEF Abort
<1>5. flight.run # r
  BY <1>1 DEF FlightInv, Known, Inside
<1>6. Known'
  BY <1>1, <1>2, <1>3, RunsAreNot DEF FlightInv, Known, Inside
<1>7. Writing'
  BY <1>1, <1>3 DEF Writing
<1>8. Recorded'
  <2>1. \A i \in 1..Len(aborts) : aborts[i].run \notin late => aborts[i].run # r
    BY <1>1 DEF FlightInv, Recorded, Inside
  <2> QED BY <1>1, <1>2, <1>4, <2>1 DEF FlightInv, Recorded
<1> QED BY <1>6, <1>7, <1>8 DEF FlightInv

LEMMA BoundaryMoves ==
  ASSUME LoopInv, Known, NEW r \in Runs, Boundary(r)
  PROVE  Moved(r)
<1>2. /\ run[r].pc \in Inside
      /\ run'[r].pc \in Inside \ {"tool"}
      /\ \A q \in Runs : q # r => run'[q] = run[q]
  BY BoundaryLoops DEF Stepped, Inside
<1>3. UNCHANGED <<aborts, recorded, late>>
  BY DEF Boundary, ghosts, BookKept
<1>4. flight' = flight \/ \E stage \in Stages : FlightAt(r, stage, {}, TRUE)
  BY DEF Boundary, Stages, BookKept
<1> QED BY <1>2, <1>3, <1>4, FlightAtIs DEF Known, Moved

LEMMA AssembleMoves ==
  ASSUME LoopInv, Known, NEW r \in Runs, Assemble(r)
  PROVE  Moved(r)
<1>2. /\ run[r].pc \in Inside
      /\ run'[r].pc \in Inside \ {"tool"}
      /\ \A q \in Runs : q # r => run'[q] = run[q]
  BY AssembleLoops DEF Stepped, Inside
<1>3. UNCHANGED <<aborts, recorded, late>>
  BY DEF Assemble, ghosts, Unreachable
<1>4. flight' = flight \/ \E stage \in Stages : FlightAt(r, stage, {}, TRUE)
  BY DEF Assemble, Stages, Unreachable
<1> QED BY <1>2, <1>3, <1>4, FlightAtIs DEF Known, Moved

LEMMA AnswerMoves ==
  ASSUME LoopInv, Known, NEW r \in Runs, Answer(r)
  PROVE  Moved(r)
<1>2. /\ run[r].pc \in Inside
      /\ run'[r].pc \in Inside \ {"tool"}
      /\ \A q \in Runs : q # r => run'[q] = run[q]
  BY AnswerLoops DEF Stepped, Inside
<1>3. UNCHANGED <<aborts, recorded, late>>
  BY DEF Answer, ghosts, LoopKept
<1>4. flight' = flight \/ \E stage \in Stages : FlightAt(r, stage, {}, TRUE)
  BY DEF Answer, Stages, LoopKept
<1> QED BY <1>2, <1>3, <1>4, FlightAtIs DEF Known, Moved

LEMMA AppendNextMoves ==
  ASSUME LoopInv, Known, NEW r \in Runs, AppendNext(r)
  PROVE  Moved(r)
<1>2. /\ run[r].pc \in Inside
      /\ run'[r].pc \in Inside \ {"tool"}
      /\ \A q \in Runs : q # r => run'[q] = run[q]
  BY AppendNextLoops DEF Stepped, Inside
<1>3. UNCHANGED <<aborts, recorded, late>>
  BY DEF AppendNext, ghosts, LoopKept
<1>4. flight' = flight \/ \E stage \in Stages : FlightAt(r, stage, {}, TRUE)
  BY DEF AppendNext, Stages, LoopKept
<1> QED BY <1>2, <1>3, <1>4, FlightAtIs DEF Known, Moved

LEMMA ObserveMoves ==
  ASSUME LoopInv, Known, NEW r \in Runs, Observe(r)
  PROVE  Moved(r)
<1>2. /\ run[r].pc \in Inside
      /\ run'[r].pc \in Inside \ {"tool"}
      /\ \A q \in Runs : q # r => run'[q] = run[q]
  BY ObserveLoops DEF Stepped, Inside
<1>3. UNCHANGED <<aborts, recorded, late>>
  BY DEF Observe, ghosts, LoopKept, BookKept
<1>4. flight' = flight \/ \E stage \in Stages : FlightAt(r, stage, {}, TRUE)
  BY DEF Observe, Stages, LoopKept, BookKept
<1> QED BY <1>2, <1>3, <1>4, FlightAtIs DEF Known, Moved

LEMMA CompactMoves ==
  ASSUME LoopInv, Known, NEW r \in Runs, Compact(r)
  PROVE  Moved(r)
<1>2. /\ run[r].pc \in Inside
      /\ run'[r].pc \in Inside \ {"tool"}
      /\ \A q \in Runs : q # r => run'[q] = run[q]
  BY CompactLoops DEF Stepped, Inside
<1>3. UNCHANGED <<aborts, recorded, late>>
  BY DEF Compact, ghosts, LoopKept
<1>4. flight' = flight \/ \E stage \in Stages : FlightAt(r, stage, {}, TRUE)
  BY DEF Compact, Stages, LoopKept
<1> QED BY <1>2, <1>3, <1>4, FlightAtIs DEF Known, Moved

LEMMA ElideOldMoves ==
  ASSUME LoopInv, Known, NEW r \in Runs, ElideOld(r)
  PROVE  Moved(r)
<1>2. /\ run[r].pc \in Inside
      /\ run'[r].pc \in Inside \ {"tool"}
      /\ \A q \in Runs : q # r => run'[q] = run[q]
  BY ElideOldLoops DEF Stepped, Inside
<1>3. UNCHANGED <<aborts, recorded, late>>
  BY DEF ElideOld, ghosts, BookKept
<1>4. flight' = flight \/ \E stage \in Stages : FlightAt(r, stage, {}, TRUE)
  BY DEF ElideOld, Stages, BookKept
<1> QED BY <1>2, <1>3, <1>4, FlightAtIs DEF Known, Moved

LEMMA SummarizeMoves ==
  ASSUME LoopInv, Known, NEW r \in Runs, Summarize(r)
  PROVE  Moved(r)
<1>2. /\ run[r].pc \in Inside
      /\ run'[r].pc \in Inside \ {"tool"}
      /\ \A q \in Runs : q # r => run'[q] = run[q]
  BY SummarizeLoops DEF Stepped, Inside
<1>3. UNCHANGED <<aborts, recorded, late>>
  BY DEF Summarize, ghosts, BookKept, TrySummary
<1>4. flight' = flight \/ \E stage \in Stages : FlightAt(r, stage, {}, TRUE)
  BY DEF Summarize, Stages, BookKept, TrySummary
<1> QED BY <1>2, <1>3, <1>4, FlightAtIs DEF Known, Moved

LEMMA FitElidesMoves ==
  ASSUME LoopInv, Known, NEW r \in Runs, FitElides(r)
  PROVE  Moved(r)
<1>2. /\ run[r].pc \in Inside
      /\ run'[r].pc \in Inside \ {"tool"}
      /\ \A q \in Runs : q # r => run'[q] = run[q]
  BY FitElidesLoops DEF Stepped, Inside
<1>3. UNCHANGED <<aborts, recorded, late>>
  BY DEF FitElides, ghosts, BookKept, LoopKept
<1>4. flight' = flight \/ \E stage \in Stages : FlightAt(r, stage, {}, TRUE)
  BY DEF FitElides, Stages, BookKept, LoopKept
<1> QED BY <1>2, <1>3, <1>4, FlightAtIs DEF Known, Moved

LEMMA FitSummarizesMoves ==
  ASSUME LoopInv, Known, NEW r \in Runs, FitSummarizes(r)
  PROVE  Moved(r)
<1>2. /\ run[r].pc \in Inside
      /\ run'[r].pc \in Inside \ {"tool"}
      /\ \A q \in Runs : q # r => run'[q] = run[q]
  BY FitSummarizesLoops DEF Stepped, Inside
<1>3. UNCHANGED <<aborts, recorded, late>>
  BY DEF FitSummarizes, ghosts, BookKept, TrySummary
<1>4. flight' = flight \/ \E stage \in Stages : FlightAt(r, stage, {}, TRUE)
  BY DEF FitSummarizes, Stages, BookKept, TrySummary
<1> QED BY <1>2, <1>3, <1>4, FlightAtIs DEF Known, Moved

LEMMA FailsMoves ==
  ASSUME LoopInv, Known, NEW r \in Runs, Fails(r)
  PROVE  Moved(r)
<1>2. /\ run[r].pc \in Inside
      /\ run'[r].pc \in Inside \ {"tool"}
      /\ \A q \in Runs : q # r => run'[q] = run[q]
  BY FailsLoops DEF Stepped, Inside
<1>3. UNCHANGED <<aborts, recorded, late>>
  BY DEF Fails, ghosts, BookKept, Unreachable
<1>4. flight' = flight \/ \E stage \in Stages : FlightAt(r, stage, {}, TRUE)
  BY DEF Fails, Stages, BookKept, Unreachable
<1> QED BY <1>2, <1>3, <1>4, FlightAtIs DEF Known, Moved

LEMMA TextMoves ==
  ASSUME LoopInv, Known, NEW r \in Runs, Text(r)
  PROVE  Moved(r)
<1>2. /\ run[r].pc \in Inside
      /\ run'[r].pc \in Inside \ {"tool"}
      /\ \A q \in Runs : q # r => run'[q] = run[q]
  BY TextLoops DEF Stepped, Inside
<1>3. UNCHANGED <<aborts, recorded, late>>
  BY DEF Text, ghosts, BookKept
<1>4. flight' = flight \/ \E stage \in Stages : FlightAt(r, stage, {}, TRUE)
  BY DEF Text, Stages, BookKept
<1> QED BY <1>2, <1>3, <1>4, FlightAtIs DEF Known, Moved

LEMMA TruncatedMoves ==
  ASSUME LoopInv, Known, NEW r \in Runs, Truncated(r)
  PROVE  Moved(r)
<1>2. /\ run[r].pc \in Inside
      /\ run'[r].pc \in Inside \ {"tool"}
      /\ \A q \in Runs : q # r => run'[q] = run[q]
  BY TruncatedLoops DEF Stepped, Inside
<1>3. UNCHANGED <<aborts, recorded, late>>
  BY DEF Truncated, ghosts, BookKept
<1>4. flight' = flight \/ \E stage \in Stages : FlightAt(r, stage, {}, TRUE)
  BY DEF Truncated, Stages, BookKept
<1> QED BY <1>2, <1>3, <1>4, FlightAtIs DEF Known, Moved

LEMMA CycleDecidedMoves ==
  ASSUME LoopInv, Known, NEW r \in Runs, CycleDecided(r)
  PROVE  Moved(r)
<1>2. /\ run[r].pc \in Inside
      /\ run'[r].pc \in Inside \ {"tool"}
      /\ \A q \in Runs : q # r => run'[q] = run[q]
  BY CycleDecidedLoops DEF Stepped, Inside
<1>3. UNCHANGED <<aborts, recorded, late>>
  BY DEF CycleDecided, ghosts, BookKept, LoopKept
<1>4. flight' = flight \/ \E stage \in Stages : FlightAt(r, stage, {}, TRUE)
  BY DEF CycleDecided, Stages, BookKept, LoopKept
<1> QED BY <1>2, <1>3, <1>4, FlightAtIs DEF Known, Moved

LEMMA CallsMoves ==
  ASSUME LoopInv, Known, NEW r \in Runs, Calls(r)
  PROVE  Moved(r)
<1>1. /\ run[r].pc \in Inside /\ run'[r].pc \in Inside \ {"tool"}
      /\ \A q \in Runs : q # r => run'[q] = run[q]
  BY CallsLoops DEF Stepped, Inside
<1>2. UNCHANGED <<aborts, recorded, late>>
  BY DEF Calls, ghosts
<1>3. PICK b \in Batches :
        flight' = IF flight.run = r
                  THEN [flight EXCEPT !.streamed =
                          {<<[k \in 1..Len(b.kinds) |-> calls + k][x], b.kinds[x]>> : x \in 1..Len(b.kinds)}]
                  ELSE flight
  BY Zenon DEF Calls
<1>4. b.kinds \in Seq(STRING) /\ calls \in Nat
  BY TurnConstants DEF LoopInv
<1>5. {<<[k \in 1..Len(b.kinds) |-> calls + k][x], b.kinds[x]>> : x \in 1..Len(b.kinds)}
        \in SUBSET (Nat \X STRING)
  <2>1. ASSUME NEW x \in 1..Len(b.kinds)
        PROVE  [k \in 1..Len(b.kinds) |-> calls + k][x] \in Nat /\ b.kinds[x] \in STRING
    BY <1>4
  <2>2. \A x \in 1..Len(b.kinds) :
          <<[k \in 1..Len(b.kinds) |-> calls + k][x], b.kinds[x]>> \in Nat \X STRING
    BY <2>1
  <2> QED BY Zenon, <2>2
<1>6. flight' \in Flight /\ flight'.run = flight.run
  BY <1>3, <1>5 DEF Known, Flight
<1> QED BY <1>1, <1>2, <1>3, <1>6 DEF Moved

LEMMA ToolStartsFlight ==
  ASSUME LoopInv, FlightInv, NEW r \in Runs, ToolStarts(r)
  PROVE  FlightInv'
<1> DEFINE k == run[r].at
           kind == run[r].kinds[k]
           call == run[r].named[k]
           paths == IF kind = "write" THEN {call} ELSE IF kind = "shell" THEN {0} ELSE {}
<1>1. run[r].pc = "dispatch" /\ run'[r].pc = "tool" /\ \A q \in Runs : q # r => run'[q] = run[q]
  BY ToolStartsLoops DEF Stepped
<1>2. run'[r].kinds = run[r].kinds /\ run'[r].named = run[r].named /\ run'[r].at = k
  <2>1. Shaped(run[r])
    BY DEF LoopInv, Looping
  <2> QED BY <2>1 DEF ToolStarts, Goes, LoopInv, Shaped
<1>3. UNCHANGED <<aborts, recorded, late>>
  BY DEF ToolStarts, LoopKept, ghosts
<1>4. call \in Nat
  <2>1. BatchOf(run[r])
    BY DEF LoopInv, Looping
  <2>2. run[r].named \in Seq(Nat) /\ k \in 1..Len(run[r].named)
    BY <1>1, <2>1 DEF BatchOf
  <2> QED BY <2>2
<1>5. flight \in Flight
  BY DEF FlightInv, Known
<1>6. IF kind = "bad" THEN flight' = flight ELSE FlightAt(r, "execute", paths, kind # "shell")
  BY DEF ToolStarts
<1>7. /\ flight' \in Flight /\ flight'.run = flight.run
      /\ flight.run # r => flight' = flight
      /\ flight.run = r /\ kind # "bad" => flight'.paths = paths
  <2>1. paths \in SUBSET Nat /\ (kind # "shell") \in BOOLEAN /\ "execute" \in Stages
    BY <1>4 DEF Stages
  <2> HIDE DEF paths, kind
  <2> QED BY <1>5, <1>6, <2>1, FlightAtIs
<1>8. Known'
  BY <1>1, <1>3, <1>7 DEF FlightInv, Known, Inside
<1>9. Writing'
  BY <1>1, <1>2, <1>7 DEF FlightInv, Writing
<1>10. Recorded'
  <2>1. \A i \in 1..Len(aborts) : aborts[i].run \in Runs
    <3>1. \A i \in 1..Len(aborts) : aborts[i] \in Abort
      BY DEF FlightInv, Recorded
    <3> QED BY <3>1 DEF Abort
  <2> QED BY <1>1, <1>3, <2>1 DEF FlightInv, Recorded, Inside
<1> QED BY <1>8, <1>9, <1>10 DEF FlightInv

LEMMA ToolReturnsFlight ==
  ASSUME LoopInv, FlightInv, NEW r \in Runs, ToolReturns(r)
  PROVE  FlightInv'
<1>1. run[r].pc = "tool"
  BY DEF ToolReturns, At
<1>2. CASE ContextStop(r)
  BY <1>1, <1>2, ContextStopFlight DEF Inside
<1>3. CASE ~ContextStop(r)
  <2>1. run'[r].pc \in {"dispatch", "append", "return"} /\ \A q \in Runs : q # r => run'[q] = run[q]
    BY ToolReturnsLoops DEF Stepped
  <2>2. UNCHANGED <<aborts, recorded, late, flight>>
    BY <1>3 DEF ToolReturns, LoopKept, BookKept, ghosts
  <2>3. Moved(r)
    BY <1>1, <2>1, <2>2 DEF Moved, Inside, FlightInv, Known
  <2> QED BY <2>3, MovedFlight
<1> QED BY <1>2, <1>3

LEMMA EndFlightFlight ==
  ASSUME LoopInv, FlightInv, NEW r \in Runs, EndFlight(r)
  PROVE  FlightInv'
<1>1. run[r].pc = "return" /\ run'[r].pc = "finish" /\ \A q \in Runs : q # r => run'[q] = run[q]
  BY EndFlightLoops DEF Stepped
<1>2. /\ flight' = IF flight.run = r THEN NoFlight ELSE flight
      /\ recorded' = recorded \ {r} /\ aborts' = aborts /\ late' = late
  BY DEF EndFlight, LoopKept, ghosts
<1>3. flight' \in Flight /\ (flight.run = r => flight'.run = NoRun)
  <2>1. NoFlight \in Flight /\ NoFlight.run = NoRun
    BY DEF NoFlight, Flight, Stages
  <2> QED BY <1>2, <2>1 DEF FlightInv, Known
<1>4. Known'
  BY <1>1, <1>2, <1>3, RunsAreNot DEF FlightInv, Known, Inside
<1>5. Writing'
  BY <1>1, <1>2, <1>3, RunsAreNot DEF FlightInv, Writing
<1>6. Recorded'
  <2>1. \A i \in 1..Len(aborts) : aborts[i].run \in Runs
    <3>1. \A i \in 1..Len(aborts) : aborts[i] \in Abort
      BY DEF FlightInv, Recorded
    <3> QED BY <3>1 DEF Abort
  <2> QED BY <1>1, <1>2, <2>1 DEF FlightInv, Recorded, Inside
<1> QED BY <1>4, <1>5, <1>6 DEF FlightInv

\* A step that leaves the book and the records alone, and moves no run into or out of the loop.
LEMMA OutsideFlight ==
  ASSUME FlightInv, UNCHANGED <<flight, recorded, aborts, late>>,
         \A q \in Runs :
           \/ /\ run'[q].pc = run[q].pc /\ run'[q].kinds = run[q].kinds
              /\ run'[q].named = run[q].named /\ run'[q].at = run[q].at
           \/ run[q].pc \in {"idle", "begin", "finish", "done"} /\ run'[q].pc = "done"
           \/ run[q].pc = "idle" /\ run'[q].pc = "begin"
  PROVE  FlightInv'
<1>1. Known'
  BY DEF FlightInv, Known, Inside
<1>2. Writing'
  BY DEF FlightInv, Writing, Known, Inside
<1>3. Recorded'
  <2>1. \A i \in 1..Len(aborts) : aborts[i].run \in Runs
    <3>1. \A i \in 1..Len(aborts) : aborts[i] \in Abort
      BY DEF FlightInv, Recorded
    <3> QED BY <3>1 DEF Abort
  <2> QED BY <2>1 DEF FlightInv, Recorded, Inside
<1> QED BY <1>1, <1>2, <1>3 DEF FlightInv
\* Runs are started in order.
Unstarted == started \in Nat /\ \A r \in Runs : r > started => run[r].pc = "idle"

LEMMA StartIs ==
  ASSUME LoopInv, Start
  PROVE  /\ started' = started + 1
         /\ \A q \in Runs : IF q = started + 1 THEN run'[q] = [Asleep EXCEPT !.pc = "begin"]
                            ELSE run'[q] = run[q]
         /\ [Asleep EXCEPT !.pc = "begin"].pc = "begin"
<1>1. run' = [run EXCEPT ![started + 1] = [Asleep EXCEPT !.pc = "begin"]] /\ started' = started + 1
  BY DEF Start
<1>2. [Asleep EXCEPT !.pc = "begin"].pc = "begin"
  BY DEF Asleep
<1> QED BY <1>1, <1>2 DEF LoopInv

LEMMA RestartIs ==
  ASSUME LoopInv, Restart, NEW q \in Runs
  PROVE  IF run[q].pc = "idle" THEN run'[q] = run[q] ELSE run'[q].pc = "done"
<1>1. [Asleep EXCEPT !.pc = "done"].pc = "done"
  BY DEF Asleep
<1> QED BY <1>1 DEF Restart, LoopInv

LEMMA FinishIs ==
  ASSUME LoopInv, NEW r \in Runs, Finish(r)
  PROVE  Stepped(r, {"finish"}, {"done"})
<1>1. [Asleep EXCEPT !.pc = "done"].pc = "done"
  BY DEF Asleep
<1>2. run[r].pc = "finish" /\ run' = [run EXCEPT ![r] = [Asleep EXCEPT !.pc = "done"]]
  BY DEF Finish, At, Goes
<1> QED BY <1>1, <1>2 DEF LoopInv, Stepped

\* What Stop and the wall clock leave of a run.
LEMMA CancelIs ==
  ASSUME LoopInv, NEW r \in Runs, Wall(r) \/ Stop(r), NEW q \in Runs
  PROVE  /\ run'[q].pc = run[q].pc /\ run'[q].kinds = run[q].kinds /\ run'[q].at = run[q].at
         /\ run'[q].named = run[q].named /\ run'[q].ok = run[q].ok
<1>1. Shaped(run[r])
  BY DEF LoopInv, Looping
<1>2. CASE Wall(r)
  BY <1>1, <1>2 DEF Wall, LoopInv, Shaped
<1>3. CASE Stop(r)
  BY <1>1, <1>3 DEF Stop, LoopInv, Shaped
<1> QED BY <1>2, <1>3

\* Who moves a run.
Inner(r) ==
  \/ Boundary(r) \/ Assemble(r) \/ Answer(r) \/ AppendNext(r) \/ Observe(r) \/ Compact(r)
  \/ ElideOld(r) \/ Summarize(r) \/ FitElides(r) \/ FitSummarizes(r)
  \/ Fails(r) \/ Text(r) \/ Truncated(r) \/ Calls(r) \/ CycleDecided(r)

LEMMA InnerMoves ==
  ASSUME LoopInv, Known, NEW r \in Runs, Inner(r)
  PROVE  Moved(r)
BY BoundaryMoves, AssembleMoves, AnswerMoves, AppendNextMoves, ObserveMoves, CompactMoves,
   ElideOldMoves, SummarizeMoves, FitElidesMoves, FitSummarizesMoves, FailsMoves, TextMoves,
   TruncatedMoves, CallsMoves, CycleDecidedMoves DEF Inner

\* Every step is one of these.
LEMMA StepIs ==
  ASSUME [Next]_vars
  PROVE  \/ \E r \in Runs : \/ Inner(r) \/ Begin(r) \/ Stops(r) \/ ToolStarts(r) \/ ToolReturns(r)
                            \/ EndFlight(r) \/ Finish(r) \/ Wall(r) \/ Stop(r) \/ StopReturns(r)
                            \/ StopTimeout(r) \/ ForceFinish(r)
         \/ \E a \in Writers : Publish(a) \/ Install(a)
         \/ Start \/ Settle \/ Restart \/ UNCHANGED vars
BY DEF Next, Own, Served, Inner

LEMMA UnstartedKeeps ==
  ASSUME LoopInv, Unstarted, [Next]_vars
  PROVE  Unstarted'
<1>1. CASE UNCHANGED <<run, started>>
  BY <1>1 DEF Unstarted
<1>2. ASSUME NEW r \in Runs, run[r].pc # "idle", \A q \in Runs : q # r => run'[q] = run[q],
             started' = started
      PROVE  Unstarted'
  BY <1>2 DEF Unstarted
<1>3. ASSUME NEW r \in Runs,
             \/ Inner(r) \/ Begin(r) \/ Stops(r) \/ ToolStarts(r) \/ ToolReturns(r) \/ EndFlight(r)
             \/ Finish(r)
      PROVE  Unstarted'
  <2>1. started' = started
    BY <1>3 DEF Inner, Boundary, Assemble, Answer, AppendNext, Observe, Compact, ElideOld, Summarize,
      FitElides, FitSummarizes, Fails, Text, Truncated, Calls, CycleDecided, Begin, Stops,
      ContextStop, ToolStarts, ToolReturns, EndFlight, Finish, LoopKept, SchedKept
  <2>2. run[r].pc # "idle" /\ \A q \in Runs : q # r => run'[q] = run[q]
    <3>1. CASE Inner(r)
      BY <3>1, BoundaryLoops, AssembleLoops, AnswerLoops, AppendNextLoops, ObserveLoops,
         CompactLoops, ElideOldLoops, SummarizeLoops, FitElidesLoops, FitSummarizesLoops,
         FailsLoops, TextLoops, TruncatedLoops, CallsLoops, CycleDecidedLoops DEF Inner, Stepped
    <3>2. CASE Stops(r)
      BY <3>2, StopsLoops DEF Stops, Stepped
    <3>3. CASE ~Inner(r) /\ ~Stops(r)
      BY <1>3, <3>3, BeginLoops, ToolStartsLoops, ToolReturnsLoops, EndFlightLoops, FinishIs
      DEF Stepped
    <3> QED BY <3>1, <3>2, <3>3
  <2> QED BY <1>2, <2>1, <2>2
<1>4. ASSUME NEW r \in Runs, Wall(r) \/ Stop(r) PROVE Unstarted'
  <2>1. started' = started
    BY <1>4 DEF Wall, Stop
  <2> QED BY <1>4, <2>1, CancelIs DEF Unstarted
<1>5. CASE Start
  BY <1>5, StartIs DEF Unstarted, Runs
<1>6. CASE Restart
  <2>1. started' = started
    BY <1>6 DEF Restart
  <2> QED BY <1>6, <2>1, RestartIs DEF Unstarted
<1>7. ASSUME \/ \E r \in Runs : StopReturns(r) \/ StopTimeout(r) \/ ForceFinish(r)
             \/ \E a \in Writers : Publish(a) \/ Install(a)
             \/ Settle \/ UNCHANGED vars
      PROVE  UNCHANGED <<run, started>>
  BY <1>7 DEF StopReturns, StopTimeout, ForceFinish, Publish, Install, Settle, vars
<1> QED BY StepIs, <1>1, <1>3, <1>4, <1>5, <1>6, <1>7

LEMMA FlightKeeps ==
  ASSUME LoopInv, Unstarted, FlightInv, [Next]_vars
  PROVE  FlightInv'
<1>1. ASSUME NEW r \in Runs, Inner(r) PROVE FlightInv'
  BY <1>1, InnerMoves, MovedFlight DEF FlightInv
<1>2. ASSUME NEW r \in Runs, Stops(r) PROVE FlightInv'
  <2>1. run[r].pc \in Inside /\ ContextStop(r)
    BY <1>2 DEF Stops, Inside
  <2> QED BY <2>1, ContextStopFlight
<1>3. ASSUME NEW r \in Runs, Finish(r) PROVE FlightInv'
  <2>1. UNCHANGED <<flight, recorded, aborts, late>>
    BY <1>3 DEF Finish, SchedKept, ghosts
  <2> QED BY <1>3, <2>1, FinishIs, OutsideFlight DEF Stepped
<1>4. ASSUME NEW r \in Runs, Wall(r) \/ Stop(r) PROVE FlightInv'
  <2>1. UNCHANGED <<flight, recorded, aborts, late>>
    BY <1>4 DEF Wall, Stop, SchedKept, ghosts
  <2> QED BY <1>4, <2>1, CancelIs, OutsideFlight
<1>5. CASE Start
  <2>1. UNCHANGED <<flight, recorded, aborts, late>>
    BY <1>5 DEF Start, BookKept, ghosts
  <2>2. \A q \in Runs : q = started + 1 => run[q].pc = "idle"
    BY DEF Unstarted
  <2> QED BY <1>5, <2>1, <2>2, StartIs, OutsideFlight
<1>6. CASE Restart
  <2>1. flight' = NoFlight /\ recorded' = {} /\ UNCHANGED <<aborts, late>>
    BY <1>6 DEF Restart
  <2>2. NoFlight \in Flight /\ NoFlight.run = NoRun
    BY DEF NoFlight, Flight, Stages
  <2>3. \A q \in Runs : run'[q].pc \in {"idle", "done"} /\ (run[q].pc # "idle" => run'[q].pc = "done")
    BY <1>6, RestartIs
  <2>4. Known' /\ Writing'
    BY <2>1, <2>2, <2>3, RunsAreNot DEF Known, Writing, Inside
  <2>5. Recorded'
    <3>1. \A i \in 1..Len(aborts) : aborts[i].run \in Runs
      <4>1. \A i \in 1..Len(aborts) : aborts[i] \in Abort
        BY DEF FlightInv, Recorded
      <4> QED BY <4>1 DEF Abort
    <3> QED BY <2>1, <2>3, <3>1 DEF FlightInv, Recorded, Inside
  <2> QED BY <2>4, <2>5 DEF FlightInv
<1>7. ASSUME \/ \E r \in Runs : StopReturns(r) \/ ForceFinish(r)
             \/ \E a \in Writers : Publish(a) \/ Install(a)
             \/ Settle \/ UNCHANGED vars
      PROVE  FlightInv'
  <2>1. UNCHANGED <<run, flight, recorded, aborts, late>>
    BY <1>7 DEF StopReturns, ForceFinish, Publish, Install, Settle, SchedKept, ghosts, vars
  <2> QED BY <2>1, OutsideFlight
<1> QED BY StepIs, <1>1, <1>2, <1>3, <1>4, <1>5, <1>6, <1>7, BeginFlight, ToolStartsFlight,
           ToolReturnsFlight, EndFlightFlight, StopTimeoutFlight

\* The flight book and the abort records agree with the place of every run: a run in the loop
\* that is not late has the flight or its record, and the file of the call in flight is the one
\* the book names (abort.go).
THEOREM FlightAlways == Spec => [](Unstarted /\ FlightInv)
<1>1. ASSUME Init PROVE Unstarted /\ FlightInv
  <2>1. \A r \in Runs : run[r].pc = "idle"
    BY <1>1 DEF Init, Asleep
  <2>2. flight = NoFlight /\ NoFlight \in Flight /\ NoFlight.run = NoRun
    BY <1>1 DEF Init, NoFlight, Flight, Stages
  <2>3. aborts = <<>> /\ started = 0
    BY <1>1 DEF Init
  <2>4. Known /\ Writing
    BY <2>1, <2>2, RunsAreNot DEF Known, Writing, Inside
  <2>5. Recorded
    BY <2>3 DEF Recorded
  <2> QED BY <2>1, <2>3, <2>4, <2>5 DEF FlightInv, Unstarted
<1>2. LoopInv /\ Unstarted /\ FlightInv /\ [Next]_vars => (Unstarted /\ FlightInv)'
  BY UnstartedKeeps, FlightKeeps
<1> QED BY <1>1, <1>2, LoopAlways, PTL DEF Spec

LEMMA AtMostOne ==
  ASSUME NEW S, \A i, j \in S : i = j
  PROVE  Cardinality(S) <= 1
<1>1. CASE S = {}
  <2>1. Cardinality(S) = 0
    BY <1>1, FS_EmptySet
  <2> QED BY <2>1
<1>2. CASE S # {}
  <2>1. PICK i \in S : S = {i}
    BY <1>2
  <2>2. Cardinality({i}) = 1
    BY FS_Singleton
  <2>3. Cardinality(S) = 1
    BY <2>1, <2>2
  <2> QED BY <2>3
<1> QED BY <1>1, <1>2

\* AbortOnce: one record for a run, written by its goroutine or by Stop, that names the file the
\* call in flight may have written (abort.go).
THEOREM AbortOnceAlways == Spec => []AbortOnce
<1>1. ASSUME FlightInv PROVE AbortOnce
  <2>1. ASSUME NEW r \in Runs \ late
        PROVE  Cardinality({i \in 1..Len(aborts) : aborts[i].run = r}) <= 1
    <3> DEFINE S == {i \in 1..Len(aborts) : aborts[i].run = r}
    <3>1. \A i, j \in S : i = j
      BY <1>1, <2>1 DEF FlightInv, Recorded
    <3> QED BY <3>1, AtMostOne
  <2>2. ASSUME NEW i \in 1..Len(aborts), aborts[i].run \notin late
        PROVE  aborts[i].writing \subseteq aborts[i].paths
    BY <1>1, <2>2 DEF FlightInv, Recorded
  <2> QED BY <2>1, <2>2 DEF AbortOnce
<1> QED BY <1>1, FlightAlways, PTL

----------------------------------------------------------------------------
(* Numbers, and what KeepIn returns.                                       *)

LEMMA LeastOf ==
  ASSUME NEW T, T \subseteq Nat, T # {}
  PROVE  \E t \in T : \A u \in T : ~(u < t)
<1> DEFINE R == OpToRel(<, Nat)
<1> HIDE DEF R
<1>1. IsWellFoundedOn(R, Nat)
  BY NatLessThanWellFounded, Zenon DEF R
<1>2. PICK t \in T : \A u \in T : ~(<<u, t>> \in R)
  BY <1>1, WFMin
<1>3. \A u \in T : u < t => <<u, t>> \in R
  BY DEF R, OpToRel
<1> QED BY <1>2, <1>3

\* A set of numbers with a bound has a greatest element.
LEMMA GreatestOf ==
  ASSUME NEW S, S \subseteq Nat, S # {}, NEW n \in Nat, \A x \in S : x <= n
  PROVE  Max(S) \in S /\ \A y \in S : Max(S) >= y
<1> DEFINE T == {n - x : x \in S}
<1>0. \A x \in S : x \in Nat /\ x <= n /\ n - x \in Nat
  OBVIOUS
<1>1. T \subseteq Nat /\ T # {}
  BY <1>0
<1>2. PICK t \in T : \A u \in T : ~(u < t)
  <2> HIDE DEF T
  <2> QED BY <1>1, LeastOf
<1>3. PICK x \in S : t = n - x
  BY <1>2
<1>4. \A y \in S : x >= y
  <2>1. TAKE y \in S
  <2>2. n - y \in T
    OBVIOUS
  <2>3. ~(n - y < n - x)
    BY <1>2, <1>3, <2>2
  <2> QED BY <1>0, <2>3
<1> QED BY <1>3, <1>4 DEF Max

\* The steps of KeepIn.
KeepStep(s, S, f, n) == IF n = 0 THEN <<>> ELSE IF s[n] \in S THEN Append(f[n-1], s[n]) ELSE f[n-1]
KeepF(s, S) == CHOOSE f : f = [n \in 0..Len(s) |-> KeepStep(s, S, f, n)]

LEMMA KeepChosen == ASSUME NEW s, NEW S PROVE KeepIn(s, S) = KeepF(s, S)[Len(s)]
BY DEF KeepIn, KeepF, KeepStep

LEMMA KeepUnfolds ==
  ASSUME NEW s, NEW S, Len(s) \in Nat
  PROVE  \A n \in 0..Len(s) : KeepF(s, S)[n] = KeepStep(s, S, KeepF(s, S), n)
<1> DEFINE Unfolds(h, n) == h = [g \in 0..n |-> KeepStep(s, S, h, g)]
           T == {n \in 0..Len(s) : ~ \E h : Unfolds(h, n)}
<1>1. SUFFICES T = {}
  <2>1. \E h : Unfolds(h, Len(s))
    OBVIOUS
  <2>2. Unfolds(KeepF(s, S), Len(s))
    BY <2>1, Zenon DEF KeepF
  <2>3. PICK h : h = KeepF(s, S)
    OBVIOUS
  <2>4. h = [g \in 0..Len(s) |-> KeepStep(s, S, h, g)]
    BY <2>2, <2>3
  <2> QED BY <2>3, <2>4
<1>2. SUFFICES ASSUME T # {} PROVE FALSE
  OBVIOUS
<1>3. PICK n \in T : \A u \in T : ~(u < n)
  <2>1. T \subseteq Nat
    OBVIOUS
  <2> HIDE DEF T
  <2> QED BY <1>2, <2>1, LeastOf
<1>4. n # 0
  <2>1. SUFFICES ASSUME n = 0 PROVE FALSE
    OBVIOUS
  <2>2. PICK h : h = [g \in 0..0 |-> <<>>]
    OBVIOUS
  <2>3. Unfolds(h, 0)
    BY <2>2 DEF KeepStep
  <2> QED BY <1>3, <2>1, <2>3
<1>5. n - 1 \in 0..Len(s) /\ n - 1 < n /\ n \in 0..Len(s)
  BY <1>3, <1>4
<1>6. PICK h : Unfolds(h, n - 1)
  BY <1>3, <1>5
<1>7. PICK e : e = [g \in 0..n |-> IF g < n THEN h[g] ELSE KeepStep(s, S, h, n)]
  OBVIOUS
<1>8. \A g \in 0..n : KeepStep(s, S, e, g) = KeepStep(s, S, h, g)
  BY <1>5, <1>7 DEF KeepStep
<1>9. \A g \in 0..n : e[g] = KeepStep(s, S, h, g)
  <2>1. \A g \in 0..n-1 : h[g] = KeepStep(s, S, h, g)
    BY <1>6
  <2> QED BY <1>5, <1>7, <2>1
<1>10. Unfolds(e, n)
  BY <1>7, <1>8, <1>9
<1> QED BY <1>3, <1>10

\* h says where the elements of k are among the first n of s.
Places(k, s, S, n, h) ==
  /\ h \in [1..Len(k) -> 1..n]
  /\ \A i, j \in 1..Len(k) : i < j => h[i] < h[j]
  /\ \A j \in 1..Len(k) : k[j] = s[h[j]]
  /\ \A i \in 1..n : s[i] \in S <=> \E j \in 1..Len(k) : h[j] = i

LEMMA KeepPlaces ==
  ASSUME NEW X, NEW s \in Seq(X), NEW S
  PROVE  KeepIn(s, S) \in Seq(X) /\ \E h : Places(KeepIn(s, S), s, S, Len(s), h)
<1> DEFINE f == KeepF(s, S)
           Good(n) == f[n] \in Seq(X) /\ \E h : Places(f[n], s, S, n, h)
           T == {n \in 0..Len(s) : ~Good(n)}
<1>0. Len(s) \in Nat
  OBVIOUS
<1>1. \A n \in 0..Len(s) : f[n] = KeepStep(s, S, f, n)
  BY <1>0, KeepUnfolds
<1> HIDE DEF f
<1>2. SUFFICES T = {}
  <2>1. Good(Len(s))
    BY <1>0, <1>2
  <2> QED BY <2>1, KeepChosen DEF f
<1>3. SUFFICES ASSUME T # {} PROVE FALSE
  OBVIOUS
<1>4. PICK n \in T : \A u \in T : ~(u < n)
  <2>1. T \subseteq Nat
    OBVIOUS
  <2> HIDE DEF T
  <2> QED BY <1>3, <2>1, LeastOf
<1>5. n # 0
  <2>1. SUFFICES ASSUME n = 0 PROVE FALSE
    OBVIOUS
  <2>2. f[0] = <<>>
    BY <1>0, <1>1 DEF KeepStep
  <2>3. PICK h : h = [j \in 1..0 |-> 0]
    OBVIOUS
  <2>4. Places(f[0], s, S, 0, h)
    BY <2>2, <2>3 DEF Places
  <2>5. f[0] \in Seq(X)
    BY <2>2
  <2> QED BY <1>4, <2>1, <2>4, <2>5
<1>6. n - 1 \in 0..Len(s) /\ n - 1 < n /\ n \in 1..Len(s) /\ n \in Nat
  BY <1>0, <1>4, <1>5
<1>7. Good(n - 1)
  BY <1>4, <1>6
<1>8. PICK k, h : k = f[n - 1] /\ k \in Seq(X) /\ Places(k, s, S, n - 1, h)
  BY <1>7
<1>11. f[n] = KeepStep(s, S, f, n)
  BY <1>1, <1>6
<1>9. CASE s[n] \in S
  <2>1. f[n] = Append(k, s[n])
    BY <1>6, <1>8, <1>9, <1>11 DEF KeepStep
  <2>2. s[n] \in X
    BY <1>6
  <2>3. Len(k) \in Nat
    BY <1>8
  <2>4. PICK e : e = [j \in 1..Len(k) + 1 |-> IF j <= Len(k) THEN h[j] ELSE n]
    OBVIOUS
  <2>5. f[n] \in Seq(X) /\ Len(f[n]) = Len(k) + 1 /\ f[n][Len(k) + 1] = s[n]
        /\ \A j \in 1..Len(k) : f[n][j] = k[j]
    BY <1>8, <2>1, <2>2
  <2>6. \A j \in 1..Len(k) : h[j] \in 1..n - 1
    BY <1>8 DEF Places
  <2>7. e \in [1..Len(f[n]) -> 1..n]
    BY <1>6, <2>3, <2>4, <2>5, <2>6
  <2>8. \A i, j \in 1..Len(f[n]) : i < j => e[i] < e[j]
    BY <1>6, <1>8, <2>3, <2>4, <2>5, <2>6 DEF Places
  <2>9. \A j \in 1..Len(f[n]) : f[n][j] = s[e[j]]
    <3>1. ASSUME NEW j \in 1..Len(f[n]) PROVE f[n][j] = s[e[j]]
      <4>1. CASE j = Len(k) + 1
        BY <1>6, <2>3, <2>4, <2>5, <4>1
      <4>2. CASE j \in 1..Len(k)
        <5>1. k[j] = s[h[j]]
          BY <1>8, <4>2 DEF Places
        <5> QED BY <2>3, <2>4, <2>5, <4>2, <5>1
      <4> QED BY <2>3, <2>5, <4>1, <4>2
    <3> QED BY <3>1
  <2>10. \A i \in 1..n : s[i] \in S <=> \E j \in 1..Len(f[n]) : e[j] = i
    <3>1. ASSUME NEW i \in 1..n PROVE s[i] \in S <=> \E j \in 1..Len(f[n]) : e[j] = i
      <4>1. CASE i = n
        BY <1>9, <2>3, <2>4, <2>5, <4>1
      <4>2. CASE i # n
        <5>1. i \in 1..n - 1
          BY <1>6, <4>2
        <5>2. s[i] \in S <=> \E j \in 1..Len(k) : h[j] = i
          BY <1>8, <5>1 DEF Places
        <5>3. \A j \in 1..Len(k) : e[j] = h[j] /\ j \in 1..Len(f[n])
          BY <2>3, <2>4, <2>5
        <5>4. \A j \in 1..Len(f[n]) : j \in 1..Len(k) \/ e[j] = n
          BY <2>3, <2>4, <2>5
        <5> QED BY <4>2, <5>2, <5>3, <5>4
      <4> QED BY <4>1, <4>2
    <3> QED BY <3>1
  <2>11. Places(f[n], s, S, n, e)
    BY <2>7, <2>8, <2>9, <2>10 DEF Places
  <2> QED BY <1>4, <2>5, <2>11
<1>10. CASE s[n] \notin S
  <2>1. f[n] = k
    BY <1>6, <1>8, <1>10, <1>11 DEF KeepStep
  <2>2. Places(k, s, S, n, h)
    <3>1. h \in [1..Len(k) -> 1..n]
      BY <1>6, <1>8 DEF Places
    <3>2. \A i \in 1..n : s[i] \in S <=> \E j \in 1..Len(k) : h[j] = i
      <4>1. ASSUME NEW i \in 1..n PROVE i = n \/ i \in 1..n - 1
        BY <1>6
      <4>2. \A j \in 1..Len(k) : h[j] # n
        BY <1>6, <1>8, SMTT(20) DEF Places
      <4> QED BY <1>8, <1>10, <4>1, <4>2 DEF Places
    <3> QED BY <1>8, <3>1, <3>2 DEF Places
  <2> QED BY <1>4, <1>8, <2>1, <2>2
<1> QED BY <1>9, <1>10

----------------------------------------------------------------------------
(* What the projector does to a snapshot.                                  *)

Statuses == {"idle", "running", "stopping", "held"}
Msg == [id : Nat, role : {"user", "assistant", "system", "tool"}, cat : {"history", "summary"},
        turn : Int, calls : SUBSET Nat, of : Nat, kind : STRING \cup {""}, ok : BOOLEAN,
        bad : BOOLEAN, empty : BOOLEAN, size : Nat, elided : BOOLEAN, src : SUBSET Nat]
Keys == ({"turn"} \X Nat \X Int) \cup ({"tool", "message", "event"} \X Nat)
Abouts == {"", "model_unreachable", "stopping", "stopped", "aborted", "retry", "compaction"} \X {0}
ChatEntry == [type : {"agent", "tool", "notice", "summary", "user"}, key : Keys, run : Nat,
              turn : Int, done : BOOLEAN, calls : SUBSET Nat, about : Abouts,
              decision : {"", "resolved"}]
Snapshot == [messages : Seq(Msg), chat : Seq(ChatEntry), status : Statuses, run : Nat, last : Nat,
             label : {""}, pending : {<<>>}, stream : SUBSET (Nat \X Int), queued : {0},
             closed : {FALSE}, asYou : {FALSE}, host : {"", "host"}, seq : Nat]

RequestEvent == [t : {"request"}, run : Nat, turn : Int]
DeltaEvent == [t : {"delta"}, run : Nat, turn : Int]
ResponseEvent == [t : {"response"}, run : Nat, turn : Int, calls : SUBSET Nat]
CallEvent == [t : {"call"}, run : Nat, call : Nat]
AppendedEvent == [t : {"appended"}, run : Nat, message : Msg]
UpdatedEvent == [t : {"updated"}, run : Nat, id : Nat, patch : {"elided", "tool_calls"}]
RemovedEvent == [t : {"removed"}, run : Nat, id : Nat]
CompactionEvent == [t : {"compaction"}, run : Nat, kind : {"elide", "summarize", "settled"},
                    ids : SUBSET Nat]
UnreachEvent == [t : {"unreach"}, run : Nat, host : {"host"}]
PlainEvent == [t : {"started", "stopping", "aborted", "retry"}, run : Nat]
CreatedEvent == [t : {"created"}, run : Nat, messages : Seq(Msg)]
Event == RequestEvent \cup DeltaEvent \cup ResponseEvent \cup CallEvent
         \cup AppendedEvent \cup UpdatedEvent \cup RemovedEvent \cup CompactionEvent
         \cup UnreachEvent \cup PlainEvent \cup CreatedEvent

\* The end of a run is told with any reason.
Stopped(e) == e.t = "stopped" /\ e.run \in Nat /\ e.held \in BOOLEAN

\* A property of chat entries that an entry which is no open answer has, and that depends on
\* the calls of none.
Closed(X) ==
  /\ X \subseteq ChatEntry
  /\ \A x \in ChatEntry : x.type # "agent" \/ x.done => x \in X
  /\ \A x \in X : \A c \in SUBSET Nat : [x EXCEPT !.calls = c] \in X
\* The chat keeps it through an event, unless the event opens an answer.
Chats(p, X) == p \in Snapshot /\ Closed(X) /\ p.chat \in Seq(X)
After(p, q, X) == q \in Snapshot /\ q.chat \in Seq(X)

LEMMA ChatTurnIs ==
  ASSUME NEW c \in Seq(ChatEntry), NEW r, NEW t
  PROVE  /\ ChatTurn(c, r, t) \in 0..Len(c)
         /\ ChatTurnAny(c, t) \in 0..Len(c)
<1>1. ASSUME NEW S \in SUBSET (1..Len(c)) PROVE Max({0} \cup S) \in 0..Len(c)
  <2> DEFINE T == {0} \cup S
  <2>1. T \subseteq Nat /\ T # {} /\ Len(c) \in Nat /\ \A x \in T : x <= Len(c) /\ x \in 0..Len(c)
    BY <1>1
  <2> HIDE DEF T
  <2>2. Max(T) \in T
    BY <2>1, GreatestOf
  <2> QED BY <2>1, <2>2 DEF T
<1> QED BY <1>1 DEF ChatTurn, ChatTurnAny, LastEntry

LEMMA EntryIs ==
  ASSUME NEW type \in {"agent", "tool", "notice", "summary", "user"}, NEW key \in Keys,
         NEW r \in Nat, NEW turn \in Int
  PROVE  Entry(type, key, r, turn) \in ChatEntry /\ Entry(type, key, r, turn).type = type
         /\ Entry(type, key, r, turn).run = r
BY DEF Entry, ChatEntry, Abouts

LEMMA InsertIs ==
  ASSUME NEW s, NEW i, NEW e
  PROVE  InsertAt(s, i, e) = SubSeq(s, 1, i - 1) \o <<e>> \o SubSeq(s, i, Len(s))
BY DEF InsertAt

LEMMA PlacedIs ==
  ASSUME NEW ms \in Seq(Msg), NEW m \in Msg
  PROVE  Placed(ms, m) \in Seq(Msg)
<1>1. CASE m.cat # "summary"
  BY <1>1 DEF Placed
<1>2. CASE m.cat = "summary"
  <2> DEFINE n == Min({1, Len(ms)})
  <2>1. n \in 0..Len(ms)
    <3>1. Len(ms) \in Nat
      OBVIOUS
    <3>2. n = IF Len(ms) = 0 THEN 0 ELSE 1
      BY <3>1 DEF Min
    <3> QED BY <3>1, <3>2
  <2> HIDE DEF n
  <2>2. PICK k : k = n + 1
    OBVIOUS
  <2>3. SubSeq(ms, 1, k - 1) \in Seq(Msg) /\ SubSeq(ms, k, Len(ms)) \in Seq(Msg) /\ <<m>> \in Seq(Msg)
    BY <2>1, <2>2
  <2>4. Placed(ms, m) = InsertAt(ms, k, m)
    BY <1>2, <2>2 DEF Placed, n
  <2>5. InsertAt(ms, k, m) = SubSeq(ms, 1, k - 1) \o <<m>> \o SubSeq(ms, k, Len(ms))
    BY InsertIs
  <2> QED BY <2>3, <2>4, <2>5
<1> QED BY <1>1, <1>2

LEMMA ChatsIs ==
  ASSUME NEW p, NEW X, Chats(p, X)
  PROVE  /\ p \in Snapshot /\ p.chat \in Seq(X) /\ p.chat \in Seq(ChatEntry) /\ p.messages \in Seq(Msg)
         /\ X \subseteq ChatEntry
         /\ \A c \in Seq(X) : c \in Seq(ChatEntry)
         /\ \A x \in ChatEntry : x.type # "agent" \/ x.done => x \in X
         /\ \A x \in X : \A c \in SUBSET Nat : [x EXCEPT !.calls = c] \in X
<1>1. p \in Snapshot /\ p.chat \in Seq(X) /\ X \subseteq ChatEntry
  BY DEF Chats, Closed
<1>2. p.chat \in Seq(ChatEntry) /\ p.messages \in Seq(Msg)
  BY <1>1 DEF Snapshot
<1>3. \A c \in Seq(X) : c \in Seq(ChatEntry)
  BY <1>1
<1> QED BY <1>1, <1>2, <1>3 DEF Chats, Closed

LEMMA RequestFolds ==
  ASSUME NEW p, NEW X, Chats(p, X), NEW e \in RequestEvent,
         Entry("agent", <<"turn", e.run, e.turn>>, e.run, e.turn) \in X
  PROVE  After(p, Folded(p, e), X) /\ Folded(p, e).stream = p.stream
<1>0. p \in Snapshot
  BY DEF Chats
<1>1. Folded(p, e) = ProjectRequest(p, e)
  BY DEF Folded, RequestEvent
<1>2. PICK x : x = Entry("agent", <<"turn", e.run, e.turn>>, e.run, e.turn) /\ x \in X
  OBVIOUS
<1>3. PICK c : c = Append(p.chat, x) /\ c \in Seq(X) /\ c \in Seq(ChatEntry)
  <2>1. Append(p.chat, x) \in Seq(X)
    BY <1>2, ChatsIs
  <2>2. Append(p.chat, x) \in Seq(ChatEntry)
    BY <2>1, ChatsIs
  <2> QED BY <2>1, <2>2
<1>4. ProjectRequest(p, e) = [p EXCEPT !.chat = c]
  BY <1>0, <1>2, <1>3 DEF ProjectRequest, Snapshot
<1>20. [p EXCEPT !.chat = c] \in Snapshot /\ [p EXCEPT !.chat = c].chat = c
       /\ [p EXCEPT !.chat = c].stream = p.stream
  BY <1>0, <1>3, ChatsIs DEF Snapshot
<1> QED BY <1>1, <1>3, <1>4, <1>20, ChatsIs DEF After

LEMMA DeltaFolds ==
  ASSUME NEW p, NEW X, Chats(p, X), NEW e \in DeltaEvent
  PROVE  After(p, Folded(p, e), X) /\ Folded(p, e).stream = p.stream \cup {<<e.run, e.turn>>}
<1>0. p \in Snapshot
  BY DEF Chats
<1>1. Folded(p, e) = ProjectDelta(p, e)
  BY DEF Folded, DeltaEvent
<1>2. p.stream \cup {<<e.run, e.turn>>} \in SUBSET (Nat \X Int)
  <2>1. <<e.run, e.turn>> \in Nat \X Int /\ p.stream \in SUBSET (Nat \X Int)
    BY <1>0 DEF Snapshot, DeltaEvent
  <2> QED BY <2>1
<1>3. ProjectDelta(p, e) = [p EXCEPT !.stream = p.stream \cup {<<e.run, e.turn>>}]
  BY <1>0 DEF ProjectDelta, Snapshot
<1>20. [p EXCEPT !.stream = p.stream \cup {<<e.run, e.turn>>}] \in Snapshot /\ [p EXCEPT !.stream = p.stream \cup {<<e.run, e.turn>>}].chat = p.chat
       /\ [p EXCEPT !.stream = p.stream \cup {<<e.run, e.turn>>}].stream = p.stream \cup {<<e.run, e.turn>>}
  BY <1>0, <1>2 DEF Snapshot
<1> QED BY <1>1, <1>3, <1>20, ChatsIs DEF After

LEMMA ResponseFolds ==
  ASSUME NEW p, NEW X, Chats(p, X), NEW e \in ResponseEvent
  PROVE  After(p, Folded(p, e), X) /\ Folded(p, e).stream \subseteq p.stream
<1> DEFINE i == ChatTurn(p.chat, e.run, e.turn)
           made == Entry("agent", <<"turn", e.run, e.turn>>, e.run, e.turn)
           old == IF i = 0 THEN made ELSE p.chat[i]
           done == [old EXCEPT !.done = TRUE, !.calls = old.calls \cup e.calls]
           st == p.stream \ {<<e.run, e.turn>>}
           c == IF i = 0 THEN Append(p.chat, done) ELSE [p.chat EXCEPT ![i] = done]
<1>0. p \in Snapshot
  BY DEF Chats
<1>1. Folded(p, e) = ProjectResponse(p, e)
  BY DEF Folded, ResponseEvent
<1>2. i \in 0..Len(p.chat)
  BY ChatsIs, ChatTurnIs
<1>3. e.run \in Nat /\ e.turn \in Int /\ e.calls \in SUBSET Nat
  BY DEF ResponseEvent
<1>4. made \in ChatEntry
  BY <1>3, EntryIs DEF Keys
<1> HIDE DEF i, made
<1>5. old \in ChatEntry
  BY <1>2, <1>4, ChatsIs
<1> HIDE DEF old
<1>6. done \in ChatEntry /\ done.done = TRUE
  BY <1>3, <1>5 DEF ChatEntry
<1>7. done \in X
  BY <1>6, ChatsIs
<1>9. ProjectResponse(p, e) = [p EXCEPT !.chat = c, !.stream = st]
  BY <1>0, <1>5 DEF ProjectResponse, Snapshot, i, made, old, ChatEntry
<1> HIDE DEF done
<1>8. c \in Seq(X)
  BY <1>2, <1>7, ChatsIs
<1> HIDE DEF c
<1>10. st \in SUBSET (Nat \X Int)
  BY <1>0 DEF Snapshot
<1>20. [p EXCEPT !.chat = c, !.stream = st] \in Snapshot /\ [p EXCEPT !.chat = c, !.stream = st].chat = c
       /\ [p EXCEPT !.chat = c, !.stream = st].stream = st
  BY <1>0, <1>8, <1>10, ChatsIs DEF Snapshot
<1>21. st \subseteq p.stream
  OBVIOUS
<1> QED BY <1>21, <1>1, <1>8, <1>9, <1>20, ChatsIs DEF After

LEMMA CallFolds ==
  ASSUME NEW p, NEW X, Chats(p, X), NEW e \in CallEvent
  PROVE  After(p, Folded(p, e), X) /\ Folded(p, e).stream = p.stream
<1>0. p \in Snapshot
  BY DEF Chats
<1>1. Folded(p, e) = ProjectCall(p, e)
  BY DEF Folded, CallEvent
<1>2. PICK n : n = Entry("tool", <<"tool", e.call>>, NoRun, 0)
  OBVIOUS
<1>3. n \in ChatEntry /\ n.type = "tool" /\ e.call \in Nat
  BY <1>2, EntryIs DEF Keys, CallEvent, NoRun
<1>4. PICK x : x = [n EXCEPT !.calls = {e.call}]
  OBVIOUS
<1>5. x \in ChatEntry /\ x.type = "tool"
  BY <1>3, <1>4 DEF ChatEntry
<1>6. x \in X
  BY <1>5, ChatsIs
<1>7. PICK c : c = Append(p.chat, x) /\ c \in Seq(X) /\ c \in Seq(ChatEntry)
  <2>1. Append(p.chat, x) \in Seq(X)
    BY <1>6, ChatsIs
  <2>2. Append(p.chat, x) \in Seq(ChatEntry)
    BY <2>1, ChatsIs
  <2> QED BY <2>1, <2>2
<1>8. ProjectCall(p, e) = [p EXCEPT !.chat = c]
  BY <1>0, <1>2, <1>4, <1>7 DEF ProjectCall, Snapshot
<1>20. [p EXCEPT !.chat = c] \in Snapshot /\ [p EXCEPT !.chat = c].chat = c
       /\ [p EXCEPT !.chat = c].stream = p.stream
  BY <1>0, <1>7, ChatsIs DEF Snapshot
<1> QED BY <1>1, <1>7, <1>8, <1>20, ChatsIs DEF After

LEMMA StoppedFolds ==
  ASSUME NEW p, NEW X, Chats(p, X), NEW e, Stopped(e)
  PROVE  /\ After(p, Folded(p, e), X)
         /\ \A i \in 1..Len(Folded(p, e).chat) :
              Folded(p, e).chat[i].type = "agent" /\ Folded(p, e).chat[i].run = e.run
                => Folded(p, e).chat[i].done
         /\ Folded(p, e).stream = {s \in p.stream : s[1] # e.run}
<1>0. p \in Snapshot
  BY DEF Chats
<1>1. Folded(p, e) = ProjectStopped(p, e)
  BY DEF Folded, Stopped
<1> DEFINE c == [i \in 1..Len(p.chat) |->
                   IF p.chat[i].type = "agent" /\ p.chat[i].run = e.run
                   THEN [p.chat[i] EXCEPT !.done = TRUE] ELSE p.chat[i]]
           st == {s \in p.stream : s[1] # e.run}
           held == IF e.held THEN "held" ELSE "idle"
           q == [p EXCEPT !.status = held, !.run = NoRun, !.last = e.run, !.label = "",
                          !.pending = <<>>, !.stream = st, !.chat = c]
<1>2. p.chat \in Seq(X) /\ Len(p.chat) \in Nat /\ \A i \in 1..Len(p.chat) : p.chat[i] \in X /\ p.chat[i] \in ChatEntry
  BY ChatsIs
<1>3. \A x \in ChatEntry : [x EXCEPT !.done = TRUE] \in ChatEntry /\ [x EXCEPT !.done = TRUE].done = TRUE
                           /\ [x EXCEPT !.done = TRUE].type = x.type
  BY DEF ChatEntry
<1>4. \A x \in ChatEntry : [x EXCEPT !.done = TRUE] \in X
  BY <1>3, ChatsIs
<1>5. \A i \in 1..Len(p.chat) : c[i] \in X /\ (c[i].type = "agent" /\ c[i].run = e.run => c[i].done)
  <2>1. ASSUME NEW i \in 1..Len(p.chat) PROVE c[i] \in X /\ (c[i].type = "agent" /\ c[i].run = e.run => c[i].done)
    <3>1. CASE p.chat[i].type = "agent" /\ p.chat[i].run = e.run
      BY <1>2, <1>3, <1>4, <3>1
    <3>2. CASE ~(p.chat[i].type = "agent" /\ p.chat[i].run = e.run)
      BY <1>2, <3>2
    <3> QED BY <3>1, <3>2
  <2> QED BY <2>1
<1>6. c \in Seq(X) /\ Len(c) = Len(p.chat)
  <2>1. c \in [1..Len(p.chat) -> X]
    <3>1. c = [i \in 1..Len(p.chat) |-> c[i]]
      OBVIOUS
    <3> HIDE DEF c
    <3> QED BY <1>5, <3>1
  <2> HIDE DEF c
  <2> QED BY <1>2, <2>1
<1>7. ProjectStopped(p, e) = q
  BY <1>0 DEF ProjectStopped, Snapshot
<1>8. c \in Seq(ChatEntry)
  BY <1>6, ChatsIs
<1>9. st \in SUBSET (Nat \X Int) /\ held \in Statuses /\ e.run \in Nat
  BY <1>0 DEF Snapshot, Statuses, Stopped
<1> HIDE DEF c, st, held
<1>10. q \in Snapshot /\ q.chat = c /\ q.stream = st
  BY <1>0, <1>8, <1>9 DEF Snapshot, NoRun
<1> HIDE DEF q
<1>11. q.stream = {s \in p.stream : s[1] # e.run}
  BY <1>10 DEF st
<1> QED BY <1>1, <1>5, <1>6, <1>7, <1>10, <1>11 DEF After

LEMMA PlainFolds ==
  ASSUME NEW p, NEW X, Chats(p, X), NEW e \in PlainEvent \cup UnreachEvent
  PROVE  After(p, Folded(p, e), X) /\ Folded(p, e).stream = p.stream
<1>0. p \in Snapshot
  BY DEF Chats
<1>1. CASE e.t = "started"
  <2>1. Folded(p, e) = ProjectStarted(p, e) /\ e.run \in Nat
    BY <1>1 DEF Folded, PlainEvent, UnreachEvent
  <2>2. ProjectStarted(p, e) = [p EXCEPT !.status = "running", !.run = e.run, !.last = NoRun, !.label = "",
                                         !.queued = 0]
    BY <1>0 DEF ProjectStarted, Snapshot
  <2>3. PICK r, q : r = e.run /\ r \in Nat
                    /\ q = [p EXCEPT !.status = "running", !.run = r, !.last = NoRun, !.label = "",
                                     !.queued = 0]
    BY <2>1
  <2>4. q \in Snapshot /\ q.chat = p.chat /\ q.stream = p.stream
    BY <1>0, <2>3 DEF Snapshot, Statuses, NoRun
  <2> QED BY <2>1, <2>2, <2>3, <2>4, ChatsIs DEF After
<1>2. CASE e.t = "stopping"
  <2>1. Folded(p, e) = [p EXCEPT !.status = "stopping"]
    BY <1>2 DEF Folded
  <2>2. [p EXCEPT !.status = "stopping"] \in Snapshot /\ [p EXCEPT !.status = "stopping"].chat = p.chat
        /\ [p EXCEPT !.status = "stopping"].stream = p.stream
    BY <1>0 DEF Snapshot, Statuses
  <2> QED BY <2>1, <2>2, ChatsIs DEF After
<1>3. CASE e.t = "unreach"
  <2>1. Folded(p, e) = [p EXCEPT !.host = "host"]
    BY <1>3 DEF Folded, PlainEvent, UnreachEvent
  <2>2. [p EXCEPT !.host = "host"] \in Snapshot /\ [p EXCEPT !.host = "host"].chat = p.chat
        /\ [p EXCEPT !.host = "host"].stream = p.stream
    BY <1>0 DEF Snapshot
  <2> QED BY <2>1, <2>2, ChatsIs DEF After
<1>4. CASE e.t \in {"aborted", "retry"}
  <2>1. Folded(p, e) = p
    BY <1>4 DEF Folded
  <2> QED BY <1>0, <2>1, ChatsIs DEF After
<1> QED BY <1>1, <1>2, <1>3, <1>4 DEF PlainEvent, UnreachEvent

LEMMA CreatedFolds ==
  ASSUME NEW p, NEW X, NEW e \in CreatedEvent
  PROVE  After(p, Folded(p, e), X) /\ Folded(p, e).stream = {}
<1>1. Folded(p, e) = Seeded(e.messages, "idle") /\ e.messages \in Seq(Msg)
  BY DEF Folded, CreatedEvent
<1>2. PICK ms : ms = e.messages /\ ms \in Seq(Msg)
  BY <1>1
<1>3. PICK q : q = Seeded(ms, "idle")
  OBVIOUS
<1>4. q \in Snapshot
  <2>1. <<>> \in Seq(ChatEntry) /\ {} \in SUBSET (Nat \X Int) /\ "idle" \in Statuses /\ 0 \in Nat
    BY DEF Statuses
  <2> QED BY <1>2, <1>3, <2>1 DEF Seeded, Snapshot, NoRun
<1>5. q.chat = <<>> /\ q.stream = {}
  BY <1>3 DEF Seeded
<1>6. <<>> \in Seq(X)
  OBVIOUS
<1>7. Folded(p, e) = q
  BY <1>1, <1>2, <1>3, Zenon
<1> QED BY <1>4, <1>5, <1>6, <1>7, Zenon DEF After

LEMMA KeepInIs ==
  ASSUME NEW X, NEW s \in Seq(X), NEW S
  PROVE  KeepIn(s, S) \in Seq(X)
BY KeepPlaces

LEMMA RemoveAtIs ==
  ASSUME NEW X, NEW s \in Seq(X), NEW i \in 1..Len(s)
  PROVE  RemoveAt(s, i) \in Seq(X)
<1>1. RemoveAt(s, i) = SubSeq(s, 1, i - 1) \o SubSeq(s, i + 1, Len(s))
  BY DEF RemoveAt
<1>2. SubSeq(s, 1, i - 1) \in Seq(X) /\ SubSeq(s, i + 1, Len(s)) \in Seq(X)
  OBVIOUS
<1> QED BY <1>1, <1>2

LEMMA AppendedFolds ==
  ASSUME NEW p, NEW X, Chats(p, X), NEW e \in AppendedEvent
  PROVE  After(p, Folded(p, e), X) /\ Folded(p, e).stream = p.stream
<1> DEFINE m == e.message
           c == IF m.cat = "summary"
                THEN Append(p.chat, Entry("summary", <<"message", m.id>>, NoRun, 0))
                ELSE IF m.role = "user"
                THEN Append(p.chat, Entry("user", <<"message", m.id>>, NoRun, 0))
                ELSE p.chat
           i == IF m.role = "assistant" THEN ChatTurnAny(c, m.turn) ELSE 0
           d == IF i = 0 THEN c ELSE [c EXCEPT ![i].calls = m.calls, ![i].done = TRUE]
           ms == Placed(p.messages, m)
<1>0. p \in Snapshot
  BY DEF Chats
<1>1. Folded(p, e) = ProjectAppended(p, e) /\ m \in Msg
  BY DEF Folded, AppendedEvent
<1>2. m.id \in Nat /\ m.calls \in SUBSET Nat
  BY <1>1 DEF Msg
<1>3. ProjectAppended(p, e) = [p EXCEPT !.messages = ms, !.chat = d]
  BY <1>0 DEF ProjectAppended, Snapshot
<1>4. ms \in Seq(Msg)
  BY <1>1, ChatsIs, PlacedIs
<1> HIDE DEF ms
<1>5. c \in Seq(X)
  <2>1. ASSUME NEW type \in {"summary", "user"} PROVE Entry(type, <<"message", m.id>>, NoRun, 0) \in X
    <3>1. Entry(type, <<"message", m.id>>, NoRun, 0) \in ChatEntry
          /\ Entry(type, <<"message", m.id>>, NoRun, 0).type = type
      BY <1>2, EntryIs DEF Keys, NoRun
    <3> QED BY <3>1, ChatsIs
  <2>2. \A x \in X : Append(p.chat, x) \in Seq(X)
    BY ChatsIs
  <2>3. Entry("summary", <<"message", m.id>>, NoRun, 0) \in X /\ Entry("user", <<"message", m.id>>, NoRun, 0) \in X
    BY <2>1
  <2>4. p.chat \in Seq(X)
    BY ChatsIs
  <2> QED BY <2>2, <2>3, <2>4
<1> HIDE DEF c
<1>6. c \in Seq(ChatEntry)
  BY <1>5, ChatsIs
<1>7. i \in 0..Len(c)
  BY <1>6, ChatTurnIs
<1> HIDE DEF i
<1>8. d \in Seq(X)
  <2>1. CASE i = 0
    BY <1>5, <2>1
  <2>2. CASE i # 0
    <3>1. i \in 1..Len(c) /\ c[i] \in ChatEntry
      BY <1>6, <1>7, <2>2
    <3>2. PICK x : x = [[c[i] EXCEPT !.calls = m.calls] EXCEPT !.done = TRUE]
      OBVIOUS
    <3>3. x \in ChatEntry /\ x.done
      BY <1>2, <3>1, <3>2 DEF ChatEntry
    <3>4. x \in X
      BY <3>3, ChatsIs
    <3>5. d = [c EXCEPT ![i] = x]
      BY <2>2, <3>1, <3>2, <1>6 DEF ChatEntry
    <3> HIDE DEF d
    <3> QED BY <1>5, <3>1, <3>4, <3>5
  <2> QED BY <2>1, <2>2
<1> HIDE DEF d
<1>9. d \in Seq(ChatEntry)
  BY <1>8, ChatsIs
<1>10. [p EXCEPT !.messages = ms, !.chat = d] \in Snapshot
       /\ [p EXCEPT !.messages = ms, !.chat = d].chat = d
       /\ [p EXCEPT !.messages = ms, !.chat = d].stream = p.stream
  BY <1>0, <1>4, <1>9 DEF Snapshot
<1> QED BY <1>1, <1>3, <1>8, <1>10, Zenon DEF After

LEMMA UpdatedFolds ==
  ASSUME NEW p, NEW X, Chats(p, X), NEW e \in UpdatedEvent
  PROVE  After(p, Folded(p, e), X) /\ Folded(p, e).stream = p.stream
<1> DEFINE hit == {i \in 1..Len(p.messages) : p.messages[i].id = e.id}
           shown == {ChatTurnAny(p.chat, p.messages[i].turn) : i \in hit}
           ms == [i \in 1..Len(p.messages) |->
                    IF i \notin hit THEN p.messages[i]
                    ELSE IF e.patch = "elided" THEN [p.messages[i] EXCEPT !.elided = TRUE]
                    ELSE [p.messages[i] EXCEPT !.calls = {}]]
           d == [i \in 1..Len(p.chat) |->
                   IF e.patch = "tool_calls" /\ i \in shown THEN [p.chat[i] EXCEPT !.calls = {}]
                   ELSE p.chat[i]]
<1>0. p \in Snapshot
  BY DEF Chats
<1>1. Folded(p, e) = ProjectUpdated(p, e)
  BY DEF Folded, UpdatedEvent
<1>2. ProjectUpdated(p, e) = [p EXCEPT !.messages = ms, !.chat = d]
  BY <1>0 DEF ProjectUpdated, Snapshot
<1> HIDE DEF hit, shown
<1>3. p.messages \in Seq(Msg) /\ Len(p.messages) \in Nat /\ p.chat \in Seq(X) /\ Len(p.chat) \in Nat
      /\ p.chat \in Seq(ChatEntry)
  BY ChatsIs
<1>4. \A m \in Msg : [m EXCEPT !.elided = TRUE] \in Msg /\ [m EXCEPT !.calls = {}] \in Msg
  BY DEF Msg
<1>5. ms \in [1..Len(p.messages) -> Msg]
  BY <1>3, <1>4
<1>6. d \in [1..Len(p.chat) -> X]
  <2>1. \A x \in X : [x EXCEPT !.calls = {}] \in X
    BY ChatsIs
  <2> QED BY <1>3, <2>1
<1> HIDE DEF ms, d
<1>7. ms \in Seq(Msg) /\ d \in Seq(X)
  BY <1>3, <1>5, <1>6
<1>8. d \in Seq(ChatEntry)
  BY <1>7, ChatsIs
<1>10. [p EXCEPT !.messages = ms, !.chat = d] \in Snapshot
       /\ [p EXCEPT !.messages = ms, !.chat = d].chat = d
       /\ [p EXCEPT !.messages = ms, !.chat = d].stream = p.stream
  BY <1>0, <1>7, <1>8 DEF Snapshot
<1> QED BY <1>1, <1>2, <1>7, <1>10, Zenon DEF After

LEMMA RemovedFolds ==
  ASSUME NEW p, NEW X, Chats(p, X), NEW e \in RemovedEvent
  PROVE  After(p, Folded(p, e), X) /\ Folded(p, e).stream = p.stream
<1> DEFINE gone == {i \in 1..Len(p.messages) : p.messages[i].id = e.id}
           keyed(key) == KeepIn(p.chat, {x \in Range(p.chat) : x.key # key})
           m == p.messages[Max(gone)]
           i == ChatTurnAny(p.chat, m.turn)
           ms == KeepIn(p.messages, {x \in Range(p.messages) : x.id # e.id})
           d == IF m.cat = "summary" \/ m.role = "user" THEN keyed(<<"message", m.id>>)
                ELSE IF m.role = "tool" THEN keyed(<<"tool", m.of>>)
                ELSE IF m.role = "assistant" /\ i # 0 THEN RemoveAt(p.chat, i)
                ELSE p.chat
<1>0. p \in Snapshot
  BY DEF Chats
<1>1. Folded(p, e) = ProjectRemoved(p, e)
  BY DEF Folded, RemovedEvent
<1>2. CASE gone = {}
  <2>1. ProjectRemoved(p, e) = p
    BY <1>2 DEF ProjectRemoved
  <2> QED BY <1>0, <1>1, <2>1, ChatsIs DEF After
<1>3. CASE gone # {}
  <2>1. ProjectRemoved(p, e) = [p EXCEPT !.messages = ms, !.chat = d]
    BY <1>0, <1>3 DEF ProjectRemoved
  <2>2. p.messages \in Seq(Msg) /\ p.chat \in Seq(X) /\ p.chat \in Seq(ChatEntry)
    BY ChatsIs
  <2>3. ms \in Seq(Msg)
    BY <2>2, KeepInIs
  <2>4. i \in 0..Len(p.chat)
    BY <2>2, ChatTurnIs
  <2> HIDE DEF ms, i
  <2>5. i # 0 => RemoveAt(p.chat, i) \in Seq(X)
    BY <2>2, <2>4, RemoveAtIs
  <2>6. \A key : keyed(key) \in Seq(X)
    BY <2>2, KeepInIs
  <2> HIDE DEF keyed, m
  <2>7. d \in Seq(X)
    BY <2>2, <2>5, <2>6
  <2> HIDE DEF d
  <2>8. d \in Seq(ChatEntry)
    BY <2>7, ChatsIs
  <2>9. [p EXCEPT !.messages = ms, !.chat = d] \in Snapshot
        /\ [p EXCEPT !.messages = ms, !.chat = d].chat = d
        /\ [p EXCEPT !.messages = ms, !.chat = d].stream = p.stream
    BY <1>0, <2>3, <2>8 DEF Snapshot
  <2> QED BY <1>1, <2>1, <2>7, <2>9, Zenon DEF After
<1> QED BY <1>2, <1>3

LEMMA CompactionFolds ==
  ASSUME NEW p, NEW X, Chats(p, X), NEW e \in CompactionEvent
  PROVE  After(p, Folded(p, e), X) /\ Folded(p, e).stream = p.stream
<1> DEFINE ms == KeepIn(p.messages, {x \in Range(p.messages) : x.id \notin e.ids})
<1>0. p \in Snapshot
  BY DEF Chats
<1>1. Folded(p, e) = IF e.kind # "summarize" THEN p ELSE [p EXCEPT !.messages = ms]
  BY DEF Folded, CompactionEvent, ProjectCompaction
<1>2. ms \in Seq(Msg)
  BY ChatsIs, KeepInIs
<1> HIDE DEF ms
<1>3. [p EXCEPT !.messages = ms] \in Snapshot /\ [p EXCEPT !.messages = ms].chat = p.chat
      /\ [p EXCEPT !.messages = ms].stream = p.stream
  BY <1>0, <1>2 DEF Snapshot
<1> QED BY <1>0, <1>1, <1>3, ChatsIs DEF After

LEMMA NoticeIs ==
  ASSUME NEW q \in Snapshot, NEW X, Closed(X), q.chat \in Seq(X), NEW e, e \in Event \/ Stopped(e)
  PROVE  After(q, Noticed(q, e), X) /\ Noticed(q, e).stream = q.stream
         /\ Noticed(q, e).messages = q.messages
<1> DEFINE about == CASE e.t = "stopped" /\ e.reason = "model_unreachable" -> <<e.reason, 0>>
                      [] e.t = "required" -> <<"approval", e.call>>
                      [] OTHER -> <<e.t, 0>>
           n == [Entry("notice", <<"event", q.seq>>, e.run, 0) EXCEPT !.about = about]
           i == IF about = <<"model_unreachable", 0>> /\ q.host # ""
                THEN ChatNotice(q.chat, about) ELSE 0
           x == IF i = 0 THEN n ELSE [n EXCEPT !.key = q.chat[i].key]
           d == IF i = 0 THEN Append(q.chat, n) ELSE [q.chat EXCEPT ![i] = x]
<1>0. Chats(q, X)
  BY DEF Chats
<1>1. CASE e.t \notin {"stopping", "stopped", "aborted", "retry", "compaction", "required", "grant", "queued"}
  <2>1. Noticed(q, e) = q
    BY <1>1 DEF Noticed
  <2> QED BY <2>1 DEF After
<1>2. CASE e.t \in {"stopping", "stopped", "aborted", "retry", "compaction"}
  <2>1. about \in Abouts /\ e.run \in Nat
    BY <1>2 DEF Event, Abouts, RequestEvent, DeltaEvent, ResponseEvent, CallEvent, Stopped,
       AppendedEvent, UpdatedEvent, RemovedEvent, CompactionEvent, UnreachEvent, PlainEvent, CreatedEvent
  <2> HIDE DEF about
  <2>2. PICK k : k = Entry("notice", <<"event", q.seq>>, e.run, 0)
    OBVIOUS
  <2>3. k \in ChatEntry /\ k.type = "notice"
    <3>1. q.seq \in Nat
      BY DEF Snapshot
    <3> QED BY <2>1, <2>2, <3>1, EntryIs DEF Keys
  <2>4. n \in ChatEntry /\ n.type = "notice"
    BY <2>1, <2>2, <2>3 DEF ChatEntry
  <2>5. q.chat \in Seq(ChatEntry)
    BY <1>0, ChatsIs
  <2>6. i \in 0..Len(q.chat)
    <3>1. ChatNotice(q.chat, about) \in 0..Len(q.chat)
      <4>1. ASSUME NEW S \in SUBSET (1..Len(q.chat)) PROVE Max({0} \cup S) \in 0..Len(q.chat)
        <5> DEFINE T == {0} \cup S
        <5>1. T \subseteq Nat /\ T # {} /\ Len(q.chat) \in Nat
              /\ \A y \in T : y <= Len(q.chat) /\ y \in 0..Len(q.chat)
          BY <2>5, <4>1
        <5> HIDE DEF T
        <5>2. Max(T) \in T
          BY <5>1, GreatestOf
        <5> QED BY <5>1, <5>2 DEF T
      <4> QED BY <4>1 DEF ChatNotice, LastEntry
    <3>2. Len(q.chat) \in Nat
      BY <2>5
    <3>3. i = 0 \/ i = ChatNotice(q.chat, about)
      OBVIOUS
    <3> HIDE DEF i
    <3> QED BY <3>1, <3>2, <3>3
  <2>7. Noticed(q, e) = [q EXCEPT !.chat = d]
    BY <1>2 DEF Noticed, Snapshot, about
  <2> HIDE DEF i, n
  <2>8. x \in ChatEntry /\ x.type = "notice"
    <3>1. CASE i = 0
      BY <2>4, <3>1
    <3>2. CASE i # 0
      <4>1. q.chat[i] \in ChatEntry
        BY <2>5, <2>6, <3>2
      <4> QED BY <2>4, <3>2, <4>1 DEF ChatEntry
    <3> QED BY <3>1, <3>2
  <2>9. x \in X /\ n \in X
    BY <1>0, <2>4, <2>8, ChatsIs
  <2> HIDE DEF x
  <2>10. d \in Seq(X)
    <3>1. CASE i = 0
      BY <2>9, <3>1
    <3>2. CASE i # 0
      BY <2>5, <2>6, <2>9, <3>2
    <3> QED BY <3>1, <3>2
  <2> HIDE DEF d
  <2>11. d \in Seq(ChatEntry)
    BY <1>0, <2>10, ChatsIs
  <2>12. [q EXCEPT !.chat = d] \in Snapshot /\ [q EXCEPT !.chat = d].chat = d
         /\ [q EXCEPT !.chat = d].stream = q.stream /\ [q EXCEPT !.chat = d].messages = q.messages
    BY <2>11 DEF Snapshot
  <2> QED BY <2>7, <2>10, <2>12, Zenon DEF After
<1>3. e.t \notin {"required", "grant", "queued"}
  BY DEF Event, RequestEvent, DeltaEvent, ResponseEvent, CallEvent, Stopped,
     AppendedEvent, UpdatedEvent, RemovedEvent, CompactionEvent, UnreachEvent, PlainEvent, CreatedEvent
<1> QED BY <1>1, <1>2, <1>3

\* Only a fragment of an answer adds to the stream.
LEMMA StreamIs ==
  ASSUME NEW p, NEW X, Chats(p, X), NEW e, e \in Event \/ Stopped(e),
         e.t = "request" => Entry("agent", <<"turn", e.run, e.turn>>, e.run, e.turn) \in X
  PROVE  \A s \in Folded(p, e).stream : s \in p.stream \/ (e.t = "delta" /\ s = <<e.run, e.turn>>)
<1>1. CASE e \in RequestEvent
  BY <1>1, RequestFolds DEF RequestEvent
<1>2. CASE e \in DeltaEvent
  BY <1>2, DeltaFolds DEF DeltaEvent
<1>3. CASE e \in ResponseEvent \cup CallEvent \/ Stopped(e)
  BY <1>3, ResponseFolds, CallFolds, StoppedFolds
<1>4. CASE e \in AppendedEvent \cup UpdatedEvent \cup RemovedEvent \cup CompactionEvent
  BY <1>4, AppendedFolds, UpdatedFolds, RemovedFolds, CompactionFolds
<1>5. CASE e \in UnreachEvent \cup PlainEvent \cup CreatedEvent
  BY <1>5, PlainFolds, CreatedFolds
<1> QED BY <1>1, <1>2, <1>3, <1>4, <1>5 DEF Event

LEMMA FoldedIs ==
  ASSUME NEW p, NEW X, Chats(p, X), NEW e, e \in Event \/ Stopped(e),
         e.t = "request" => Entry("agent", <<"turn", e.run, e.turn>>, e.run, e.turn) \in X
  PROVE  After(p, Folded(p, e), X)
<1>1. CASE e \in RequestEvent
  BY <1>1, RequestFolds DEF RequestEvent
<1>2. CASE e \in DeltaEvent \cup ResponseEvent \cup CallEvent \/ Stopped(e)
  BY <1>2, DeltaFolds, ResponseFolds, CallFolds, StoppedFolds
<1>3. CASE e \in AppendedEvent \cup UpdatedEvent \cup RemovedEvent \cup CompactionEvent
  BY <1>3, AppendedFolds, UpdatedFolds, RemovedFolds, CompactionFolds
<1>4. CASE e \in UnreachEvent \cup PlainEvent \cup CreatedEvent
  BY <1>4, PlainFolds, CreatedFolds
<1> QED BY <1>1, <1>2, <1>3, <1>4 DEF Event

\* Every event keeps the snapshot well formed, and the chat keeps what only a request can break.
LEMMA NextIs ==
  ASSUME NEW p, NEW X, Chats(p, X), NEW e, e \in Event \/ Stopped(e),
         e.t = "request" => Entry("agent", <<"turn", e.run, e.turn>>, e.run, e.turn) \in X
  PROVE  After(p, NextSnapshot(p, e), X) /\ NextSnapshot(p, e).stream = Folded(p, e).stream
         /\ NextSnapshot(p, e).messages = Folded(p, e).messages
<1>1. PICK f : f = Folded(p, e)
  OBVIOUS
<1>2. f \in Snapshot /\ f.chat \in Seq(X)
  BY <1>1, FoldedIs DEF After
<1>4. PICK n \in Nat : n = p.seq + 1
  <2>1. p \in Snapshot
    BY DEF Chats
  <2>2. p.seq \in Nat
    BY <2>1 DEF Snapshot
  <2> QED BY <2>2
<1>3. PICK q : q = [f EXCEPT !.seq = n]
  OBVIOUS
<1>5. q \in Snapshot /\ q.chat = f.chat /\ q.stream = f.stream /\ q.messages = f.messages
  BY <1>2, <1>3 DEF Snapshot
<1>6. NextSnapshot(p, e) = Noticed(q, e)
  BY <1>1, <1>3, <1>4 DEF NextSnapshot
<1>7. Closed(X)
  BY DEF Chats
<1>8. q.chat \in Seq(X)
  BY <1>2, <1>5
<1>9. After(q, Noticed(q, e), X) /\ Noticed(q, e).stream = q.stream /\ Noticed(q, e).messages = q.messages
  BY <1>5, <1>7, <1>8, NoticeIs
<1> QED BY <1>1, <1>5, <1>6, <1>9 DEF After

----------------------------------------------------------------------------
(* What the writers have to publish and put back.                          *)

Answering == {"request", "delta", "response"}
\* Only the goroutine of a run publishes what opens or feeds an answer of the run, and only
\* before it puts anything back.
PreOf(a) == {e \in Event : e.t \in Answering => a = Goroutine(e.run)}
PostOf == {e \in Event : e.t \notin Answering}
Box(a) == [pre : Seq(PreOf(a)), app : Seq(Msg), repl : Seq(Seq(Msg)), post : Seq(PostOf)]

BoxInv ==
  /\ msgs \in Seq(Msg) /\ ids \in Nat /\ proj \in Snapshot
  /\ w = [b \in Writers |-> w[b]]
  /\ \A b \in Writers : w[b] \in Box(b)

\* a alone gets something to do.
Sends(a) ==
  /\ w' = [b \in Writers |-> w'[b]] /\ w'[a] \in Box(a)
  /\ \A b \in Writers \ {a} : w'[b] = w[b]

LEMMA RunsAreNat == \A r \in Runs : r \in Nat
BY DEF Runs

LEMMA WritersAre ==
  /\ \A r \in Runs : Goroutine(r) \in Writers /\ Stopping(r) \in Writers
  /\ Sched \in Writers /\ Operator \in Writers
BY DEF Writers

LEMMA QuietIs ==
  /\ \A a : Quiet \in Box(a)
  /\ Quiet.pre = << >> /\ Quiet.app = << >> /\ Quiet.repl = << >> /\ Quiet.post = << >>
<1>1. \A a : Quiet \in Box(a)
  <2>1. TAKE a
  <2>2. <<>> \in Seq(PreOf(a)) /\ <<>> \in Seq(Msg) /\ <<>> \in Seq(Seq(Msg)) /\ <<>> \in Seq(PostOf)
    OBVIOUS
  <2> QED BY <2>2 DEF Quiet, Box
<1> QED BY <1>1 DEF Quiet

LEMMA EmptyIs ==
  << >> \in Seq(Event) /\ << >> \in Seq(Msg) /\ << >> \in Seq(Seq(Msg)) /\ << >> \in Seq(PostOf)
  /\ \A a : << >> \in Seq(PreOf(a))
OBVIOUS

LEMMA WriteSends ==
  ASSUME BoxInv, NEW a \in Writers, NEW pre \in Seq(PreOf(a)), NEW app \in Seq(Msg),
         NEW repl \in Seq(Seq(Msg)), NEW post \in Seq(PostOf), Write(a, pre, app, repl, post)
  PROVE  Sends(a)
<1>1. PICK x : x = [pre |-> pre, app |-> app, repl |-> repl, post |-> post]
  OBVIOUS
<1>2. x \in Box(a)
  BY <1>1 DEF Box
<1>3. w' = [w EXCEPT ![a] = x]
  BY <1>1 DEF Write
<1> QED BY <1>2, <1>3 DEF BoxInv, Sends

LEMMA SilentSends ==
  ASSUME BoxInv, NEW a \in Writers, w' = w
  PROVE  Sends(a)
BY DEF BoxInv, Sends

LEMMA MessageIs ==
  ASSUME NEW id \in Nat, NEW role \in {"user", "assistant", "system", "tool"}, NEW turn \in Int
  PROVE  Message(id, role, turn) \in Msg
BY DEF Message, Msg

LEMMA AppendedIs ==
  ASSUME NEW m \in Msg
  PROVE  Appended(m) \in PostOf
<1>1. Appended(m) \in AppendedEvent /\ Appended(m).t = "appended"
  BY DEF Appended, AppendedEvent, NoRun
<1> QED BY <1>1 DEF PostOf, Event, Answering

LEMMA PostIsPre ==
  /\ \A a : PostOf \subseteq PreOf(a)
  /\ \A a : \A s \in Seq(PostOf) : s \in Seq(PreOf(a))
<1>1. \A a : PostOf \subseteq PreOf(a)
  BY DEF PostOf, PreOf
<1> QED BY <1>1

LEMMA WriteMessageSends ==
  ASSUME BoxInv, NEW a \in Writers, NEW m \in Msg, WriteMessage(a, m)
  PROVE  Sends(a) /\ msgs' \in Seq(Msg)
<1>1. <<Appended(m)>> \in Seq(PreOf(a))
  BY AppendedIs, PostIsPre
<1>2. Sends(a)
  BY <1>1, EmptyIs, WriteSends DEF WriteMessage
<1>3. msgs' \in Seq(Msg)
  BY DEF WriteMessage, BoxInv
<1> QED BY <1>2, <1>3

LEMMA PublishesSends ==
  ASSUME BoxInv, NEW r \in Runs, NEW es \in Seq(PreOf(Goroutine(r))), Publishes(r, es)
  PROVE  Sends(Goroutine(r)) /\ UNCHANGED <<msgs, ids>>
BY WritersAre, EmptyIs, WriteSends DEF Publishes

\* The events of a run.
LEMMA AnswerEventIs ==
  ASSUME NEW r \in Runs, NEW turn \in Int
  PROVE  /\ [t |-> "request", run |-> r, turn |-> turn] \in PreOf(Goroutine(r))
         /\ [t |-> "delta", run |-> r, turn |-> turn] \in PreOf(Goroutine(r))
         /\ \A c \in SUBSET Nat :
              [t |-> "response", run |-> r, turn |-> turn, calls |-> c] \in PreOf(Goroutine(r))
<1>0. r \in Nat
  BY RunsAreNat
<1>1. [t |-> "request", run |-> r, turn |-> turn] \in RequestEvent
  BY <1>0 DEF RequestEvent
<1>2. [t |-> "delta", run |-> r, turn |-> turn] \in DeltaEvent
  BY <1>0 DEF DeltaEvent
<1>3. \A c \in SUBSET Nat : [t |-> "response", run |-> r, turn |-> turn, calls |-> c] \in ResponseEvent
  BY <1>0 DEF ResponseEvent
<1> QED BY <1>1, <1>2, <1>3 DEF PreOf, Event, Answering

LEMMA EventIs ==
  ASSUME NEW r \in Runs
  PROVE  /\ [t |-> "retry", run |-> r] \in PostOf
         /\ [t |-> "aborted", run |-> r] \in PostOf
         /\ [t |-> "started", run |-> r] \in PostOf
         /\ [t |-> "unreach", run |-> r, host |-> "host"] \in PostOf
         /\ \A c \in Nat : [t |-> "call", run |-> r, call |-> c] \in PostOf
         /\ \A id \in Nat : [t |-> "removed", run |-> r, id |-> id] \in PostOf
<1>0. r \in Nat
  BY RunsAreNat
<1>4. /\ [t |-> "retry", run |-> r] \in PlainEvent /\ [t |-> "aborted", run |-> r] \in PlainEvent
      /\ [t |-> "started", run |-> r] \in PlainEvent
  BY <1>0 DEF PlainEvent
<1>5. [t |-> "unreach", run |-> r, host |-> "host"] \in UnreachEvent
  BY <1>0 DEF UnreachEvent
<1>6. \A c \in Nat : [t |-> "call", run |-> r, call |-> c] \in CallEvent
  BY <1>0 DEF CallEvent
<1>7. \A id \in Nat : [t |-> "removed", run |-> r, id |-> id] \in RemovedEvent
  BY <1>0 DEF RemovedEvent
<1> QED BY <1>4, <1>5, <1>6, <1>7 DEF PostOf, Event, Answering

LEMMA CompactedIs ==
  ASSUME NEW kind \in {"elide", "summarize", "settled"}, NEW dropped \in SUBSET Nat
  PROVE  Compacted(kind, dropped) \in PostOf
<1>1. Compacted(kind, dropped) \in CompactionEvent /\ Compacted(kind, dropped).t = "compaction"
  BY DEF Compacted, CompactionEvent, NoRun
<1> QED BY <1>1 DEF PostOf, Event, Answering

LEMMA UpdatesIs ==
  ASSUME NEW ms \in Seq(Msg), NEW is, NEW patch \in {"elided", "tool_calls"}
  PROVE  Updates(ms, is, patch) \in Seq(PostOf)
<1> DEFINE s == [i \in 1..Len(ms) |-> i]
           at == KeepIn(s, is)
           e(i) == [t |-> "updated", run |-> NoRun, id |-> ms[i].id, patch |-> patch]
<1>1. s \in Seq(1..Len(ms))
  OBVIOUS
<1>2. at \in Seq(1..Len(ms))
  BY <1>1, KeepInIs
<1>3. \A i \in 1..Len(ms) : e(i) \in PostOf
  <2>1. TAKE i \in 1..Len(ms)
  <2>2. ms[i] \in Msg
    BY <2>1
  <2>3. ms[i].id \in Nat
    BY <2>2 DEF Msg
  <2>4. e(i) \in UpdatedEvent /\ e(i).t = "updated"
    BY <2>3 DEF UpdatedEvent, NoRun
  <2> QED BY <2>4 DEF PostOf, Event, Answering
<1>4. Updates(ms, is, patch) = [k \in 1..Len(at) |-> e(at[k])]
  BY DEF Updates
<1> HIDE DEF at, e
<1>5. [k \in 1..Len(at) |-> e(at[k])] \in Seq(PostOf)
  BY <1>2, <1>3
<1> QED BY <1>4, <1>5

LEMMA ElidedIs ==
  ASSUME NEW ms \in Seq(Msg), NEW is
  PROVE  Elided(ms, is) \in Seq(Msg) /\ Len(Elided(ms, is)) = Len(ms)
<1>1. \A m \in Msg : [m EXCEPT !.elided = TRUE] \in Msg
  BY DEF Msg
<1>2. \A i \in 1..Len(ms) : ms[i] \in Msg
  OBVIOUS
<1>3. Elided(ms, is) \in [1..Len(ms) -> Msg]
  BY <1>1, <1>2 DEF Elided
<1> QED BY <1>3

LEMMA ElideSends ==
  ASSUME BoxInv, NEW r \in Runs, NEW is, Elide(r, is)
  PROVE  Sends(Goroutine(r)) /\ UNCHANGED msgs
<1>1. Updates(msgs, is, "elided") \in Seq(PreOf(Goroutine(r)))
  BY UpdatesIs, PostIsPre DEF BoxInv
<1>2. <<Elided(msgs, is)>> \in Seq(Seq(Msg))
  BY ElidedIs DEF BoxInv
<1>3. <<Compacted("elide", {})>> \in Seq(PostOf)
  BY CompactedIs
<1> QED BY <1>1, <1>2, <1>3, EmptyIs, WritersAre, WriteSends DEF Elide

LEMMA RecordAbortSends ==
  ASSUME BoxInv, LoopInv, NEW r \in Runs, NEW a \in Writers, RecordAbort(r, a)
  PROVE  Sends(a) /\ ids' \in Nat
<1>1. CASE r \in recorded
  BY <1>1, SilentSends DEF RecordAbort, BoxInv
<1>2. CASE r \notin recorded
  <2> DEFINE m == Message(ids + 1, "system", run[r].turn)
  <2>1. ids + 1 \in Nat /\ run[r].turn \in Int
    BY DEF BoxInv, LoopInv, Looping, TurnOf
  <2>2. m \in Msg
    BY <2>1, MessageIs
  <2>3. ids' = ids + 1 /\ Write(a, <<[t |-> "aborted", run |-> r]>>, <<m>>, <<>>, <<Appended(m)>>)
    BY <1>2 DEF RecordAbort
  <2> HIDE DEF m
  <2>4. <<[t |-> "aborted", run |-> r]>> \in Seq(PreOf(a)) /\ <<m>> \in Seq(Msg)
        /\ <<Appended(m)>> \in Seq(PostOf)
    <3>1. [t |-> "aborted", run |-> r] \in PostOf
      BY EventIs
    <3> QED BY <2>2, <3>1, AppendedIs, PostIsPre
  <2> QED BY <2>1, <2>3, <2>4, EmptyIs, WriteSends
<1> QED BY <1>1, <1>2

\* A step of the goroutine of r.
Works(r) == Sends(Goroutine(r)) /\ msgs' \in Seq(Msg) /\ ids' \in Nat /\ UNCHANGED <<proj, active, forced>>

LEMMA BusyIs ==
  ASSUME BoxInv, NEW a \in Writers, ~Busy(a)
  PROVE  w[a] = Quiet
BY DEF Busy

LEMMA TurnIs ==
  ASSUME LoopInv, NEW r \in Runs
  PROVE  run[r].turn \in Int
BY DEF LoopInv, Looping, TurnOf

LEMMA SilentWorks ==
  ASSUME BoxInv, NEW r \in Runs, Silent, UNCHANGED <<proj, active, forced>>
  PROVE  Works(r)
BY SilentSends, WritersAre DEF Silent, Works, BoxInv

LEMMA PublishesWorks ==
  ASSUME BoxInv, NEW r \in Runs, NEW es \in Seq(PreOf(Goroutine(r))), Publishes(r, es),
         UNCHANGED <<proj, active, forced>>
  PROVE  Works(r)
BY PublishesSends DEF Works, BoxInv

LEMMA ElideWorks ==
  ASSUME BoxInv, NEW r \in Runs, NEW is, IF is = {} THEN Silent ELSE Elide(r, is) /\ UNCHANGED ids,
         UNCHANGED <<proj, active, forced>>
  PROVE  Works(r)
<1>1. CASE is = {}
  BY <1>1, SilentWorks
<1>2. CASE is # {}
  BY <1>2, ElideSends DEF Works, BoxInv
<1> QED BY <1>1, <1>2

LEMMA BeginWorks ==
  ASSUME BoxInv, LoopInv, NEW r \in Runs, Begin(r)
  PROVE  Works(r)
BY SilentWorks DEF Begin

LEMMA ContextStopWorks ==
  ASSUME BoxInv, LoopInv, NEW r \in Runs, ContextStop(r)
  PROVE  Works(r)
<1>1. UNCHANGED <<proj, active, forced>>
  BY DEF ContextStop, LoopKept, ghosts
<1>2. CASE Silent
  BY <1>1, <1>2, SilentWorks
<1>3. CASE ~Silent
  <2>1. RecordAbort(r, Goroutine(r)) /\ UNCHANGED msgs
    BY <1>3 DEF ContextStop
  <2> QED BY <1>1, <2>1, RecordAbortSends, WritersAre DEF Works, BoxInv
<1> QED BY <1>2, <1>3

LEMMA BoundaryWorks ==
  ASSUME BoxInv, LoopInv, NEW r \in Runs, Boundary(r)
  PROVE  Works(r)
<1>1. UNCHANGED <<proj, active, forced>>
  BY DEF Boundary, ghosts
<1>2. CASE Silent
  BY <1>1, <1>2, SilentWorks
<1>3. CASE ~Silent
  <2> DEFINE m == Message(ids + 1, "user", 0)
  <2>1. ids' = ids + 1 /\ WriteMessage(Goroutine(r), m)
    BY <1>3 DEF Boundary
  <2>2. m \in Msg /\ ids + 1 \in Nat
    BY MessageIs DEF BoxInv
  <2> HIDE DEF m
  <2> QED BY <1>1, <2>1, <2>2, WriteMessageSends, WritersAre DEF Works
<1> QED BY <1>2, <1>3

LEMMA UnreachableWorks ==
  ASSUME BoxInv, LoopInv, NEW r \in Runs, Unreachable(r), UNCHANGED <<proj, active, forced>>
  PROVE  Works(r)
<1>1. [t |-> "unreach", run |-> r, host |-> "host"] \in PreOf(Goroutine(r))
  BY EventIs, PostIsPre
<1>2. <<[t |-> "unreach", run |-> r, host |-> "host"]>> \in Seq(PreOf(Goroutine(r)))
  BY <1>1
<1> QED BY <1>2, PublishesWorks DEF Unreachable

\* The last answer that cannot be decoded.
LEMMA MalformedIs ==
  ASSUME BoxInv
  PROVE  Malformed \in 0..Len(msgs) /\ Len(msgs) \in Nat
<1> DEFINE T == {0} \cup {i \in 1..Len(msgs) : msgs[i].bad /\ msgs[i].calls # {}}
<1>1. Len(msgs) \in Nat
  BY DEF BoxInv
<1>2. T \subseteq Nat /\ T # {} /\ \A x \in T : x <= Len(msgs) /\ x \in 0..Len(msgs)
  BY <1>1
<1> HIDE DEF T
<1>3. Max(T) \in T
  BY <1>1, <1>2, GreatestOf
<1> QED BY <1>1, <1>2, <1>3 DEF Malformed, T

LEMMA RepairWorks ==
  ASSUME BoxInv, LoopInv, NEW r \in Runs, Malformed # 0, Repair(r),
         UNCHANGED <<proj, active, forced, ids>>
  PROVE  Works(r)
<1> DEFINE bad  == msgs[Malformed]
           gone == {m \in Range(msgs) : (m = bad /\ m.empty) \/ (m.role = "tool" /\ m.of \in bad.calls)}
           left == [msgs EXCEPT ![Malformed].calls = {}]
           kept == KeepIn(left, {m \in Range(left) : m.id \notin {x.id : x \in gone}})
           seq  == KeepIn(msgs, gone)
           ups  == IF bad.empty THEN <<>> ELSE Updates(msgs, {Malformed}, "tool_calls")
           rems == [k \in 1..Len(seq) |-> [t |-> "removed", run |-> r, id |-> seq[k].id]]
           post == ups \o rems \o <<[t |-> "retry", run |-> r]>>
<1>1. Malformed \in 1..Len(msgs) /\ msgs \in Seq(Msg)
  BY MalformedIs DEF BoxInv
<1>2. left \in Seq(Msg)
  <2>1. msgs[Malformed] \in Msg
    BY <1>1
  <2>2. PICK x : x = [msgs[Malformed] EXCEPT !.calls = {}]
    OBVIOUS
  <2>3. x \in Msg
    BY <2>1, <2>2 DEF Msg
  <2>4. left = [msgs EXCEPT ![Malformed] = x]
    BY <1>1, <2>2 
  <2> HIDE DEF left
  <2> QED BY <1>1, <2>3, <2>4
<1> HIDE DEF left
<1>3. kept \in Seq(Msg) /\ <<kept>> \in Seq(Seq(Msg))
  <2>1. kept \in Seq(Msg)
    BY <1>2, KeepInIs
  <2> HIDE DEF kept
  <2> QED BY <2>1
<1>4. seq \in Seq(Msg)
  BY <1>1, KeepInIs
<1> HIDE DEF kept, seq
<1>5. ups \in Seq(PostOf)
  BY <1>1, UpdatesIs, EmptyIs
<1>6. rems \in Seq(PostOf)
  <2>1. \A k \in 1..Len(seq) : seq[k].id \in Nat
    <3>1. \A k \in 1..Len(seq) : seq[k] \in Msg
      BY <1>4
    <3> QED BY <3>1 DEF Msg
  <2>2. \A k \in 1..Len(seq) : [t |-> "removed", run |-> r, id |-> seq[k].id] \in PostOf
    BY <2>1, EventIs
  <2> QED BY <1>4, <2>2
<1>7. <<[t |-> "retry", run |-> r]>> \in Seq(PostOf)
  <2>1. [t |-> "retry", run |-> r] \in PostOf
    BY EventIs
  <2> QED BY <2>1
<1>8. Write(Goroutine(r), <<>>, <<>>, <<kept>>, post) /\ UNCHANGED msgs
  BY DEF Repair, kept, left, seq
<1> HIDE DEF ups, rems
<1>9. post \in Seq(PostOf)
  BY <1>5, <1>6, <1>7
<1> HIDE DEF post
<1>10. Sends(Goroutine(r))
  BY <1>3, <1>8, <1>9, EmptyIs, WritersAre, WriteSends
<1> QED BY <1>8, <1>10 DEF Works, BoxInv

LEMMA AssembleWorks ==
  ASSUME BoxInv, LoopInv, NEW r \in Runs, Assemble(r)
  PROVE  Works(r)
<1>1. UNCHANGED <<proj, active, forced, ids>>
  BY DEF Assemble
<1>2. CASE Silent
  BY <1>1, <1>2, SilentWorks
<1>3. CASE Publishes(r, <<[t |-> "request", run |-> r, turn |-> run[r].turn]>>)
  <2>1. [t |-> "request", run |-> r, turn |-> run[r].turn] \in PreOf(Goroutine(r))
    BY TurnIs, AnswerEventIs
  <2>2. <<[t |-> "request", run |-> r, turn |-> run[r].turn]>> \in Seq(PreOf(Goroutine(r)))
    BY <2>1
  <2> QED BY <1>1, <1>3, <2>2, PublishesWorks
<1>4. CASE Unreachable(r)
  BY <1>1, <1>4, UnreachableWorks
<1>5. CASE Malformed # 0 /\ Repair(r)
  BY <1>1, <1>5, RepairWorks
<1> QED BY <1>2, <1>3, <1>4, <1>5 DEF Assemble

LEMMA FailsWorks ==
  ASSUME BoxInv, LoopInv, NEW r \in Runs, Fails(r)
  PROVE  Works(r)
<1>1. UNCHANGED <<proj, active, forced>>
  BY DEF Fails, ghosts
<1> QED BY <1>1, SilentWorks, UnreachableWorks DEF Fails

LEMMA ResponseIs ==
  ASSUME LoopInv, NEW r \in Runs, NEW named \in SUBSET Nat
  PROVE  /\ Response(r, named) \in Seq(PreOf(Goroutine(r)))
         /\ Append(Response(r, named), [t |-> "retry", run |-> r]) \in Seq(PreOf(Goroutine(r)))
<1>1. PICK d, a, b : /\ d = [t |-> "delta", run |-> r, turn |-> run[r].turn]
                     /\ a = [t |-> "response", run |-> r, turn |-> run[r].turn, calls |-> named]
                     /\ b = [t |-> "retry", run |-> r]
  OBVIOUS
<1>2. d \in PreOf(Goroutine(r)) /\ a \in PreOf(Goroutine(r)) /\ b \in PreOf(Goroutine(r))
  BY <1>1, TurnIs, AnswerEventIs, EventIs, PostIsPre
<1>3. Response(r, named) = <<d, a>>
  BY <1>1 DEF Response
<1> QED BY <1>1, <1>2, <1>3

LEMMA TextWorks ==
  ASSUME BoxInv, LoopInv, NEW r \in Runs, Text(r)
  PROVE  Works(r)
<1>1. UNCHANGED <<proj, active, forced>> /\ Publishes(r, Response(r, {}))
  BY DEF Text, ghosts
<1>2. Response(r, {}) \in Seq(PreOf(Goroutine(r)))
  BY ResponseIs
<1> QED BY <1>1, <1>2, PublishesWorks

LEMMA TruncatedWorks ==
  ASSUME BoxInv, LoopInv, NEW r \in Runs, Truncated(r)
  PROVE  Works(r)
<1>1. UNCHANGED <<proj, active, forced>>
  BY DEF Truncated, ghosts
<1>2. /\ Response(r, {}) \in Seq(PreOf(Goroutine(r)))
      /\ Append(Response(r, {}), [t |-> "retry", run |-> r]) \in Seq(PreOf(Goroutine(r)))
  BY ResponseIs
<1>3. \/ Publishes(r, Response(r, {}))
      \/ Publishes(r, Append(Response(r, {}), [t |-> "retry", run |-> r]))
  BY DEF Truncated
<1> QED BY <1>1, <1>2, <1>3, PublishesWorks

LEMMA CallsWorks ==
  ASSUME BoxInv, LoopInv, NEW r \in Runs, Calls(r)
  PROVE  Works(r)
<1>1. UNCHANGED <<proj, active, forced>>
  BY DEF Calls, ghosts
<1>2. PICK b \in Batches : Publishes(r, Response(r, Range([k \in 1..Len(b.kinds) |-> calls + k])))
  BY Zenon DEF Calls
<1>3. Len(b.kinds) \in Nat /\ calls \in Nat
  BY TurnConstants DEF LoopInv
<1>4. Range([k \in 1..Len(b.kinds) |-> calls + k]) \in SUBSET Nat
  <2>1. \A k \in 1..Len(b.kinds) : [x \in 1..Len(b.kinds) |-> calls + x][k] \in Nat
    BY <1>3
  <2> QED BY <2>1 DEF Range
<1>5. Response(r, Range([k \in 1..Len(b.kinds) |-> calls + k])) \in Seq(PreOf(Goroutine(r)))
  BY <1>4, ResponseIs
<1> QED BY <1>1, <1>2, <1>5, PublishesWorks

LEMMA ToolStartsWorks ==
  ASSUME BoxInv, LoopInv, NEW r \in Runs, ToolStarts(r)
  PROVE  Works(r)
<1>1. UNCHANGED <<proj, active, forced>>
      /\ Publishes(r, <<[t |-> "call", run |-> r, call |-> run[r].named[run[r].at]]>>)
  BY DEF ToolStarts, LoopKept, ghosts
<1>2. run[r].named[run[r].at] \in Nat
  <2>1. BatchOf(run[r]) /\ run[r].pc = "dispatch"
    BY DEF LoopInv, Looping, ToolStarts, At
  <2>2. run[r].named \in Seq(Nat) /\ run[r].at \in 1..Len(run[r].named)
    BY <2>1 DEF BatchOf
  <2> QED BY <2>2
<1>3. [t |-> "call", run |-> r, call |-> run[r].named[run[r].at]] \in PreOf(Goroutine(r))
  BY <1>2, EventIs, PostIsPre
<1>4. <<[t |-> "call", run |-> r, call |-> run[r].named[run[r].at]]>> \in Seq(PreOf(Goroutine(r)))
  BY <1>3
<1> QED BY <1>1, <1>4, PublishesWorks

LEMMA ToolReturnsWorks ==
  ASSUME BoxInv, LoopInv, NEW r \in Runs, ToolReturns(r)
  PROVE  Works(r)
<1>1. CASE ContextStop(r)
  BY <1>1, ContextStopWorks
<1>2. CASE ~ContextStop(r)
  <2>1. Silent /\ UNCHANGED <<proj, active, forced>>
    BY <1>2 DEF ToolReturns, LoopKept, ghosts
  <2> QED BY <2>1, SilentWorks
<1> QED BY <1>1, <1>2

LEMMA SourceIs ==
  ASSUME BoxInv, NEW id \in Nat
  PROVE  Source(id) \in SUBSET Nat
<1> DEFINE us == {i \in 1..Len(msgs) : msgs[i].role = "user" /\ ~msgs[i].elided}
<1>1. Len(msgs) \in Nat /\ msgs \in Seq(Msg)
  BY DEF BoxInv
<1>2. CASE us = {}
  BY <1>2 DEF Source
<1>3. CASE us # {}
  <2>1. us \subseteq 1..Len(msgs)
    OBVIOUS
  <2>2. Source(id) = {id} \cup {msgs[Max(us)].id}
    BY <1>3 DEF Source
  <2> HIDE DEF us
  <2>3. Max(us) \in us
    <3>1. us \subseteq Nat /\ \A x \in us : x <= Len(msgs)
      BY <1>1, <2>1
    <3> QED BY <1>1, <1>3, <3>1, GreatestOf
  <2>4. msgs[Max(us)] \in Msg
    <3>1. Max(us) \in 1..Len(msgs)
      BY <2>1, <2>3
    <3>2. \A i \in 1..Len(msgs) : msgs[i] \in Msg
      BY <1>1
    <3> QED BY <3>1, <3>2
  <2>5. msgs[Max(us)].id \in Nat
    BY <2>4 DEF Msg
  <2> QED BY <2>2, <2>5
<1> QED BY <1>2, <1>3

LEMMA WriteMessageWorks ==
  ASSUME BoxInv, NEW r \in Runs, NEW m \in Msg, WriteMessage(Goroutine(r), m), ids' = ids + 1,
         UNCHANGED <<proj, active, forced>>
  PROVE  Works(r)
BY WriteMessageSends, WritersAre DEF Works, BoxInv

LEMMA AnswerWorks ==
  ASSUME BoxInv, LoopInv, NEW r \in Runs, Answer(r)
  PROVE  Works(r)
<1>1. UNCHANGED <<proj, active, forced>> /\ ids' = ids + 1 /\ ids + 1 \in Nat
  BY DEF Answer, LoopKept, ghosts, BoxInv
<1>2. PICK m, n : /\ n = Message(ids + 1, "assistant", run[r].turn)
                  /\ m = [n EXCEPT !.src = Source(ids + 1)] /\ WriteMessage(Goroutine(r), m)
  BY DEF Answer
<1>3. n \in Msg /\ Source(ids + 1) \in SUBSET Nat
  BY <1>1, <1>2, TurnIs, MessageIs, SourceIs
<1>4. m \in Msg
  BY <1>2, <1>3 DEF Msg
<1> QED BY <1>1, <1>2, <1>4, WriteMessageWorks

LEMMA AppendNextWorks ==
  ASSUME BoxInv, LoopInv, NEW r \in Runs, AppendNext(r)
  PROVE  Works(r)
<1> DEFINE k == run[r].at
           calling == [Message(ids + 1, "assistant", run[r].turn) EXCEPT
                         !.calls = Range(run[r].named), !.bad = "bad" \in Range(run[r].kinds),
                         !.empty = run[r].empty, !.src = Source(ids + 1)]
           result == [Message(ids + 1, "tool", run[r].turn) EXCEPT
                        !.of = run[r].named[k], !.kind = run[r].kinds[k], !.ok = run[r].ok[k],
                        !.size = 4]
           m == IF k = 0 THEN calling ELSE result
<1>1. UNCHANGED <<proj, active, forced>> /\ ids' = ids + 1 /\ ids + 1 \in Nat
      /\ WriteMessage(Goroutine(r), m)
  BY DEF AppendNext, LoopKept, ghosts, BoxInv
<1>2. BatchOf(run[r]) /\ run[r].pc = "append"
  BY DEF LoopInv, Looping, AppendNext, At
<1>3. run[r].kinds \in Seq(STRING) /\ run[r].named \in Seq(Nat) /\ run[r].ok \in Seq(BOOLEAN)
      /\ Len(run[r].named) = Len(run[r].kinds) /\ k \in 0..Len(run[r].kinds)
      /\ Len(run[r].ok) = Len(run[r].kinds)
  BY <1>2 DEF BatchOf
<1>4. CASE k = 0
  <2>1. PICK n : n = Message(ids + 1, "assistant", run[r].turn)
    OBVIOUS
  <2>2. n \in Msg /\ Source(ids + 1) \in SUBSET Nat
    BY <1>1, <2>1, TurnIs, MessageIs, SourceIs
  <2>3. Range(run[r].named) \in SUBSET Nat
    BY <1>3 DEF Range
  <2>4. PICK c, b, e, s : /\ c = Range(run[r].named) /\ b = ("bad" \in Range(run[r].kinds))
                          /\ e = run[r].empty /\ s = Source(ids + 1)
    OBVIOUS
  <2>5. m = [n EXCEPT !.calls = c, !.bad = b, !.empty = e, !.src = s]
    BY <1>4, <2>1, <2>4
  <2>6. c \in SUBSET Nat /\ b \in BOOLEAN /\ s \in SUBSET Nat
    BY <2>2, <2>3, <2>4
  <2>7. e \in BOOLEAN
    BY <1>2, <2>4 DEF BatchOf
  <2>8. m \in Msg
    <3> HIDE DEF m
    <3> QED BY <2>2, <2>5, <2>6, <2>7 DEF Msg
  <2> HIDE DEF m
  <2> QED BY <1>1, <2>8, WriteMessageWorks
<1>5. CASE k # 0
  <2>1. PICK n : n = Message(ids + 1, "tool", run[r].turn)
    OBVIOUS
  <2>2. n \in Msg
    BY <1>1, <2>1, TurnIs, MessageIs
  <2>3. PICK c, b, e : c = run[r].named[k] /\ b = run[r].kinds[k] /\ e = run[r].ok[k]
    OBVIOUS
  <2>4. c \in Nat /\ b \in STRING /\ e \in BOOLEAN
    BY <1>3, <1>5, <2>3, SMTT(20)
  <2>5. m = [n EXCEPT !.of = c, !.kind = b, !.ok = e, !.size = 4]
    BY <1>5, <2>1, <2>3
  <2>6. m \in Msg
    <3> HIDE DEF m
    <3> QED BY <2>2, <2>4, <2>5 DEF Msg
  <2> HIDE DEF m
  <2> QED BY <1>1, <2>6, WriteMessageWorks
<1> QED BY <1>4, <1>5

LEMMA QuietWorks ==
  ASSUME BoxInv, LoopInv, NEW r \in Runs, Observe(r) \/ CycleDecided(r) \/ EndFlight(r)
  PROVE  Works(r)
BY SilentWorks DEF Observe, CycleDecided, EndFlight, LoopKept, ghosts

LEMMA CompactWorks ==
  ASSUME BoxInv, LoopInv, NEW r \in Runs, Compact(r)
  PROVE  Works(r)
<1>1. UNCHANGED <<proj, active, forced>>
  BY DEF Compact, LoopKept, ghosts
<1>2. PICK is : IF is = {} THEN Silent ELSE Elide(r, is) /\ UNCHANGED ids
  BY DEF Compact
<1> QED BY <1>1, <1>2, ElideWorks

LEMMA ElideOldWorks ==
  ASSUME BoxInv, LoopInv, NEW r \in Runs, ElideOld(r)
  PROVE  Works(r)
<1>1. UNCHANGED <<proj, active, forced>>
  BY DEF ElideOld, ghosts
<1>2. Silent \/ \E is : IF is = {} THEN Silent ELSE Elide(r, is) /\ UNCHANGED ids
  BY DEF ElideOld
<1>3. CASE Silent
  BY <1>1, <1>3, SilentWorks
<1>4. ASSUME NEW is, IF is = {} THEN Silent ELSE Elide(r, is) /\ UNCHANGED ids PROVE Works(r)
  BY <1>1, <1>4, ElideWorks
<1> QED BY <1>2, <1>3, <1>4

LEMMA FitElidesWorks ==
  ASSUME BoxInv, LoopInv, NEW r \in Runs, FitElides(r)
  PROVE  Works(r)
<1>1. UNCHANGED <<proj, active, forced>>
  BY DEF FitElides, LoopKept, ghosts
<1>2. PICK is : IF is = {} THEN Silent ELSE Elide(r, is) /\ UNCHANGED ids
  BY DEF FitElides
<1> QED BY <1>1, <1>2, ElideWorks

LEMMA SummaryIs ==
  ASSUME BoxInv, NEW size \in SummarySizes
  PROVE  SummaryOf(size) \in Msg
<1>1. size \in Nat /\ ids + 1 \in Nat
  BY TurnConstants DEF BoxInv
<1>2. PICK n : n = Message(ids + 1, "assistant", 0) /\ n \in Msg
  BY <1>1, MessageIs
<1>3. SummaryOf(size) = [n EXCEPT !.cat = "summary", !.size = size]
  BY <1>2 DEF SummaryOf
<1> QED BY <1>1, <1>2, <1>3 DEF Msg

LEMMA SummarizedIs ==
  ASSUME NEW ms \in Seq(Msg), NEW s \in Msg, Len(ms) > SummaryTail + 1
  PROVE  Summarized(ms, s) \in Seq(Msg) /\ Dropped(ms) \in SUBSET Nat
<1>1. SummaryTail \in Nat
  BY TurnConstants
<1>2. ms[1] \in Msg /\ <<ms[1], s>> \in Seq(Msg)
  BY <1>1
<1>3. PICK n : n = Len(ms) - SummaryTail + 1
  OBVIOUS
<1>4. SubSeq(ms, n, Len(ms)) \in Seq(Msg)
  BY <1>1, <1>3
<1>5. Summarized(ms, s) = <<ms[1], s>> \o SubSeq(ms, n, Len(ms))
  BY <1>3 DEF Summarized
<1>6. \A i \in 2..(Len(ms) - SummaryTail) : ms[i].id \in Nat
  <2>1. \A i \in 1..Len(ms) : ms[i] \in Msg
    OBVIOUS
  <2>2. \A i \in 2..(Len(ms) - SummaryTail) : i \in 1..Len(ms)
    BY <1>1
  <2> QED BY <2>1, <2>2 DEF Msg
<1>7. Dropped(ms) \in SUBSET Nat
  BY <1>6 DEF Dropped
<1> QED BY <1>2, <1>4, <1>5, <1>7

LEMMA TrySummaryWorks ==
  ASSUME BoxInv, LoopInv, NEW r \in Runs, NEW after, NEW otherwise, TrySummary(r, after, otherwise),
         UNCHANGED <<proj, active, forced>>
  PROVE  Works(r)
<1>1. CASE Silent
  BY <1>1, SilentWorks
<1>2. ASSUME NEW size \in SummarySizes, Len(msgs) > SummaryTail + 1, ids' = ids + 1,
             Accepted(size), UNCHANGED msgs,
             Write(Goroutine(r), <<>>, <<>>, <<Summarized(msgs, SummaryOf(size))>>,
                   <<Compacted("summarize", Dropped(msgs)), Appended(SummaryOf(size))>>)
      PROVE  Works(r)
  <2>1. PICK s \in Msg : s = SummaryOf(size)
    BY SummaryIs
  <2>2. Summarized(msgs, s) \in Seq(Msg) /\ Dropped(msgs) \in SUBSET Nat
    BY <1>2, SummarizedIs DEF BoxInv
  <2>3. <<Summarized(msgs, s)>> \in Seq(Seq(Msg))
    BY <2>2
  <2>4. Compacted("summarize", Dropped(msgs)) \in PostOf /\ Appended(s) \in PostOf
    BY <2>2, CompactedIs, AppendedIs
  <2>5. <<Compacted("summarize", Dropped(msgs)), Appended(s)>> \in Seq(PostOf)
    BY <2>4
  <2>6. Sends(Goroutine(r))
    BY <1>2, <2>1, <2>3, <2>5, EmptyIs, WritersAre, WriteSends
  <2> QED BY <1>2, <2>6 DEF Works, BoxInv
<1>3. ASSUME ids' = ids + 1, UNCHANGED <<msgs, w>> PROVE Works(r)
  BY <1>3, SilentSends, WritersAre DEF Works, BoxInv
<1> QED BY <1>1, <1>2, <1>3 DEF TrySummary

LEMMA SummarizeWorks ==
  ASSUME BoxInv, LoopInv, NEW r \in Runs, Summarize(r)
  PROVE  Works(r)
<1>1. UNCHANGED <<proj, active, forced>>
  BY DEF Summarize, ghosts
<1>2. Silent \/ TrySummary(r, [run[r] EXCEPT !.pc = "top"], [run[r] EXCEPT !.pc = "top"])
  BY DEF Summarize
<1> QED BY <1>1, <1>2, SilentWorks, TrySummaryWorks

LEMMA FitSummarizesWorks ==
  ASSUME BoxInv, LoopInv, NEW r \in Runs, FitSummarizes(r)
  PROVE  Works(r)
<1>1. UNCHANGED <<proj, active, forced>>
  BY DEF FitSummarizes, ghosts
<1>2. Silent \/ \E a, b : TrySummary(r, a, b)
  BY DEF FitSummarizes
<1> QED BY <1>1, <1>2, SilentWorks, TrySummaryWorks

LEMMA InnerWorks ==
  ASSUME BoxInv, LoopInv, NEW r \in Runs,
         Inner(r) \/ Begin(r) \/ Stops(r) \/ ToolStarts(r) \/ ToolReturns(r) \/ EndFlight(r)
  PROVE  Works(r)
BY BoundaryWorks, AssembleWorks, AnswerWorks, AppendNextWorks, QuietWorks, CompactWorks,
   ElideOldWorks, SummarizeWorks, FitElidesWorks, FitSummarizesWorks, FailsWorks, TextWorks,
   TruncatedWorks, CallsWorks, BeginWorks, ContextStopWorks, ToolStartsWorks, ToolReturnsWorks
DEF Inner, Stops

\* A chat without an unfinished answer of r, and a snapshot without a trace of it.
Shown(r) == {x \in ChatEntry : x.type = "agent" /\ x.run = r => x.done}
Over(p, r) == p.chat \in Seq(Shown(r)) /\ \A s \in p.stream : s[1] # r

\* A run that is at work has the slot, unless it lost it; one that is not has nothing to publish.
SlotInv ==
  /\ \A r \in Runs : run[r].pc \in {"idle", "done"} => w[Goroutine(r)] = Quiet
  /\ \A r \in Runs \ forced : run[r].pc \notin {"idle", "done"} => active = r
OverInv == \A r \in Runs \ forced : run[r].pc = "done" => Over(proj, r)
ChatInv == BoxInv /\ SlotInv /\ OverInv

LEMMA ShownIs ==
  /\ \A r : Closed(Shown(r)) /\ Closed(ChatEntry)
  /\ \A r : \A e \in Event : e.t = "request" /\ e.run # r
       => Entry("agent", <<"turn", e.run, e.turn>>, e.run, e.turn) \in Shown(r)
<1>1. \A x \in ChatEntry : \A c \in SUBSET Nat :
        /\ [x EXCEPT !.calls = c] \in ChatEntry /\ [x EXCEPT !.calls = c].type = x.type
        /\ [x EXCEPT !.calls = c].run = x.run /\ [x EXCEPT !.calls = c].done = x.done
  BY DEF ChatEntry
<1>2. \A r : Closed(Shown(r)) /\ Closed(ChatEntry)
  BY <1>1 DEF Closed, Shown
<1>3. ASSUME NEW r, NEW e \in Event, e.t = "request", e.run # r
      PROVE  Entry("agent", <<"turn", e.run, e.turn>>, e.run, e.turn) \in Shown(r)
  <2>1. e.run \in Nat /\ e.turn \in Int
    BY <1>3 DEF Event, RequestEvent, DeltaEvent, ResponseEvent, CallEvent,
       AppendedEvent, UpdatedEvent, RemovedEvent, CompactionEvent, UnreachEvent, PlainEvent, CreatedEvent
  <2>2. PICK x : x = Entry("agent", <<"turn", e.run, e.turn>>, e.run, e.turn)
    OBVIOUS
  <2>3. x \in ChatEntry /\ x.run = e.run
    BY <2>1, <2>2, EntryIs DEF Keys
  <2> QED BY <1>3, <2>2, <2>3 DEF Shown
<1> QED BY <1>2, <1>3

LEMMA RequestEntryIs ==
  ASSUME NEW e \in Event, e.t = "request"
  PROVE  Entry("agent", <<"turn", e.run, e.turn>>, e.run, e.turn) \in ChatEntry
<1>1. e.run \in Nat /\ e.turn \in Int
  BY DEF Event, RequestEvent, DeltaEvent, ResponseEvent, CallEvent,
     AppendedEvent, UpdatedEvent, RemovedEvent, CompactionEvent, UnreachEvent, PlainEvent, CreatedEvent
<1> QED BY <1>1, EntryIs DEF Keys

\* An event is published: no trace of a run that is over comes back.
LEMMA EventKeeps ==
  ASSUME BoxInv, NEW e, e \in Event \/ Stopped(e), proj' = NextSnapshot(proj, e)
  PROVE  /\ proj' \in Snapshot
         /\ \A r : Over(proj, r) /\ (e.t \in Answering => e.run # r) => Over(proj', r)
<1>0. proj \in Snapshot /\ proj.chat \in Seq(ChatEntry)
  BY DEF BoxInv, Snapshot
<1>1. proj' \in Snapshot
  <2>1. Chats(proj, ChatEntry)
    BY <1>0, ShownIs DEF Chats
  <2>2. e.t = "request" => Entry("agent", <<"turn", e.run, e.turn>>, e.run, e.turn) \in ChatEntry
    BY RequestEntryIs DEF Stopped
  <2>3. After(proj, NextSnapshot(proj, e), ChatEntry)
    BY <2>1, <2>2, NextIs
  <2> QED BY <2>3 DEF After
<1>2. ASSUME NEW r, Over(proj, r), e.t \in Answering => e.run # r
      PROVE  Over(proj', r)
  <2>1. Chats(proj, Shown(r))
    BY <1>0, <1>2, ShownIs DEF Chats, Over
  <2>2. e.t = "request" => Entry("agent", <<"turn", e.run, e.turn>>, e.run, e.turn) \in Shown(r)
    BY <1>2, ShownIs DEF Stopped, Answering
  <2>3. After(proj, NextSnapshot(proj, e), Shown(r)) /\ proj'.stream = Folded(proj, e).stream
    BY <2>1, <2>2, NextIs
  <2>4. \A s \in proj'.stream : s \in proj.stream \/ (e.t = "delta" /\ s = <<e.run, e.turn>>)
    BY <2>1, <2>2, <2>3, StreamIs
  <2>5. \A s \in proj'.stream : s[1] # r
    <3>1. TAKE s \in proj'.stream
    <3>2. CASE s \in proj.stream
      BY <1>2, <3>2 DEF Over
    <3>3. CASE e.t = "delta" /\ s = <<e.run, e.turn>>
      BY <1>2, <3>3 DEF Answering
    <3> QED BY <2>4, <3>2, <3>3
  <2> QED BY <2>3, <2>5 DEF After, Over
<1> QED BY <1>1, <1>2

\* The end of a run takes every trace of it.
LEMMA StoppedKeeps ==
  ASSUME BoxInv, NEW r \in Runs, NEW e, Stopped(e), e.run = r, proj' = NextSnapshot(proj, e)
  PROVE  Over(proj', r)
<1>0. proj \in Snapshot /\ proj.chat \in Seq(ChatEntry)
  BY DEF BoxInv, Snapshot
<1>1. Chats(proj, ChatEntry)
  BY <1>0, ShownIs DEF Chats
<1>2. PICK f : f = Folded(proj, e)
  OBVIOUS
<1>3. /\ f \in Snapshot /\ f.chat \in Seq(ChatEntry)
      /\ \A i \in 1..Len(f.chat) : f.chat[i].type = "agent" /\ f.chat[i].run = r => f.chat[i].done
      /\ f.stream = {s \in proj.stream : s[1] # r}
  BY <1>1, <1>2, StoppedFolds DEF After
<1>4. f.chat \in Seq(Shown(r))
  <2>1. \A i \in 1..Len(f.chat) : f.chat[i] \in Shown(r)
    BY <1>3 DEF Shown
  <2>2. PICK c : c = f.chat
    OBVIOUS
  <2>3. c \in Seq(ChatEntry) /\ \A i \in 1..Len(c) : c[i] \in Shown(r)
    BY <1>3, <2>1, <2>2
  <2> QED BY <2>2, <2>3
<1>5. PICK n \in Nat : n = proj.seq + 1
  <2>1. proj.seq \in Nat
    BY <1>0 DEF Snapshot
  <2> QED BY <2>1
<1>6. PICK q : q = [f EXCEPT !.seq = n]
  OBVIOUS
<1>7. q \in Snapshot /\ q.chat = f.chat /\ q.stream = f.stream
  BY <1>3, <1>6 DEF Snapshot
<1>8. proj' = Noticed(q, e)
  BY <1>2, <1>5, <1>6 DEF NextSnapshot
<1>9. After(q, Noticed(q, e), Shown(r)) /\ Noticed(q, e).stream = q.stream
  BY <1>4, <1>7, ShownIs, NoticeIs
<1> QED BY <1>3, <1>7, <1>8, <1>9 DEF After, Over

LEMMA WorksKeeps ==
  ASSUME ChatInv, NEW r \in Runs, Works(r), run[r].pc \notin {"idle", "done"},
         run'[r].pc \notin {"idle", "done"}, \A q \in Runs : q # r => run'[q] = run[q]
  PROVE  ChatInv'
<1>1. BoxInv'
  BY DEF ChatInv, BoxInv, Works, Sends
<1>2. \A q \in Runs : q # r => Goroutine(q) # Goroutine(r)
  BY DEF Goroutine
<1>3. SlotInv'
  BY <1>2, WritersAre DEF ChatInv, SlotInv, Works, Sends
<1>4. OverInv'
  BY DEF ChatInv, OverInv, Works
<1> QED BY <1>1, <1>3, <1>4 DEF ChatInv

LEMMA PublishKeeps ==
  ASSUME ChatInv, NEW a \in Writers, Publish(a)
  PROVE  ChatInv'
<1>1. /\ w[a].pre # <<>> /\ proj' = NextSnapshot(proj, Head(w[a].pre))
      /\ w' = [w EXCEPT ![a].pre = Tail(w[a].pre)]
      /\ UNCHANGED <<msgs, run, active, ids, forced>>
  BY DEF Publish, ghosts
<1>2. w[a] \in Box(a)
  BY DEF ChatInv, BoxInv
<1>3. w[a].pre \in Seq(PreOf(a))
  BY <1>2 DEF Box
<1>4. PICK e : e = Head(w[a].pre) /\ e \in PreOf(a)
  BY <1>1, <1>3
<1>5. e \in Event /\ (e.t \in Answering => a = Goroutine(e.run))
  BY <1>4 DEF PreOf
<1>6. proj' \in Snapshot /\ \A r : Over(proj, r) /\ (e.t \in Answering => e.run # r) => Over(proj', r)
  BY <1>1, <1>4, <1>5, EventKeeps DEF ChatInv
<1>7. BoxInv'
  <2>1. PICK x : x = [w[a] EXCEPT !.pre = Tail(w[a].pre)]
    OBVIOUS
  <2>2. x \in Box(a)
    <3>1. Tail(w[a].pre) \in Seq(PreOf(a))
      BY <1>1, <1>3
    <3> QED BY <1>2, <2>1, <3>1 DEF Box
  <2>3. w' = [w EXCEPT ![a] = x]
    BY <1>1, <2>1 DEF ChatInv, BoxInv
  <2> QED BY <1>1, <1>6, <2>2, <2>3 DEF ChatInv, BoxInv
<1>8. SlotInv'
  <2>1. ASSUME NEW r \in Runs, run[r].pc \in {"idle", "done"} PROVE w'[Goroutine(r)] = Quiet
    <3>1. w[Goroutine(r)] = Quiet
      BY <2>1 DEF ChatInv, SlotInv
    <3>2. a # Goroutine(r)
      BY <1>1, <3>1, QuietIs
    <3> QED BY <1>1, <3>1, <3>2, WritersAre DEF ChatInv, BoxInv
  <2> QED BY <1>1, <2>1 DEF ChatInv, SlotInv
<1>9. OverInv'
  <2>1. ASSUME NEW r \in Runs \ forced, run[r].pc = "done" PROVE Over(proj', r)
    <3>1. w[Goroutine(r)] = Quiet /\ Over(proj, r)
      BY <2>1 DEF ChatInv, SlotInv, OverInv
    <3>2. a # Goroutine(r)
      BY <1>1, <3>1, QuietIs
    <3> QED BY <1>5, <1>6, <3>1, <3>2
  <2> QED BY <1>1, <2>1 DEF OverInv
<1> QED BY <1>7, <1>8, <1>9 DEF ChatInv

LEMMA InstallKeeps ==
  ASSUME ChatInv, NEW a \in Writers, Install(a)
  PROVE  ChatInv'
<1>1. /\ w[a].app # <<>> \/ w[a].repl # <<>>
      /\ msgs' = IF w[a].repl # <<>> THEN w[a].repl[1] ELSE msgs \o w[a].app
      /\ w' = [w EXCEPT ![a] = [Quiet EXCEPT !.pre = w[a].post]]
      /\ UNCHANGED <<proj, run, active, ids, forced>>
  BY DEF Install, ghosts
<1>2. w[a].post \in Seq(PostOf) /\ w[a].app \in Seq(Msg) /\ w[a].repl \in Seq(Seq(Msg)) /\ msgs \in Seq(Msg)
  <2>1. w[a] \in Box(a)
    BY DEF ChatInv, BoxInv
  <2> QED BY <2>1 DEF Box, ChatInv, BoxInv
<1>3. msgs' \in Seq(Msg)
  BY <1>1, <1>2
<1>4. [Quiet EXCEPT !.pre = w[a].post] \in Box(a)
  BY <1>2, QuietIs, PostIsPre DEF Box
<1>5. BoxInv'
  BY <1>1, <1>3, <1>4 DEF ChatInv, BoxInv
<1>6. \A r \in Runs : run[r].pc \in {"idle", "done"} => w[Goroutine(r)] = Quiet
  BY DEF ChatInv, SlotInv
<1>7. \A r \in Runs : run[r].pc \in {"idle", "done"} => a # Goroutine(r)
  BY <1>1, <1>6, QuietIs
<1>8. SlotInv'
  BY <1>1, <1>6, <1>7, WritersAre DEF ChatInv, SlotInv, BoxInv
<1>9. OverInv'
  BY <1>1 DEF ChatInv, OverInv
<1> QED BY <1>5, <1>8, <1>9 DEF ChatInv

\* An event that answers nothing takes nothing back.
LEMMA PlainKeeps ==
  ASSUME ChatInv, NEW e, e \in Event \/ Stopped(e), e.t \notin Answering, proj' = NextSnapshot(proj, e)
  PROVE  proj' \in Snapshot /\ \A r : Over(proj, r) => Over(proj', r)
BY EventKeeps DEF ChatInv

LEMMA SlotKeeps ==
  ASSUME ChatInv, \A r \in Runs : run'[r].pc = run[r].pc, UNCHANGED <<w, active, forced>>
  PROVE  SlotInv'
BY DEF ChatInv, SlotInv

LEMMA FinishKeeps ==
  ASSUME ChatInv, LoopInv, NEW r \in Runs, Finish(r)
  PROVE  ChatInv'
<1>1. UNCHANGED <<msgs, w, ids, forced>> /\ w[Goroutine(r)] = Quiet
  BY DEF Finish, SchedKept, ghosts, At, Busy
<1>2. /\ run[r].pc = "finish" /\ run'[r].pc = "done"
      /\ \A q \in Runs : q # r => run'[q] = run[q]
  BY FinishIs DEF Stepped
<1>3. CASE active = r
  <2>1. active' = NoRun /\ proj' = NextSnapshot(proj, StoppedEvent(r))
    BY <1>3 DEF Finish
  <2>2. PICK e : e = StoppedEvent(r)
    OBVIOUS
  <2>3. Stopped(e) /\ e.run = r /\ e.t \notin Answering /\ r \in Nat
    BY <2>2, RunsAreNat DEF StoppedEvent, Stopped, Answering
  <2>4. proj' \in Snapshot /\ \A q : Over(proj, q) => Over(proj', q)
    BY <2>1, <2>2, <2>3, PlainKeeps
  <2>5. Over(proj', r)
    BY <2>1, <2>2, <2>3, StoppedKeeps DEF ChatInv
  <2>6. BoxInv'
    BY <1>1, <2>4 DEF ChatInv, BoxInv
  <2>7. SlotInv'
    BY <1>1, <1>2, <1>3, <2>1 DEF ChatInv, SlotInv
  <2>8. OverInv'
    BY <1>1, <1>2, <2>4, <2>5 DEF ChatInv, OverInv
  <2> QED BY <2>6, <2>7, <2>8 DEF ChatInv
<1>4. CASE active # r
  <2>1. UNCHANGED <<active, proj>>
    BY <1>4 DEF Finish
  <2>2. r \in forced
    BY <1>2, <1>4 DEF ChatInv, SlotInv
  <2>3. BoxInv'
    BY <1>1, <2>1 DEF ChatInv, BoxInv
  <2>4. SlotInv'
    BY <1>1, <1>2, <2>1 DEF ChatInv, SlotInv
  <2>5. OverInv'
    BY <1>1, <1>2, <2>1, <2>2 DEF ChatInv, OverInv
  <2> QED BY <2>3, <2>4, <2>5 DEF ChatInv
<1> QED BY <1>3, <1>4

\* A writer that is no goroutine of a run sends.
LEMMA SendsKeep ==
  ASSUME ChatInv, NEW a \in Writers, \A r \in Runs : a # Goroutine(r), Sends(a),
         msgs' \in Seq(Msg), ids' \in Nat, proj' = proj
  PROVE  BoxInv' /\ \A r \in Runs : w'[Goroutine(r)] = w[Goroutine(r)]
<1>1. BoxInv'
  BY DEF ChatInv, BoxInv, Sends
<1>2. \A r \in Runs : w'[Goroutine(r)] = w[Goroutine(r)]
  BY WritersAre DEF Sends
<1> QED BY <1>1, <1>2

LEMMA OthersAre ==
  /\ \A r \in Runs : Sched # Goroutine(r) /\ Operator # Goroutine(r)
  /\ \A r, q \in Runs : Stopping(r) # Goroutine(q)
BY DEF Sched, Operator, Goroutine, Stopping

LEMMA StartKeeps ==
  ASSUME ChatInv, LoopInv, Unstarted, Start
  PROVE  ChatInv'
<1> DEFINE m == Message(ids + 1, "user", 0)
           n == started + 1
<1>1. /\ active = NoRun /\ active' = n /\ ids' = ids + 1 /\ msgs' = Append(msgs, m)
      /\ Write(Sched, <<Appended(m), [t |-> "started", run |-> n]>>, <<>>, <<>>, <<>>)
      /\ UNCHANGED <<proj, forced>>
  BY DEF Start, ghosts
<1>2. m \in Msg /\ ids' \in Nat /\ n \in Nat
  <2>1. ids + 1 \in Nat /\ started + 1 \in Nat
    BY DEF ChatInv, BoxInv, Unstarted
  <2> QED BY <1>1, <2>1, MessageIs
<1> HIDE DEF m
<1>3. [t |-> "started", run |-> n] \in PostOf
  <2>1. [t |-> "started", run |-> n] \in PlainEvent
    BY <1>2 DEF PlainEvent
  <2> QED BY <2>1 DEF PostOf, Event, Answering
<1>4. <<Appended(m), [t |-> "started", run |-> n]>> \in Seq(PreOf(Sched))
  <2>1. Appended(m) \in PostOf
    BY <1>2, AppendedIs
  <2>2. Appended(m) \in PreOf(Sched) /\ [t |-> "started", run |-> n] \in PreOf(Sched)
    BY <1>3, <2>1, PostIsPre
  <2>3. PICK x, y : x = Appended(m) /\ y = [t |-> "started", run |-> n]
                    /\ x \in PreOf(Sched) /\ y \in PreOf(Sched)
    BY <2>2
  <2>4. <<x, y>> \in Seq(PreOf(Sched))
    BY <2>3
  <2>5. x = Appended(m) /\ y = [t |-> "started", run |-> n]
    BY <2>3
  <2> QED BY <2>4, <2>5, Zenon
<1>5. Sends(Sched)
  BY <1>1, <1>4, EmptyIs, WritersAre, WriteSends DEF ChatInv
<1>6. msgs' \in Seq(Msg)
  BY <1>1, <1>2 DEF ChatInv, BoxInv
<1>7. BoxInv' /\ \A r \in Runs : w'[Goroutine(r)] = w[Goroutine(r)]
  BY <1>1, <1>2, <1>5, <1>6, OthersAre, WritersAre, SendsKeep
<1>8. \A r \in Runs : r \notin forced => run[r].pc \in {"idle", "done"}
  BY <1>1, RunsAreNot DEF ChatInv, SlotInv
<1>9. \A r \in Runs : IF r = n THEN run'[r].pc = "begin" ELSE run'[r] = run[r]
  BY StartIs
<1>10. SlotInv'
  BY <1>1, <1>7, <1>8, <1>9 DEF ChatInv, SlotInv
<1>11. OverInv'
  BY <1>1, <1>9 DEF ChatInv, OverInv
<1> QED BY <1>7, <1>10, <1>11 DEF ChatInv

LEMMA StopKeeps ==
  ASSUME ChatInv, LoopInv, NEW r \in Runs, Stop(r)
  PROVE  ChatInv'
<1>1. UNCHANGED <<msgs, w, ids, active, forced>> /\ proj' = NextSnapshot(proj, [t |-> "stopping", run |-> r])
  BY DEF Stop, SchedKept, ghosts
<1>2. PICK e : e = [t |-> "stopping", run |-> r]
  OBVIOUS
<1>3. e \in Event /\ e.t \notin Answering
  <2>1. e \in PlainEvent /\ e.t = "stopping"
    BY <1>2, RunsAreNat DEF PlainEvent
  <2> QED BY <2>1 DEF Event, Answering
<1>4. proj' \in Snapshot /\ \A q : Over(proj, q) => Over(proj', q)
  BY <1>1, <1>2, <1>3, PlainKeeps
<1>5. \A q \in Runs : run'[q].pc = run[q].pc
  BY CancelIs
<1>6. SlotInv'
  BY <1>1, <1>5, SlotKeeps
<1>7. BoxInv'
  BY <1>1, <1>4 DEF ChatInv, BoxInv
<1>8. OverInv'
  BY <1>1, <1>4, <1>5 DEF ChatInv, OverInv
<1> QED BY <1>6, <1>7, <1>8 DEF ChatInv

LEMMA WallKeeps ==
  ASSUME ChatInv, LoopInv, NEW r \in Runs, Wall(r)
  PROVE  ChatInv'
<1>1. UNCHANGED <<msgs, w, ids, active, forced, proj>>
  BY DEF Wall, SchedKept, ghosts
<1>2. \A q \in Runs : run'[q].pc = run[q].pc
  BY CancelIs
<1> QED BY <1>1, <1>2 DEF ChatInv, BoxInv, SlotInv, OverInv

LEMMA StopTimeoutKeeps ==
  ASSUME ChatInv, LoopInv, NEW r \in Runs, StopTimeout(r)
  PROVE  ChatInv'
<1>1. RecordAbort(r, Stopping(r)) /\ UNCHANGED <<msgs, proj, run, active, forced>>
  BY DEF StopTimeout
<1>2. Sends(Stopping(r)) /\ ids' \in Nat
  BY <1>1, WritersAre, RecordAbortSends DEF ChatInv
<1>3. msgs' \in Seq(Msg)
  BY <1>1 DEF ChatInv, BoxInv
<1>4. BoxInv' /\ \A q \in Runs : w'[Goroutine(q)] = w[Goroutine(q)]
  BY <1>1, <1>2, <1>3, OthersAre, WritersAre, SendsKeep
<1>5. SlotInv'
  BY <1>1, <1>4 DEF ChatInv, SlotInv
<1>6. OverInv'
  BY <1>1 DEF ChatInv, OverInv
<1> QED BY <1>4, <1>5, <1>6 DEF ChatInv

LEMMA ForceFinishKeeps ==
  ASSUME ChatInv, LoopInv, NEW r \in Runs, ForceFinish(r)
  PROVE  ChatInv'
<1>1. UNCHANGED <<msgs, w, ids, run>>
  BY DEF ForceFinish, SchedKept
<1>2. CASE active # r
  <2>1. UNCHANGED <<active, proj, forced>>
    BY <1>2 DEF ForceFinish
  <2> QED BY <1>1, <2>1 DEF ChatInv, BoxInv, SlotInv, OverInv
<1>3. CASE active = r
  <2>1. active' = NoRun /\ forced' = forced \cup {r}
        /\ proj' = NextSnapshot(proj, [StoppedEvent(r) EXCEPT !.reason = "aborted"])
    BY <1>3 DEF ForceFinish
  <2>2. PICK e : e = [StoppedEvent(r) EXCEPT !.reason = "aborted"]
    OBVIOUS
  <2>3. Stopped(e) /\ e.t \notin Answering
    BY <2>2, RunsAreNat DEF StoppedEvent, Stopped, Answering
  <2>4. proj' \in Snapshot /\ \A q : Over(proj, q) => Over(proj', q)
    BY <2>1, <2>2, <2>3, PlainKeeps
  <2>5. BoxInv'
    BY <1>1, <2>4 DEF ChatInv, BoxInv
  <2>6. SlotInv'
    BY <1>1, <1>3, <2>1 DEF ChatInv, SlotInv
  <2>7. OverInv'
    BY <1>1, <2>1, <2>4 DEF ChatInv, OverInv
  <2> QED BY <2>5, <2>6, <2>7 DEF ChatInv
<1> QED BY <1>2, <1>3

LEMMA SettleKeeps ==
  ASSUME ChatInv, Settle
  PROVE  ChatInv'
<1>1. PICK i \in 1..Len(msgs) :
        LET is == {j \in 1..Len(msgs) : msgs[j].id \in msgs[i].src /\ ~msgs[j].elided
                                         /\ msgs[j].role \in {"user", "assistant"}}
            settled == [j \in 1..Len(msgs) |->
                          IF j \in is THEN [msgs[j] EXCEPT !.elided = TRUE, !.calls = {}]
                          ELSE msgs[j]]
        IN /\ Write(Operator, Updates(msgs, is, "elided"), <<>>, <<settled>>,
                    <<Compacted("settled", {})>>)
           /\ UNCHANGED <<msgs, proj, run, active, ids, ghosts>>
  BY DEF Settle
<1> DEFINE is == {j \in 1..Len(msgs) : msgs[j].id \in msgs[i].src /\ ~msgs[j].elided
                                         /\ msgs[j].role \in {"user", "assistant"}}
           settled == [j \in 1..Len(msgs) |->
                          IF j \in is THEN [msgs[j] EXCEPT !.elided = TRUE, !.calls = {}]
                          ELSE msgs[j]]
<1>2. Write(Operator, Updates(msgs, is, "elided"), <<>>, <<settled>>, <<Compacted("settled", {})>>)
  BY <1>1
<1>3. UNCHANGED <<msgs, proj, run, active, ids, forced>>
  BY <1>1 DEF ghosts
<1> HIDE DEF is
<1>12. settled \in [1..Len(msgs) -> Msg]
  <2>1. \A m \in Msg : [m EXCEPT !.elided = TRUE, !.calls = {}] \in Msg
    BY DEF Msg
  <2>2. \A j \in 1..Len(msgs) : msgs[j] \in Msg
    BY DEF ChatInv, BoxInv
  <2> QED BY <2>1, <2>2
<1> HIDE DEF settled
<1>4. settled \in Seq(Msg)
  <2>1. Len(msgs) \in Nat
    BY DEF ChatInv, BoxInv
  <2> QED BY <1>12, <2>1
<1>5. Updates(msgs, is, "elided") \in Seq(PreOf(Operator))
  BY UpdatesIs, PostIsPre DEF ChatInv, BoxInv
<1>6. <<settled>> \in Seq(Seq(Msg)) /\ <<Compacted("settled", {})>> \in Seq(PostOf)
  BY <1>4, CompactedIs
<1>7. Sends(Operator)
  BY <1>2, <1>5, <1>6, EmptyIs, WritersAre, WriteSends DEF ChatInv
<1>8. msgs' \in Seq(Msg) /\ ids' \in Nat
  BY <1>3 DEF ChatInv, BoxInv
<1>9. BoxInv' /\ \A q \in Runs : w'[Goroutine(q)] = w[Goroutine(q)]
  BY <1>3, <1>7, <1>8, OthersAre, WritersAre, SendsKeep
<1>10. SlotInv'
  BY <1>3, <1>9 DEF ChatInv, SlotInv
<1>11. OverInv'
  BY <1>3 DEF ChatInv, OverInv
<1> QED BY <1>9, <1>10, <1>11 DEF ChatInv

LEMMA RestartKeeps ==
  ASSUME ChatInv, LoopInv, Restart
  PROVE  ChatInv'
<1>1. /\ msgs' = proj.messages /\ ids' = 0 /\ active' = NoRun /\ forced' = forced
      /\ w' = [b \in Writers |-> Quiet]
      /\ proj' = NextSnapshot(proj, [t |-> "created", run |-> NoRun, messages |-> proj.messages])
  BY DEF Restart
<1>2. proj.messages \in Seq(Msg)
  BY DEF ChatInv, BoxInv, Snapshot
<1>3. PICK e : e = [t |-> "created", run |-> NoRun, messages |-> proj.messages]
  OBVIOUS
<1>4. e \in CreatedEvent /\ e \in Event /\ e.t = "created"
  <2>1. e \in CreatedEvent /\ e.t = "created"
    BY <1>2, <1>3 DEF CreatedEvent, NoRun
  <2> QED BY <2>1 DEF Event
<1>5. \A r \in Runs : run'[r].pc \in {"idle", "done"}
  BY RestartIs
<1>6. ASSUME NEW r \in Runs PROVE Over(proj', r)
  <2>1. PICK f : f = Folded(proj, e)
    OBVIOUS
  <2>2. After(proj, f, Shown(r)) /\ f.stream = {}
    BY <1>4, <2>1, CreatedFolds
  <2>3. PICK n \in Nat : n = proj.seq + 1
    <3>1. proj.seq \in Nat
      BY DEF ChatInv, BoxInv, Snapshot
    <3> QED BY <3>1
  <2>4. PICK q : q = [f EXCEPT !.seq = n]
    OBVIOUS
  <2>5. q \in Snapshot /\ q.chat = f.chat /\ q.stream = f.stream
    BY <2>2, <2>4 DEF After, Snapshot
  <2>6. proj' = Noticed(q, e)
    BY <1>1, <1>3, <2>1, <2>3, <2>4 DEF NextSnapshot
  <2>7. After(q, Noticed(q, e), Shown(r)) /\ Noticed(q, e).stream = q.stream
    <3>1. q.chat \in Seq(Shown(r))
      BY <2>2, <2>5 DEF After
    <3> QED BY <1>4, <2>5, <3>1, ShownIs, NoticeIs
  <2> QED BY <2>2, <2>5, <2>6, <2>7 DEF After, Over
<1>7. proj' \in Snapshot
  BY <1>1, <1>3, <1>4, EventKeeps DEF ChatInv
<1>8. BoxInv'
  BY <1>1, <1>2, <1>7, QuietIs DEF BoxInv
<1>9. SlotInv'
  BY <1>1, <1>5, WritersAre DEF SlotInv
<1>10. OverInv'
  BY <1>6 DEF OverInv
<1> QED BY <1>8, <1>9, <1>10 DEF ChatInv

LEMMA InnerKeeps ==
  ASSUME ChatInv, LoopInv, NEW r \in Runs,
         Inner(r) \/ Begin(r) \/ Stops(r) \/ ToolStarts(r) \/ ToolReturns(r) \/ EndFlight(r)
  PROVE  ChatInv'
<1>1. Works(r)
  BY InnerWorks DEF ChatInv
<1>2. /\ run[r].pc \notin {"idle", "done"} /\ run'[r].pc \notin {"idle", "done"}
      /\ \A q \in Runs : q # r => run'[q] = run[q]
  <2>1. CASE Inner(r)
    BY <2>1, BoundaryLoops, AssembleLoops, AnswerLoops, AppendNextLoops, ObserveLoops,
       CompactLoops, ElideOldLoops, SummarizeLoops, FitElidesLoops, FitSummarizesLoops,
       FailsLoops, TextLoops, TruncatedLoops, CallsLoops, CycleDecidedLoops DEF Inner, Stepped
  <2>2. CASE Stops(r)
    BY <2>2, StopsLoops DEF Stops, Stepped
  <2>3. CASE ~Inner(r) /\ ~Stops(r)
    BY <2>3, BeginLoops, ToolStartsLoops, ToolReturnsLoops, EndFlightLoops DEF Stepped
  <2> QED BY <2>1, <2>2, <2>3
<1> QED BY <1>1, <1>2, WorksKeeps

LEMMA ChatKeeps ==
  ASSUME ChatInv, LoopInv, Unstarted, [Next]_vars
  PROVE  ChatInv'
<1>1. ASSUME (\E r \in Runs : StopReturns(r)) \/ UNCHANGED vars PROVE ChatInv'
  <2>1. UNCHANGED <<msgs, proj, w, run, active, ids, forced>>
    BY <1>1 DEF StopReturns, SchedKept, ghosts, vars
  <2> QED BY <2>1 DEF ChatInv, BoxInv, SlotInv, OverInv
<1> QED BY StepIs, <1>1, InnerKeeps, FinishKeeps, WallKeeps, StopKeeps, StopTimeoutKeeps, ForceFinishKeeps,
           PublishKeeps, InstallKeeps, StartKeeps, SettleKeeps, RestartKeeps

\* What the writers still have to publish and put back, who has the session's slot, and what
\* the snapshot shows of a run that is over agree (run.go, projector.go).
THEOREM ChatAlways == Spec => []ChatInv
<1>1. ASSUME Init PROVE ChatInv
  <2>1. \A r \in Runs : run[r].pc = "idle" /\ w[Goroutine(r)] = Quiet
    BY <1>1, WritersAre DEF Init, Asleep
  <2>2. proj = Seeded(<<>>, "idle") /\ msgs = <<>> /\ ids = 0 /\ w = [b \in Writers |-> Quiet]
    BY <1>1 DEF Init
  <2>3. proj \in Snapshot
    <3>1. <<>> \in Seq(ChatEntry) /\ <<>> \in Seq(Msg) /\ {} \in SUBSET (Nat \X Int)
          /\ "idle" \in Statuses /\ 0 \in Nat
      BY DEF Statuses
    <3> QED BY <2>2, <3>1 DEF Seeded, Snapshot, NoRun
  <2>4. BoxInv
    BY <2>2, <2>3, QuietIs DEF BoxInv
  <2> QED BY <2>1, <2>4 DEF ChatInv, SlotInv, OverInv
<1>2. ChatInv /\ LoopInv /\ Unstarted /\ [Next]_vars => ChatInv'
  BY ChatKeeps
<1> QED BY <1>1, <1>2, LoopAlways, FlightAlways, PTL DEF Spec

\* ChatSettled: once a run has ended, no answer of it is open in the chat and no fragment of it
\* is kept (projector.go, run.stopped), for every number of runs and every scenario.
THEOREM ChatSettledAlways == Spec => []ChatSettled
<1>1. ASSUME ChatInv PROVE ChatSettled
  <2>1. ASSUME NEW r \in Runs, run[r].pc = "done", r \notin forced
        PROVE  /\ \A s \in proj.stream : s[1] # r
               /\ \A i \in 1..Len(proj.chat) : proj.chat[i].type = "agent" /\ proj.chat[i].run = r
                                                => proj.chat[i].done
    <3>1. Over(proj, r)
      BY <1>1, <2>1 DEF ChatInv, OverInv
    <3>2. \A i \in 1..Len(proj.chat) : proj.chat[i] \in Shown(r)
      BY <3>1 DEF Over
    <3> QED BY <3>1, <3>2 DEF Over, Shown
  <2> QED BY <2>1 DEF ChatSettled
<1> QED BY <1>1, ChatAlways, PTL

----------------------------------------------------------------------------
(* The calls of the transcript and their results.                          *)

\* The calls of a run whose results are still to be appended, and those whose answer is.
DueOf(x) ==
  {c \in Nat : x.pc = "append" /\ x.at # 0
               /\ \E j \in 1..Len(x.named) : j >= x.at /\ c = x.named[j]}
FreshOf(x) ==
  {c \in Nat : /\ x.pc \in {"dispatch", "tool"} \/ (x.pc = "append" /\ x.at = 0)
               /\ \E j \in 1..Len(x.named) : c = x.named[j]}
Due == UNION {DueOf(run[q]) : q \in Runs}
Fresh == UNION {FreshOf(run[q]) : q \in Runs}
AtWork == \E q \in Runs : run[q].pc \notin {"idle", "done"}

\* Every call of the transcript has its result, or is in D; the message that a summary keeps
\* makes none.
Good(ms, D) ==
  /\ \A i \in 1..Len(ms) : \A c \in ms[i].calls :
       c \in D \/ \E j \in i+1..Len(ms) : ms[j].role = "tool" /\ ms[j].of = c
  /\ ms # << >> => ms[1].calls = {}
\* Ids and calls are used once, as long as the process has not restarted.
Apart(ms, F, n, k) ==
  /\ \A i, j \in 1..Len(ms) : i # j => ms[i].id # ms[j].id /\ ms[i].calls \cap ms[j].calls = {}
  /\ \A i \in 1..Len(ms) : /\ ms[i].id <= n /\ (ms[i].role = "tool" => ms[i].calls = {} /\ i # 1)
                           /\ \A c \in ms[i].calls : c <= k /\ c \notin F
KeptAt(ms, D, F, n, k, whole, work) ==
  Good(ms, D) /\ (whole => Apart(ms, F, n, k)) /\ (work => ms # << >>)
Kept(ms) == KeptAt(ms, Due, Fresh, ids, calls, crash = "none", AtWork)
\* The transcript when the writer a has put back what it has.
Installed(a) == IF w[a].repl # <<>> THEN w[a].repl[1] ELSE msgs \o w[a].app
PairInv ==
  /\ \A c \in Fresh : c <= calls
  /\ ~raced => \A a, b \in Writers : Busy(a) /\ Busy(b) => a = b
  /\ ~raced /\ crash # "cut" /\ forced = {} => Kept(msgs) /\ \A a \in Writers : Kept(Installed(a))

LEMMA AppendIs ==
  ASSUME NEW ms \in Seq(Msg), NEW m \in Msg
  PROVE  /\ Append(ms, m) \in Seq(Msg) /\ Append(ms, m) = ms \o <<m>> /\ ms \o << >> = ms
         /\ Len(Append(ms, m)) = Len(ms) + 1 /\ Append(ms, m)[Len(ms) + 1] = m
         /\ \A i \in 1..Len(ms) : Append(ms, m)[i] = ms[i]
OBVIOUS

LEMMA GoodAppend ==
  ASSUME NEW ms \in Seq(Msg), NEW m \in Msg, NEW D, NEW E, Good(ms, D),
         m.calls # {} => ms # << >> /\ m.calls \subseteq E,
         \A c \in D : c \in E \/ (m.role = "tool" /\ m.of = c)
  PROVE  Good(Append(ms, m), E) /\ Append(ms, m) # << >>
<1>1. PICK n : n = Len(ms) /\ n \in Nat
  OBVIOUS
<1>2. PICK s : s = Append(ms, m)
  OBVIOUS
<1>3. s \in Seq(Msg) /\ Len(s) = n + 1 /\ s[n + 1] = m /\ \A i \in 1..n : s[i] = ms[i]
  BY <1>1, <1>2, AppendIs
<1>4. ASSUME NEW i \in 1..n + 1, NEW c \in s[i].calls
      PROVE  c \in E \/ \E j \in i+1..n + 1 : s[j].role = "tool" /\ s[j].of = c
  <2>1. CASE i = n + 1
    BY <1>3, <1>4, <2>1
  <2>2. CASE i \in 1..n
    <3>1. c \in ms[i].calls
      BY <1>3, <1>4, <2>2
    <3>2. CASE c \in D
      <4>1. n + 1 \in i+1..n + 1
        BY <1>1, <2>2
      <4> QED BY <1>3, <3>2, <4>1
    <3>3. CASE c \notin D
      <4>1. PICK j \in i+1..n : ms[j].role = "tool" /\ ms[j].of = c
        BY <1>1, <2>2, <3>1, <3>3 DEF Good
      <4>2. j \in 1..n /\ j \in i+1..n + 1
        BY <1>1, <2>2
      <4> QED BY <1>3, <4>1, <4>2
    <3> QED BY <3>2, <3>3
  <2> QED BY <1>1, <2>1, <2>2
<1>5. s[1].calls = {} /\ s # <<>>
  <2>1. s # <<>>
    BY <1>1, <1>3
  <2>2. CASE n = 0
    <3>1. ms # <<>> => n # 0
      BY <1>1
    <3>2. n + 1 = 1
      BY <2>2
    <3>3. s[1] = m
      BY <1>3, <3>2
    <3> QED BY <2>1, <2>2, <3>1, <3>3
  <2>3. CASE n # 0
    <3>1. 1 \in 1..n /\ ms # <<>>
      BY <1>1, <2>3
    <3> QED BY <1>3, <2>1, <3>1 DEF Good
  <2> QED BY <2>1, <2>2, <2>3
<1>6. Good(s, E)
  BY <1>3, <1>4, <1>5 DEF Good
<1> QED BY <1>2, <1>5, <1>6

LEMMA ApartAppend ==
  ASSUME NEW ms \in Seq(Msg), NEW m \in Msg, NEW F, NEW G, NEW n \in Nat, NEW k \in Nat,
         Apart(ms, F, n, k), m.id = n + 1, m.calls \subseteq F, m.role = "tool" => ms # << >> /\ m.calls = {},
         \A c \in F : c <= k, G \subseteq F, m.calls \cap G = {}
  PROVE  Apart(Append(ms, m), G, n + 1, k)
<1>1. PICK l : l = Len(ms) /\ l \in Nat
  OBVIOUS
<1>2. PICK s : s = Append(ms, m)
  OBVIOUS
<1>3. s \in Seq(Msg) /\ Len(s) = l + 1 /\ s[l + 1] = m /\ \A i \in 1..l : s[i] = ms[i]
  BY <1>1, <1>2, AppendIs
<1>9. \A i \in 1..l : ms[i] \in Msg
  BY <1>1
<1>4. \A i \in 1..l : ms[i].id \in Nat
  BY <1>9 DEF Msg
<1>5. \A i \in 1..l : s[i].id # m.id /\ s[i].calls \cap m.calls = {}
  <2>1. TAKE i \in 1..l
  <2>2. ms[i].id <= n /\ \A c \in ms[i].calls : c \notin F
    BY <1>1 DEF Apart
  <2> QED BY <1>3, <1>4, <2>2
<1>6. ASSUME NEW i \in 1..l + 1, NEW j \in 1..l + 1, i # j
      PROVE  s[i].id # s[j].id /\ s[i].calls \cap s[j].calls = {}
  <2>1. CASE i = l + 1
    <3>1. j \in 1..l
      BY <1>1, <1>6, <2>1
    <3> QED BY <1>3, <1>5, <2>1, <3>1
  <2>2. CASE j = l + 1
    <3>1. i \in 1..l
      BY <1>1, <1>6, <2>2
    <3> QED BY <1>3, <1>5, <2>2, <3>1
  <2>3. CASE i \in 1..l /\ j \in 1..l
    BY <1>1, <1>3, <1>6, <2>3 DEF Apart
  <2> QED BY <1>1, <2>1, <2>2, <2>3
<1>7. ASSUME NEW i \in 1..l + 1
      PROVE  /\ s[i].id <= n + 1 /\ (s[i].role = "tool" => s[i].calls = {} /\ i # 1)
             /\ \A c \in s[i].calls : c <= k /\ c \notin G
  <2>1. CASE i = l + 1
    <3>1. ms # <<>> => l # 0
      BY <1>1
    <3> QED BY <1>1, <1>3, <2>1, <3>1
  <2>2. CASE i \in 1..l
    <3>1. /\ ms[i].id <= n /\ (ms[i].role = "tool" => ms[i].calls = {} /\ i # 1)
          /\ \A c \in ms[i].calls : c <= k /\ c \notin F
      BY <1>1, <2>2 DEF Apart
    <3> QED BY <1>3, <1>4, <2>2, <3>1
  <2> QED BY <1>1, <2>1, <2>2
<1>8. Apart(s, G, n + 1, k)
  BY <1>3, <1>6, <1>7 DEF Apart
<1> QED BY <1>2, <1>8

LEMMA Later ==
  ASSUME NEW ms \in Seq(Msg), NEW D, NEW E, D \subseteq E, Good(ms, D)
  PROVE  Good(ms, E)
BY DEF Good

LEMMA ApartLater ==
  ASSUME NEW ms \in Seq(Msg), NEW F, NEW G, NEW n \in Nat, NEW k \in Nat, NEW o \in Nat, NEW l \in Nat,
         Apart(ms, F, n, k), \A c \in G : c \in F \/ (c \in Nat /\ c > k), n <= o, k <= l
  PROVE  Apart(ms, G, o, l)
<1>1. ASSUME NEW i \in 1..Len(ms)
      PROVE  /\ ms[i].id <= o
             /\ \A c \in ms[i].calls : c <= l /\ c \notin G
  <2>1. ms[i] \in Msg
    OBVIOUS
  <2>2. ms[i].id \in Nat /\ ms[i].calls \subseteq Nat
    BY <2>1 DEF Msg
  <2>3. ms[i].id <= n /\ \A c \in ms[i].calls : c <= k /\ c \notin F
    BY DEF Apart
  <2> QED BY <2>2, <2>3
<1> QED BY <1>1 DEF Apart

\* ns has messages of ms, in their order, with their calls or without, and new ones without
\* calls at the places that h maps to 0.
Carries(ms, ns, h) ==
  /\ ns # << >> /\ h \in [1..Len(ns) -> 0..Len(ms)] /\ h[1] = 1
  /\ \A i, j \in 1..Len(ns) : i < j /\ h[i] # 0 /\ h[j] # 0 => h[i] < h[j]
  /\ \A j \in 1..Len(ns) : IF h[j] = 0 THEN ns[j].calls = {} /\ ns[j].role # "tool"
                           ELSE /\ ns[j].id = ms[h[j]].id /\ ns[j].role = ms[h[j]].role
                                /\ ns[j].of = ms[h[j]].of /\ ns[j].calls \in {ms[h[j]].calls, {}}
\* No result is left behind without its call.
Answers(ms, ns, h) ==
  \A j \in 1..Len(ns) : h[j] # 0 => \A c \in ns[j].calls :
    \A i \in h[j]+1..Len(ms) : ms[i].role = "tool" /\ ms[i].of = c => \E k \in 1..Len(ns) : h[k] = i

LEMMA GoodCarried ==
  ASSUME NEW ms \in Seq(Msg), NEW ns \in Seq(Msg), NEW h, NEW D, Carries(ms, ns, h), Answers(ms, ns, h),
         Good(ms, D)
  PROVE  Good(ns, D)
<1>0. Len(ns) \in Nat /\ Len(ms) \in Nat
  OBVIOUS
<1>1. PICK n, l : n = Len(ns) /\ n \in Nat /\ l = Len(ms) /\ l \in Nat
  BY <1>0
<1>2. \A j \in 1..n : h[j] \in 0..l
  BY <1>1 DEF Carries
<1>3. ASSUME NEW j \in 1..n, NEW c \in ns[j].calls
      PROVE  c \in D \/ \E k \in j+1..n : ns[k].role = "tool" /\ ns[k].of = c
  <2>1. h[j] # 0 /\ h[j] \in 1..l /\ c \in ms[h[j]].calls
    BY <1>1, <1>2, <1>3 DEF Carries
  <2>2. CASE c \in D
    BY <2>2
  <2>3. CASE c \notin D
    <3>1. PICK i \in h[j]+1..l : ms[i].role = "tool" /\ ms[i].of = c
      BY <1>1, <2>1, <2>3 DEF Good
    <3>2. PICK k \in 1..n : h[k] = i
      BY <1>1, <1>3, <2>1, <3>1 DEF Answers
    <3>3. h[k] # 0 /\ h[k] > h[j]
      BY <1>1, <2>1, <3>1, <3>2
    <3>4. k > j
      <4>1. ~(k < j)
        BY <1>1, <2>1, <3>3, <1>2 DEF Carries
      <4> QED BY <1>1, <3>3, <4>1, <1>2
    <3>5. ns[k].role = "tool" /\ ns[k].of = c
      BY <1>1, <3>1, <3>2, <3>3 DEF Carries
    <3> QED BY <1>1, <3>4, <3>5
  <2> QED BY <2>2, <2>3
<1>4. ns[1].calls = {}
  <2>1. 1 \in 1..n /\ h[1] = 1 /\ ms # <<>>
    <3>1. ns # <<>> /\ h[1] = 1
      BY DEF Carries
    <3>2. 1 \in 1..n
      BY <1>1, <3>1
    <3>3. 1 \in 0..l
      BY <1>2, <3>1, <3>2
    <3> QED BY <1>1, <3>1, <3>2, <3>3
  <2>2. ms[1].calls = {}
    BY <2>1 DEF Good
  <2> QED BY <1>1, <2>1, <2>2 DEF Carries
<1> QED BY <1>1, <1>3, <1>4 DEF Good

LEMMA ApartCarried ==
  ASSUME NEW ms \in Seq(Msg), NEW ns \in Seq(Msg), NEW h, NEW F, NEW n \in Nat, NEW o \in Nat, NEW k \in Nat,
         Carries(ms, ns, h), Apart(ms, F, n, k), n <= o,
         \A i, j \in 1..Len(ns) : h[i] = 0 /\ h[j] = 0 => i = j,
         \A i \in 1..Len(ns) : h[i] = 0 => ns[i].id = n + 1 /\ o = n + 1
  PROVE  Apart(ns, F, o, k)
<1>0. Len(ns) \in Nat /\ Len(ms) \in Nat
  OBVIOUS
<1>1. PICK l, m : l = Len(ns) /\ l \in Nat /\ m = Len(ms) /\ m \in Nat
  BY <1>0
<1>2. \A j \in 1..l : h[j] \in 0..m
  BY <1>1 DEF Carries
<1>9. \A i \in 1..m : ms[i] \in Msg /\ ms[i].id <= n
  BY <1>1 DEF Apart
<1>3. \A i \in 1..m : ms[i].id \in Nat /\ ms[i].id <= n
  BY <1>9 DEF Msg
<1>4. ASSUME NEW i \in 1..l, NEW j \in 1..l, i # j
      PROVE  ns[i].id # ns[j].id /\ ns[i].calls \cap ns[j].calls = {}
  <2>1. CASE h[i] = 0
    <3>1. h[j] # 0 /\ h[j] \in 1..m
      BY <1>1, <1>2, <1>4, <2>1
    <3>2. ns[j].id = ms[h[j]].id /\ ns[i].calls = {} /\ ns[i].id = n + 1
      BY <1>1, <2>1, <3>1 DEF Carries
    <3> QED BY <1>3, <3>1, <3>2
  <2>2. CASE h[j] = 0
    <3>1. h[i] # 0 /\ h[i] \in 1..m
      BY <1>1, <1>2, <1>4, <2>2
    <3>2. ns[i].id = ms[h[i]].id /\ ns[j].calls = {} /\ ns[j].id = n + 1
      BY <1>1, <2>2, <3>1 DEF Carries
    <3> QED BY <1>3, <3>1, <3>2
  <2>3. CASE h[i] # 0 /\ h[j] # 0
    <3>1. h[i] \in 1..m /\ h[j] \in 1..m
      BY <1>2, <2>3
    <3>2. h[i] # h[j]
      <4>1. i < j \/ j < i
        BY <1>1, <1>4
      <4>2. CASE i < j
        <5>1. h[i] < h[j]
          BY <1>1, <2>3, <4>2 DEF Carries
        <5> QED BY <3>1, <5>1
      <4>3. CASE j < i
        <5>1. h[j] < h[i]
          BY <1>1, <2>3, <4>3 DEF Carries
        <5> QED BY <3>1, <5>1
      <4> QED BY <4>1, <4>2, <4>3
    <3>3. ms[h[i]].id # ms[h[j]].id /\ ms[h[i]].calls \cap ms[h[j]].calls = {}
      BY <1>1, <3>1, <3>2 DEF Apart
    <3>4. /\ ns[i].id = ms[h[i]].id /\ ns[i].calls \in {ms[h[i]].calls, {}}
          /\ ns[j].id = ms[h[j]].id /\ ns[j].calls \in {ms[h[j]].calls, {}}
      BY <1>1, <2>3 DEF Carries
    <3> QED BY <3>3, <3>4
  <2> QED BY <2>1, <2>2, <2>3
<1>5. ASSUME NEW i \in 1..l
      PROVE  /\ ns[i].id <= o /\ (ns[i].role = "tool" => ns[i].calls = {} /\ i # 1)
             /\ \A c \in ns[i].calls : c <= k /\ c \notin F
  <2>1. CASE h[i] = 0
    BY <1>1, <2>1 DEF Carries
  <2>2. CASE h[i] # 0
    <3>1. h[i] \in 1..m /\ h[1] = 1
      BY <1>2, <2>2 DEF Carries
    <3>2. /\ ns[i].id = ms[h[i]].id /\ ns[i].role = ms[h[i]].role /\ ns[i].calls \in {ms[h[i]].calls, {}}
      BY <1>1, <2>2 DEF Carries
    <3>3. /\ ms[h[i]].role = "tool" => ms[h[i]].calls = {} /\ h[i] # 1
          /\ \A c \in ms[h[i]].calls : c <= k /\ c \notin F
      BY <1>1, <3>1 DEF Apart
    <3> QED BY <1>3, <3>1, <3>2, <3>3
  <2> QED BY <2>1, <2>2
<1> QED BY <1>1, <1>4, <1>5 DEF Apart

\* The same messages, some of them without their calls.
LEMMA SameGood ==
  ASSUME NEW ms \in Seq(Msg), NEW ns \in Seq(Msg), Len(ns) = Len(ms),
         \A i \in 1..Len(ms) : /\ ns[i].id = ms[i].id /\ ns[i].role = ms[i].role /\ ns[i].of = ms[i].of
                               /\ ns[i].calls \in {ms[i].calls, {}}
  PROVE  /\ ms # << >> => ns # << >>
         /\ \A D : Good(ms, D) => Good(ns, D)
         /\ \A F : \A n \in Nat : \A o \in Nat : \A k \in Nat :
              Apart(ms, F, n, k) /\ n <= o => Apart(ns, F, o, k)
<1>1. CASE ms = <<>>
  <2>1. Len(ms) = 0 /\ ns = <<>>
    BY <1>1
  <2> QED BY <1>1, <2>1 DEF Good, Apart
<1>2. CASE ms # <<>>
  <2>1. PICK n : n = Len(ms) /\ n \in Nat /\ n # 0 /\ ns # <<>>
    BY <1>2
  <2>2. PICK h : h = [i \in 1..n |-> i]
    OBVIOUS
  <2>3. h \in [1..Len(ns) -> 0..Len(ms)] /\ h[1] = 1 /\ \A i \in 1..n : h[i] = i /\ h[i] # 0
    BY <2>1, <2>2
  <2>4. Carries(ms, ns, h)
    BY <2>1, <2>3 DEF Carries
  <2>5. Answers(ms, ns, h)
    BY <2>1, <2>3 DEF Answers
  <2>6. \A D : Good(ms, D) => Good(ns, D)
    BY <2>4, <2>5, GoodCarried
  <2>7. ASSUME NEW F, NEW k \in Nat, NEW o \in Nat, NEW l \in Nat, Apart(ms, F, k, l), k <= o
        PROVE  Apart(ns, F, o, l)
    BY <2>1, <2>3, <2>4, <2>7, ApartCarried
  <2> QED BY <2>1, <2>6, <2>7
<1> QED BY <1>1, <1>2

LEMMA ElidedSame ==
  ASSUME NEW ms \in Seq(Msg), NEW is
  PROVE  \A i \in 1..Len(ms) : /\ Elided(ms, is)[i].id = ms[i].id /\ Elided(ms, is)[i].role = ms[i].role
                               /\ Elided(ms, is)[i].of = ms[i].of
                               /\ Elided(ms, is)[i].calls \in {ms[i].calls, {}}
<1>1. ASSUME NEW m \in Msg
      PROVE  /\ [m EXCEPT !.elided = TRUE].id = m.id /\ [m EXCEPT !.elided = TRUE].role = m.role
             /\ [m EXCEPT !.elided = TRUE].of = m.of /\ [m EXCEPT !.elided = TRUE].calls = m.calls
  BY DEF Msg
<1>2. \A i \in 1..Len(ms) : ms[i] \in Msg
  OBVIOUS
<1>3. \A i \in 1..Len(ms) : Elided(ms, is)[i] = IF i \in is THEN [ms[i] EXCEPT !.elided = TRUE] ELSE ms[i]
  BY DEF Elided
<1> QED BY <1>1, <1>2, <1>3

\* A summary: the first message and the last ones stay.
LEMMA SummarizedKeeps ==
  ASSUME NEW ms \in Seq(Msg), NEW s \in Msg, Len(ms) > SummaryTail + 1, s.calls = {}, s.role # "tool"
  PROVE  /\ Summarized(ms, s) # << >>
         /\ \A D : Good(ms, D) => Good(Summarized(ms, s), D)
         /\ \A F : \A n \in Nat : \A k \in Nat :
              Apart(ms, F, n, k) /\ s.id = n + 1 => Apart(Summarized(ms, s), F, n + 1, k)
<1>1. SummaryTail \in Nat
  BY TurnConstants
<1>2. PICK l \in Nat : l = Len(ms)
  OBVIOUS
<1>3. PICK t \in Nat : t = SummaryTail
  BY <1>1
<1>4. l > t + 1
  BY <1>2, <1>3
<1>5. PICK ns : ns = Summarized(ms, s)
  OBVIOUS
<1>6. PICK b : b = SubSeq(ms, l - t + 1, l)
  OBVIOUS
<1>7. b \in Seq(Msg) /\ Len(b) = t /\ \A i \in 1..t : b[i] = ms[l - t + i]
  BY <1>2, <1>4, <1>6
<1>8. ns = <<ms[1], s>> \o b
  BY <1>2, <1>3, <1>5, <1>6 DEF Summarized
<1>9. ms[1] \in Msg
  BY <1>2, <1>4
<1>10. PICK c : c = <<ms[1], s>> /\ c \in Seq(Msg) /\ Len(c) = 2 /\ c[1] = ms[1] /\ c[2] = s
  <2>1. <<ms[1], s>> \in Seq(Msg) /\ Len(<<ms[1], s>>) = 2
        /\ <<ms[1], s>>[1] = ms[1] /\ <<ms[1], s>>[2] = s
    BY <1>9
  <2> QED BY <2>1
<1>11. /\ ns \in Seq(Msg) /\ Len(ns) = t + 2 /\ ns[1] = ms[1] /\ ns[2] = s
       /\ \A i \in 1..t : ns[2 + i] = ms[l - t + i]
  <2>1. ns = c \o b
    BY <1>8, <1>10
  <2>2. ns \in Seq(Msg) /\ Len(ns) = t + 2 /\ ns[1] = c[1] /\ ns[2] = c[2]
        /\ \A i \in 1..t : ns[2 + i] = b[i]
    BY <1>7, <1>10, <2>1
  <2> QED BY <1>7, <1>10, <2>2
<1>12. \A j \in 1..t + 2 : j = 1 \/ j = 2 \/ (j - 2 \in 1..t /\ ns[j] = ms[l - t + (j - 2)])
  <2>1. TAKE j \in 1..t + 2
  <2>2. CASE j > 2
    <3>1. j - 2 \in 1..t /\ 2 + (j - 2) = j
      BY <2>2
    <3> QED BY <1>11, <3>1
  <2> QED BY <2>2
<1>13. PICK h : h = [j \in 1..t + 2 |-> IF j = 1 THEN 1 ELSE IF j = 2 THEN 0 ELSE l - t + (j - 2)]
  OBVIOUS
<1>14. /\ h \in [1..t + 2 -> 0..l] /\ h[1] = 1 /\ h[2] = 0
       /\ \A j \in 1..t + 2 : j > 2 => h[j] = l - t + (j - 2) /\ h[j] # 0 /\ h[j] > 1
  BY <1>4, <1>13
<1>15. Carries(ms, ns, h)
  <2>1. \A i, j \in 1..t + 2 : i < j /\ h[i] # 0 /\ h[j] # 0 => h[i] < h[j]
    BY <1>4, <1>14
  <2>2. ASSUME NEW j \in 1..t + 2
        PROVE  IF h[j] = 0 THEN ns[j].calls = {} /\ ns[j].role # "tool"
               ELSE /\ ns[j].id = ms[h[j]].id /\ ns[j].role = ms[h[j]].role
                    /\ ns[j].of = ms[h[j]].of /\ ns[j].calls \in {ms[h[j]].calls, {}}
    <3>1. CASE j = 1
      BY <1>11, <1>14, <3>1
    <3>2. CASE j = 2
      BY <1>11, <1>14, <3>2
    <3>3. CASE j > 2
      <4>1. h[j] # 0 /\ ns[j] = ms[h[j]]
        BY <1>12, <1>14, <3>3
      <4> QED BY <4>1
    <3> QED BY <3>1, <3>2, <3>3
  <2>3. ns # <<>>
    BY <1>11
  <2> QED BY <1>2, <1>11, <1>14, <2>1, <2>2, <2>3 DEF Carries
<1>16. ASSUME NEW D, Good(ms, D) PROVE Good(ns, D)
  <2>1. Answers(ms, ns, h)
    <3>1. ASSUME NEW j \in 1..t + 2, h[j] # 0, NEW d \in ns[j].calls, NEW i \in h[j]+1..l
          PROVE  \E k \in 1..t + 2 : h[k] = i
      <4>1. CASE j = 1
        <5>1. ms # <<>>
          BY <1>2, <1>4
        <5> QED BY <1>11, <1>16, <3>1, <4>1, <5>1 DEF Good
      <4>2. CASE j > 2
        <5>1. PICK k : k = i - (l - t) + 2
          OBVIOUS
        <5>2. h[j] = l - t + (j - 2)
          BY <1>14, <4>2
        <5>3. k \in 1..t + 2 /\ k > 2 /\ l - t + (k - 2) = i
          BY <1>4, <3>1, <4>2, <5>1, <5>2, SMTT(20)
        <5> QED BY <1>14, <5>3
      <4> QED BY <1>14, <3>1, <4>1, <4>2
    <3> QED BY <1>2, <1>11, <3>1 DEF Answers
  <2> QED BY <1>11, <1>15, <1>16, <2>1, GoodCarried
<1>17. ASSUME NEW F, NEW n \in Nat, NEW k \in Nat, Apart(ms, F, n, k), s.id = n + 1
       PROVE  Apart(ns, F, n + 1, k)
  <2>1. \A i \in 1..Len(ns) : h[i] = 0 => i = 2
    BY <1>11, <1>14
  <2>2. PICK o \in Nat : o = n + 1
    OBVIOUS
  <2>3. Apart(ns, F, o, k)
    <3>1. /\ ns \in Seq(Msg) /\ n <= o /\ Carries(ms, ns, h) /\ Apart(ms, F, n, k)
          /\ \A i, j \in 1..Len(ns) : h[i] = 0 /\ h[j] = 0 => i = j
      BY <1>11, <1>15, <1>17, <2>1, <2>2
    <3>2. \A i \in 1..Len(ns) : h[i] = 0 => ns[i].id = n + 1 /\ o = n + 1
      BY <1>11, <1>17, <2>1, <2>2
    <3> QED BY <3>1, <3>2, ApartCarried, SMTT(20)
  <2> QED BY <2>2, <2>3
<1> QED BY <1>5, <1>11, <1>16, <1>17

\* The repair of a malformed call: a message goes with the results of its calls.
Repaired(ms, left, kept, M, h) ==
  /\ \A i \in 1..Len(ms) : i # M => left[i] = ms[i]
  /\ left[M].id = ms[M].id /\ left[M].role = ms[M].role /\ left[M].of = ms[M].of /\ left[M].calls = {}
  /\ h \in [1..Len(kept) -> 1..Len(ms)]
  /\ \A i, j \in 1..Len(kept) : i < j => h[i] < h[j]
  /\ \A j \in 1..Len(kept) : kept[j] = left[h[j]]
  /\ \A i \in 1..Len(ms) :
       (\E j \in 1..Len(kept) : h[j] = i) \/ i = M \/ (ms[i].role = "tool" /\ ms[i].of \in ms[M].calls)

LEMMA RepairedKeeps ==
  ASSUME NEW ms \in Seq(Msg), NEW left, NEW kept \in Seq(Msg), NEW M \in 1..Len(ms), NEW h,
         Repaired(ms, left, kept, M, h), ms[M].calls # {},
         NEW D, Good(ms, D), NEW F, NEW n \in Nat, NEW k \in Nat, Apart(ms, F, n, k)
  PROVE  Good(kept, D) /\ Apart(kept, F, n, k) /\ kept # << >>
<1>1. PICK l \in Nat : l = Len(ms)
  OBVIOUS
<1>2. PICK t \in Nat : t = Len(kept)
  OBVIOUS
<1>3. M # 1
  <2>1. ms # <<>>
    BY <1>1
  <2> QED BY <2>1 DEF Good
<1>4. t # 0 /\ h[1] = 1
  <2>1. 1 \in 1..l
    BY <1>1
  <2>2. ms[1].role # "tool"
    BY <1>1, <2>1 DEF Apart
  <2>3. PICK j \in 1..t : h[j] = 1
    BY <1>1, <1>2, <1>3, <2>1, <2>2 DEF Repaired
  <2>4. CASE j = 1
    BY <1>2, <2>3, <2>4
  <2>5. CASE j # 1
    <3>1. 1 \in 1..t /\ 1 < j
      BY <1>2, <2>5
    <3>2. h[1] < h[j] /\ h[1] \in 1..l
      BY <1>1, <1>2, <3>1 DEF Repaired
    <3> QED BY <1>1, <2>3, <3>2
  <2> QED BY <2>4, <2>5
<1>5. kept # <<>>
  BY <1>2, <1>4
<1>6. \A j \in 1..t : h[j] \in 1..l /\ kept[j] = left[h[j]]
  BY <1>1, <1>2 DEF Repaired
<1>7. \A j \in 1..t : IF h[j] = M THEN kept[j].calls = {} ELSE kept[j].calls = ms[h[j]].calls
  BY <1>1, <1>6 DEF Repaired
<1>8. Carries(ms, kept, h)
  <2>1. h \in [1..t -> 0..l]
    <3>1. h \in [1..t -> 1..l]
      BY <1>1, <1>2 DEF Repaired
    <3> QED BY <1>1, <3>1
  <2>2. \A j \in 1..t : /\ h[j] # 0 /\ kept[j].id = ms[h[j]].id /\ kept[j].role = ms[h[j]].role
                        /\ kept[j].of = ms[h[j]].of /\ kept[j].calls \in {ms[h[j]].calls, {}}
    <3>1. TAKE j \in 1..t
    <3>2. h[j] \in 1..l /\ h[j] # 0 /\ kept[j] = left[h[j]]
      BY <1>6
    <3>3. CASE h[j] = M
      BY <3>2, <3>3 DEF Repaired
    <3>4. CASE h[j] # M
      BY <1>1, <3>2, <3>4 DEF Repaired
    <3> QED BY <3>3, <3>4
  <2>3. \A i, j \in 1..t : i < j => h[i] < h[j]
    BY <1>2 DEF Repaired
  <2> QED BY <1>1, <1>2, <1>4, <1>5, <2>1, <2>2, <2>3 DEF Carries
<1>9. Answers(ms, kept, h)
  <2>1. ASSUME NEW j \in 1..t, NEW c \in kept[j].calls, NEW i \in h[j]+1..l, ms[i].role = "tool", ms[i].of = c
        PROVE  \E q \in 1..t : h[q] = i
    <3>1. h[j] \in 1..l /\ i \in 1..l /\ h[j] # M /\ c \in ms[h[j]].calls
      BY <1>1, <1>6, <1>7, <2>1
    <3>2. c \notin ms[M].calls
      BY <1>1, <3>1 DEF Apart
    <3>3. i # M
      BY <1>1, <2>1 DEF Apart
    <3> QED BY <1>1, <1>2, <2>1, <3>1, <3>2, <3>3 DEF Repaired
  <2> QED BY <1>1, <1>2, <2>1 DEF Answers
<1>10. Good(kept, D)
  BY <1>8, <1>9, GoodCarried
<1>11. \A i \in 1..Len(kept) : h[i] # 0
  BY <1>1, <1>2, <1>6
<1>12. Apart(kept, F, n, k)
  BY <1>8, <1>11, ApartCarried
<1> QED BY <1>5, <1>10, <1>12

LEMMA MalformedCalls ==
  ASSUME BoxInv, Malformed # 0
  PROVE  Malformed \in 1..Len(msgs) /\ msgs[Malformed].calls # {}
<1> DEFINE T == {0} \cup {i \in 1..Len(msgs) : msgs[i].bad /\ msgs[i].calls # {}}
<1>1. Len(msgs) \in Nat
  BY DEF BoxInv
<1>2. T \subseteq Nat /\ T # {} /\ \A x \in T : x <= Len(msgs)
  BY <1>1
<1> HIDE DEF T
<1>3. Max(T) \in T
  BY <1>1, <1>2, GreatestOf
<1>4. Malformed = Max(T)
  BY DEF Malformed, T
<1> QED BY <1>3, <1>4 DEF T

\* What Repair puts back.
LEMMA RepairIs ==
  ASSUME BoxInv, Malformed # 0, NEW r \in Runs, Repair(r),
         \A i, j \in 1..Len(msgs) : msgs[i].id = msgs[j].id => i = j
  PROVE  \E left, kept, h, post :
           /\ kept \in Seq(Msg) /\ Repaired(msgs, left, kept, Malformed, h)
           /\ Write(Goroutine(r), <<>>, <<>>, <<kept>>, post) /\ UNCHANGED msgs
<1> DEFINE M == Malformed
           bad  == msgs[M]
           gone == {m \in Range(msgs) : (m = bad /\ m.empty) \/ (m.role = "tool" /\ m.of \in bad.calls)}
           left == [msgs EXCEPT ![M].calls = {}]
           S == {m \in Range(left) : m.id \notin {x.id : x \in gone}}
           kept == KeepIn(left, S)
           seq  == KeepIn(msgs, gone)
           post == (IF bad.empty THEN <<>> ELSE Updates(msgs, {M}, "tool_calls"))
                   \o [k \in 1..Len(seq) |-> [t |-> "removed", run |-> r, id |-> seq[k].id]]
                   \o <<[t |-> "retry", run |-> r]>>
<1>1. M \in 1..Len(msgs) /\ msgs \in Seq(Msg)
  BY MalformedIs DEF BoxInv
<1>2. Write(Goroutine(r), <<>>, <<>>, <<kept>>, post) /\ UNCHANGED msgs
  BY Zenon DEF Repair
<1> HIDE DEF post
<1>3. PICK x : x = [msgs[M] EXCEPT !.calls = {}]
  OBVIOUS
<1>4. x \in Msg /\ x.id = bad.id /\ x.role = bad.role /\ x.of = bad.of /\ x.calls = {}
  <2>1. msgs[M] \in Msg
    BY <1>1
  <2> QED BY <1>3, <2>1 DEF Msg
<1>5. left = [msgs EXCEPT ![M] = x]
  BY <1>1, <1>3
<1> HIDE DEF left, M
<1>6. left \in Seq(Msg) /\ Len(left) = Len(msgs) /\ left[M] = x
      /\ \A i \in 1..Len(msgs) : i # M => left[i] = msgs[i]
  BY <1>1, <1>4, <1>5
<1> HIDE DEF S
<1>7. kept \in Seq(Msg) /\ \E h : Places(kept, left, S, Len(left), h)
  BY <1>6, KeepPlaces
<1> HIDE DEF kept
<1>8. PICK h : Places(kept, left, S, Len(left), h)
  BY <1>7
<1>9. ASSUME NEW i \in 1..Len(msgs), i # M, ~(msgs[i].role = "tool" /\ msgs[i].of \in bad.calls)
      PROVE  left[i] \in S
  <2>1. left[i] = msgs[i] /\ left[i] \in Range(left)
    BY <1>6, <1>9 DEF Range
  <2>2. ASSUME NEW m \in gone PROVE msgs[i].id # m.id
    <3>1. PICK j \in 1..Len(msgs) : m = msgs[j]
      BY <2>2 DEF Range
    <3>2. CASE m = bad
      BY <1>1, <1>9, <3>2
    <3>3. CASE m.role = "tool" /\ m.of \in bad.calls
      <4>1. i # j
        BY <1>9, <3>1, <3>3
      <4> QED BY <3>1, <4>1
    <3> QED BY <2>2, <3>2, <3>3
  <2> QED BY <2>1, <2>2 DEF S
<1>10. Repaired(msgs, left, kept, M, h)
  BY <1>4, <1>6, <1>8, <1>9 DEF Repaired, Places
<1> QED BY <1>2, <1>7, <1>10 DEF M

\* A step after which no result is due that was not before, and no call is forgotten.
Forth ==
  /\ Due \subseteq Due'
  /\ \A c \in Fresh' : c \in Fresh \/ (c \in Nat /\ c > calls)
  /\ ids \in Nat /\ ids' \in Nat /\ ids <= ids' /\ calls \in Nat /\ calls' \in Nat /\ calls <= calls'
  /\ crash' = "none" => crash = "none"
Onward == Forth /\ (AtWork' => AtWork)
Undone == (crash' # "cut" => crash # "cut") /\ (forced' = {} => forced = {})
Whole == ~raced /\ crash # "cut" /\ forced = {}

LEMMA KeptOnward ==
  ASSUME Onward, NEW ms \in Seq(Msg), Kept(ms)
  PROVE  KeptAt(ms, Due', Fresh', ids', calls', crash' = "none", AtWork')
<1>1. Good(ms, Due')
  BY Later DEF Onward, Forth, Kept, KeptAt
<1>2. ASSUME crash' = "none" PROVE Apart(ms, Fresh', ids', calls')
  <2>1. Apart(ms, Fresh, ids, calls)
    BY <1>2 DEF Onward, Forth, Kept, KeptAt
  <2> QED BY <2>1, ApartLater DEF Onward, Forth
<1>3. AtWork' => ms # <<>>
  BY DEF Onward, Forth, Kept, KeptAt
<1> QED BY <1>1, <1>2, <1>3 DEF KeptAt

LEMMA InstalledIs ==
  ASSUME BoxInv
  PROVE  /\ \A a \in Writers : Installed(a) \in Seq(Msg)
         /\ \A a \in Writers : w[a].app = << >> /\ w[a].repl = << >> => Installed(a) = msgs
<1>1. ASSUME NEW a \in Writers
      PROVE  Installed(a) \in Seq(Msg) /\ (w[a].app = << >> /\ w[a].repl = << >> => Installed(a) = msgs)
  <2>1. w[a].app \in Seq(Msg) /\ w[a].repl \in Seq(Seq(Msg)) /\ msgs \in Seq(Msg)
    <3>1. w[a] \in Box(a)
      BY DEF BoxInv
    <3> QED BY <3>1 DEF Box, BoxInv
  <2>2. w[a].repl # <<>> => w[a].repl[1] \in Seq(Msg)
    BY <2>1
  <2>3. msgs \o w[a].app \in Seq(Msg) /\ msgs \o << >> = msgs
    BY <2>1
  <2> QED BY <2>2, <2>3 DEF Installed
<1> QED BY <1>1

\* Nobody writes.
LEMMA UntouchedPairs ==
  ASSUME PairInv, BoxInv, Onward, Undone, \A c \in Fresh' : c <= calls', UNCHANGED <<msgs, w, raced>>
  PROVE  PairInv'
<1>1. ~raced' => \A a, b \in Writers : Busy(a)' /\ Busy(b)' => a = b
  BY DEF PairInv, Busy
<1>2. ASSUME Whole' PROVE Kept(msgs)' /\ \A a \in Writers : Kept(Installed(a))'
  <2>1. Kept(msgs) /\ \A a \in Writers : Kept(Installed(a))
    BY <1>2 DEF PairInv, Whole, Undone
  <2>2. KeptAt(msgs, Due', Fresh', ids', calls', crash' = "none", AtWork')
    BY <2>1, KeptOnward DEF BoxInv
  <2>3. ASSUME NEW a \in Writers
        PROVE  KeptAt(Installed(a), Due', Fresh', ids', calls', crash' = "none", AtWork')
    BY <2>1, InstalledIs, KeptOnward
  <2>4. \A a \in Writers : Installed(a)' = Installed(a)
    BY DEF Installed
  <2> QED BY <2>2, <2>3, <2>4 DEF Kept
<1> QED BY <1>1, <1>2 DEF PairInv, Whole

\* One writer writes, and no other is at work.
LEMMA WrittenPairs ==
  ASSUME PairInv, BoxInv, BoxInv', Undone, \A c \in Fresh' : c <= calls', NEW a \in Writers,
         NEW pre, NEW app, NEW repl, NEW post, Write(a, pre, app, repl, post),
         Whole' /\ Whole /\ Kept(msgs) => Kept(msgs)' /\ Kept(IF repl # << >> THEN repl[1] ELSE msgs \o app)'
  PROVE  PairInv'
<1>1. PICK x : x = [pre |-> pre, app |-> app, repl |-> repl, post |-> post]
  OBVIOUS
<1>2. w' = [w EXCEPT ![a] = x] /\ raced' = (raced \/ \E b \in Writers \ {a} : Busy(b))
  BY <1>1 DEF Write
<1>3. w'[a].app = app /\ w'[a].repl = repl /\ \A b \in Writers \ {a} : w'[b] = w[b]
  BY <1>1, <1>2 DEF BoxInv
<1>4. ASSUME ~raced' PROVE \A b \in Writers \ {a} : w'[b] = Quiet
  BY <1>2, <1>3, <1>4 DEF Busy
<1>5. ~raced' => \A b, c \in Writers : Busy(b)' /\ Busy(c)' => b = c
  BY <1>4 DEF Busy
<1>6. ASSUME Whole' PROVE Kept(msgs)' /\ \A b \in Writers : Kept(Installed(b))'
  <2>1. Whole /\ ~raced'
    BY <1>2, <1>6 DEF Whole, Undone
  <2>2. Kept(msgs)
    BY <2>1 DEF PairInv, Whole
  <2>3. Kept(msgs)' /\ Kept(IF repl # << >> THEN repl[1] ELSE msgs \o app)'
    BY <1>6, <2>1, <2>2
  <2>4. Kept(Installed(a))'
    <3>1. Installed(a)' = IF repl # << >> THEN repl[1] ELSE msgs' \o app
      BY <1>3 DEF Installed
    <3> QED BY <2>3, <3>1 DEF Kept
  <2>5. ASSUME NEW b \in Writers \ {a} PROVE Kept(Installed(b))'
    <3>1. w'[b].app = << >> /\ w'[b].repl = << >>
      BY <1>4, <2>1, QuietIs
    <3>2. Installed(b)' = msgs'
      <4>1. msgs' \in Seq(Msg) /\ msgs' \o << >> = msgs'
        BY DEF BoxInv
      <4> QED BY <3>1, <4>1 DEF Installed
    <3> QED BY <2>3, <3>2 DEF Kept
  <2> QED BY <2>3, <2>4, <2>5
<1> QED BY <1>5, <1>6 DEF PairInv, Whole

\* A writer publishes.
LEMMA PublishedPairs ==
  ASSUME PairInv, BoxInv, BoxInv', Onward, Undone, \A c \in Fresh' : c <= calls', NEW a \in Writers,
         NEW pre, Write(a, pre, << >>, << >>, << >>), UNCHANGED msgs
  PROVE  PairInv'
<1>1. ASSUME Whole', Whole, Kept(msgs)
      PROVE  Kept(msgs)' /\ Kept(IF << >> # << >> THEN << >>[1] ELSE msgs \o << >>)'
  <2>1. KeptAt(msgs, Due', Fresh', ids', calls', crash' = "none", AtWork')
    BY <1>1, KeptOnward DEF BoxInv
  <2>2. msgs' \o << >> = msgs' /\ msgs' = msgs
    BY DEF BoxInv
  <2> QED BY <2>1, <2>2 DEF Kept
<1> QED BY <1>1, WrittenPairs

\* What a message without calls leaves kept.
LEMMA AppendKept ==
  ASSUME Forth, \A c \in Fresh : c <= calls, NEW ms \in Seq(Msg), NEW m \in Msg, Kept(ms),
         m.calls = {}, m.role # "tool", m.id = ids + 1, ids' = ids + 1
  PROVE  KeptAt(Append(ms, m), Due', Fresh', ids', calls', crash' = "none", AtWork')
<1>1. Good(Append(ms, m), Due') /\ Append(ms, m) # <<>>
  BY GoodAppend DEF Forth, Kept, KeptAt
<1>2. ASSUME crash' = "none" PROVE Apart(Append(ms, m), Fresh', ids', calls')
  <2>1. Apart(ms, Fresh, ids, calls)
    BY <1>2 DEF Forth, Kept, KeptAt
  <2>2. ids \in Nat /\ calls \in Nat /\ calls' \in Nat /\ calls <= calls' /\ ids + 1 \in Nat /\ ids' <= ids'
    BY DEF Forth
  <2>3. Apart(Append(ms, m), Fresh, ids + 1, calls)
    BY <2>1, <2>2, ApartAppend
  <2>4. Append(ms, m) \in Seq(Msg)
    OBVIOUS
  <2>5. PICK s : s = Append(ms, m)
    OBVIOUS
  <2>6. PICK n \in Nat : n = ids + 1 /\ n = ids'
    BY <2>2
  <2>8. Apart(s, Fresh, n, calls) /\ s \in Seq(Msg)
    BY <2>3, <2>4, <2>5, <2>6
  <2>9. \A c \in Fresh' : c \in Fresh \/ (c \in Nat /\ c > calls)
    BY DEF Forth
  <2>10. n <= n
    BY <2>6
  <2>11. Apart(s, Fresh', n, calls')
    BY <2>2, <2>8, <2>9, <2>10, ApartLater
  <2>7. Apart(s, Fresh', ids', calls')
    BY <2>6, <2>11
  <2> QED BY <2>5, <2>7
<1> QED BY <1>1, <1>2 DEF KeptAt

\* A writer appends a message.
LEMMA MessagePairs ==
  ASSUME PairInv, BoxInv, BoxInv', Onward, Undone, \A c \in Fresh' : c <= calls', NEW a \in Writers,
         NEW m, WriteMessage(a, m), m.calls = {}, m.role # "tool", m.id = ids + 1, ids' = ids + 1
  PROVE  PairInv'
<1>1. msgs' = Append(msgs, m) /\ msgs \in Seq(Msg) /\ msgs' \in Seq(Msg)
  BY DEF WriteMessage, BoxInv
<1>2. m \in Msg
  <2>1. Len(msgs') = Len(msgs) + 1 /\ msgs'[Len(msgs) + 1] = m /\ Len(msgs) \in Nat
    BY <1>1
  <2>2. Len(msgs) + 1 \in 1..Len(msgs')
    BY <2>1
  <2> QED BY <1>1, <2>1, <2>2
<1>3. ASSUME Whole', Whole, Kept(msgs)
      PROVE  Kept(msgs)' /\ Kept(IF << >> # << >> THEN << >>[1] ELSE msgs \o << >>)'
  <2>1. KeptAt(msgs', Due', Fresh', ids', calls', crash' = "none", AtWork')
    BY <1>1, <1>2, <1>3, AppendKept DEF Onward, PairInv
  <2>2. msgs' \o << >> = msgs'
    BY <1>1
  <2> QED BY <2>1, <2>2 DEF Kept
<1> QED BY <1>3, WrittenPairs DEF WriteMessage

\* An abort record is written, or was before.
LEMMA RecordPairs ==
  ASSUME PairInv, BoxInv, BoxInv', Onward, Undone, \A c \in Fresh' : c <= calls', NEW a \in Writers,
         NEW r \in Runs, RecordAbort(r, a), UNCHANGED msgs
  PROVE  PairInv'
<1>1. CASE r \in recorded
  BY <1>1, UntouchedPairs DEF RecordAbort
<1>2. CASE r \notin recorded
  <2>1. PICK m : m = Message(ids + 1, "system", run[r].turn)
    OBVIOUS
  <2>2. ids' = ids + 1 /\ Write(a, <<[t |-> "aborted", run |-> r]>>, <<m>>, <<>>, <<Appended(m)>>)
    BY <1>2, <2>1 DEF RecordAbort
  <2>3. m.calls = {} /\ m.role # "tool" /\ m.id = ids + 1
    BY <2>1 DEF Message
  <2>4. m \in Msg
    <3>1. w' = [w EXCEPT ![a] = [pre |-> <<[t |-> "aborted", run |-> r]>>, app |-> <<m>>, repl |-> <<>>,
                                 post |-> <<Appended(m)>>]]
      BY <2>2 DEF Write
    <3>2. w'[a].app = <<m>>
      BY <3>1 DEF BoxInv
    <3>3. w'[a] \in Box(a)
      BY DEF BoxInv
    <3>4. <<m>> \in Seq(Msg)
      BY <3>2, <3>3 DEF Box
    <3> QED BY <3>4
  <2>5. ASSUME Whole', Whole, Kept(msgs)
        PROVE  Kept(msgs)' /\ Kept(IF << >> # << >> THEN << >>[1] ELSE msgs \o <<m>>)'
    <3>1. KeptAt(Append(msgs, m), Due', Fresh', ids', calls', crash' = "none", AtWork')
      BY <2>2, <2>3, <2>4, <2>5, AppendKept DEF Onward, PairInv, BoxInv
    <3>2. KeptAt(msgs, Due', Fresh', ids', calls', crash' = "none", AtWork')
      BY <2>5, KeptOnward DEF BoxInv
    <3>3. msgs' = msgs /\ msgs' \o <<m>> = Append(msgs, m)
      BY <2>4, AppendIs DEF BoxInv
    <3> QED BY <3>1, <3>2, <3>3 DEF Kept
  <2> QED BY <2>2, <2>5, WrittenPairs
<1> QED BY <1>1, <1>2

\* A writer changes a copy, of the same messages, and will put it back.
LEMMA CopyPairs ==
  ASSUME PairInv, BoxInv, BoxInv', Onward, Undone, \A c \in Fresh' : c <= calls', NEW a \in Writers,
         NEW pre, NEW copy, NEW post, Write(a, pre, << >>, <<copy>>, post), UNCHANGED msgs,
         Kept(msgs) /\ Whole /\ Whole' =>
           KeptAt(copy, Due', Fresh', ids', calls', crash' = "none", AtWork')
  PROVE  PairInv'
<1>1. ASSUME Whole', Whole, Kept(msgs)
      PROVE  Kept(msgs)' /\ Kept(IF <<copy>> # << >> THEN <<copy>>[1] ELSE msgs \o << >>)'
  <2>1. KeptAt(msgs, Due', Fresh', ids', calls', crash' = "none", AtWork')
    BY <1>1, KeptOnward DEF BoxInv
  <2>2. <<copy>> # << >> /\ <<copy>>[1] = copy
    OBVIOUS
  <2> QED BY <1>1, <2>1, <2>2 DEF Kept
<1> QED BY <1>1, WrittenPairs

LEMMA SameKept ==
  ASSUME Onward, NEW ms \in Seq(Msg), NEW ns \in Seq(Msg), Len(ns) = Len(ms), Kept(ms),
         \A i \in 1..Len(ms) : /\ ns[i].id = ms[i].id /\ ns[i].role = ms[i].role /\ ns[i].of = ms[i].of
                               /\ ns[i].calls \in {ms[i].calls, {}}
  PROVE  KeptAt(ns, Due', Fresh', ids', calls', crash' = "none", AtWork')
<1>1. KeptAt(ms, Due', Fresh', ids', calls', crash' = "none", AtWork')
  BY KeptOnward
<1>2. /\ ms # << >> => ns # << >>
      /\ \A D : Good(ms, D) => Good(ns, D)
      /\ \A F : \A n \in Nat : \A o \in Nat : \A k \in Nat :
           Apart(ms, F, n, k) /\ n <= o => Apart(ns, F, o, k)
  BY SameGood
<1>3. ids' \in Nat /\ calls' \in Nat /\ ids' <= ids'
  BY DEF Onward, Forth
<1> QED BY <1>1, <1>2, <1>3 DEF KeptAt

LEMMA ElidePairs ==
  ASSUME PairInv, BoxInv, BoxInv', Onward, Undone, \A c \in Fresh' : c <= calls',
         NEW r \in Runs, NEW is, IF is = {} THEN Silent ELSE Elide(r, is) /\ UNCHANGED ids
  PROVE  PairInv'
<1>1. CASE is = {}
  BY <1>1, UntouchedPairs DEF Silent
<1>2. CASE is # {}
  <2>1. Write(Goroutine(r), Updates(msgs, is, "elided"), <<>>, <<Elided(msgs, is)>>,
              <<Compacted("elide", {})>>) /\ UNCHANGED msgs
    BY <1>2 DEF Elide
  <2>2. Elided(msgs, is) \in Seq(Msg) /\ Len(Elided(msgs, is)) = Len(msgs) /\ msgs \in Seq(Msg)
    BY ElidedIs DEF BoxInv
  <2>3. Kept(msgs) => KeptAt(Elided(msgs, is), Due', Fresh', ids', calls', crash' = "none", AtWork')
    BY <2>2, ElidedSame, SameKept
  <2> QED BY <2>1, <2>3, CopyPairs, WritersAre
<1> QED BY <1>1, <1>2

LEMMA TrySummaryPairs ==
  ASSUME PairInv, BoxInv, BoxInv', Onward, Undone, \A c \in Fresh' : c <= calls',
         NEW r \in Runs, NEW after, NEW otherwise, TrySummary(r, after, otherwise)
  PROVE  PairInv'
<1>1. CASE UNCHANGED <<msgs, w, raced>>
  BY <1>1, UntouchedPairs
<1>2. ASSUME NEW size \in SummarySizes, Len(msgs) > SummaryTail + 1, ids' = ids + 1, UNCHANGED msgs,
             Write(Goroutine(r), <<>>, <<>>, <<Summarized(msgs, SummaryOf(size))>>,
                   <<Compacted("summarize", Dropped(msgs)), Appended(SummaryOf(size))>>)
      PROVE  PairInv'
  <2>1. PICK s \in Msg : s = SummaryOf(size)
    BY SummaryIs
  <2>2. s.calls = {} /\ s.role # "tool" /\ s.id = ids + 1
    <3>1. Message(ids + 1, "assistant", 0).calls = {} /\ Message(ids + 1, "assistant", 0).id = ids + 1
          /\ Message(ids + 1, "assistant", 0).role = "assistant"
      BY DEF Message
    <3>2. s = [Message(ids + 1, "assistant", 0) EXCEPT !.cat = "summary", !.size = size]
      BY <2>1 DEF SummaryOf
    <3> QED BY <3>2 DEF Message
  <2>3. ASSUME Kept(msgs)
        PROVE  KeptAt(Summarized(msgs, s), Due', Fresh', ids', calls', crash' = "none", AtWork')
    <3>1. msgs \in Seq(Msg) /\ Summarized(msgs, s) \in Seq(Msg)
      BY <1>2, SummarizedIs DEF BoxInv
    <3>2. /\ Summarized(msgs, s) # << >>
          /\ \A D : Good(msgs, D) => Good(Summarized(msgs, s), D)
          /\ \A F : \A n \in Nat : \A k \in Nat :
               Apart(msgs, F, n, k) /\ s.id = n + 1 => Apart(Summarized(msgs, s), F, n + 1, k)
      BY <1>2, <2>2, <3>1, SummarizedKeeps
    <3>3. Good(msgs, Due')
      BY <2>3, <3>1, Later DEF Onward, Forth, Kept, KeptAt
    <3>4. ASSUME crash' = "none" PROVE Apart(Summarized(msgs, s), Fresh', ids', calls')
      <4>1. Apart(msgs, Fresh, ids, calls) /\ ids \in Nat /\ calls \in Nat /\ calls' \in Nat /\ calls <= calls'
        BY <2>3, <3>4 DEF Onward, Forth, Kept, KeptAt
      <4>2. Apart(msgs, Fresh', ids, calls')
        BY <3>1, <4>1, ApartLater DEF Onward, Forth
      <4> QED BY <1>2, <2>2, <3>2, <4>1, <4>2
    <3> QED BY <3>2, <3>3, <3>4 DEF KeptAt
  <2> QED BY <1>2, <2>1, <2>3, CopyPairs, WritersAre
<1> QED BY <1>1, <1>2 DEF TrySummary, Silent

LEMMA RepairPairs ==
  ASSUME PairInv, BoxInv, BoxInv', Onward, Undone, \A c \in Fresh' : c <= calls',
         NEW r \in Runs, Malformed # 0, Repair(r), crash' = (IF crash = "none" THEN "none" ELSE "cut"),
         UNCHANGED ids
  PROVE  PairInv'
<1>1. PICK a \in Writers : a = Goroutine(r)
  BY WritersAre
<1>2. CASE ~(Whole /\ Whole' /\ Kept(msgs))
  <2>1. PICK b, c, e : Write(a, << >>, << >>, b, c) /\ e = 0
    BY <1>1 DEF Repair
  <2> QED BY <1>2, <2>1, WrittenPairs
<1>3. CASE Whole /\ Whole' /\ Kept(msgs)
  <2>1. crash = "none" /\ crash' = "none"
    BY <1>3 DEF Whole
  <2>2. msgs \in Seq(Msg) /\ Good(msgs, Due') /\ Apart(msgs, Fresh', ids', calls')
        /\ ids' \in Nat /\ calls' \in Nat
    <3>1. msgs \in Seq(Msg)
      BY DEF BoxInv
    <3>2. KeptAt(msgs, Due', Fresh', ids', calls', crash' = "none", AtWork')
      BY <1>3, <3>1, KeptOnward
    <3> QED BY <2>1, <3>1, <3>2 DEF KeptAt, Onward, Forth
  <2>3. \A i, j \in 1..Len(msgs) : msgs[i].id = msgs[j].id => i = j
    BY <2>2 DEF Apart
  <2>4. PICK left, kept, h, post :
           /\ kept \in Seq(Msg) /\ Repaired(msgs, left, kept, Malformed, h)
           /\ Write(Goroutine(r), <<>>, <<>>, <<kept>>, post) /\ UNCHANGED msgs
    BY <2>3, RepairIs
  <2>5. Malformed \in 1..Len(msgs) /\ msgs[Malformed].calls # {}
    BY MalformedCalls
  <2>6. PICK M \in 1..Len(msgs) : M = Malformed /\ msgs[M].calls # {}
    BY <2>5
  <2>7. Good(kept, Due') /\ Apart(kept, Fresh', ids', calls') /\ kept # <<>>
    BY <2>2, <2>4, <2>6, RepairedKeeps
  <2>8. KeptAt(kept, Due', Fresh', ids', calls', crash' = "none", AtWork')
    BY <2>7 DEF KeptAt
  <2> QED BY <1>1, <2>4, <2>8, CopyPairs
<1> QED BY <1>2, <1>3

LEMMA MovesOnward ==
  ASSUME LoopInv, BoxInv, BoxInv', \A c \in Fresh : c <= calls, NEW r \in Runs,
         run[r].pc \notin {"idle", "done"} \/ run'[r].pc = run[r].pc,
         \A q \in Runs : q # r => run'[q] = run[q],
         DueOf(run[r]) \subseteq DueOf(run'[r]),
         \A c \in FreshOf(run'[r]) : c \in FreshOf(run[r]) \/ (c > calls /\ c <= calls'),
         calls' \in Nat, calls <= calls', ids <= ids', crash' = crash \/ crash' # "none"
  PROVE  Onward /\ \A c \in Fresh' : c <= calls'
<1>1. calls \in Nat /\ ids \in Nat /\ ids' \in Nat
  BY DEF LoopInv, BoxInv
<1>2. Due \subseteq Due'
  <2>1. \A q \in Runs : DueOf(run[q]) \subseteq DueOf(run'[q])
    OBVIOUS
  <2> QED BY <2>1 DEF Due
<1>3. \A c \in Fresh' : c \in Nat /\ (c \in Fresh \/ (c > calls /\ c <= calls'))
  <2>1. ASSUME NEW q \in Runs, NEW c \in FreshOf(run'[q])
        PROVE  c \in Nat /\ (c \in FreshOf(run[q]) \/ (c > calls /\ c <= calls'))
    <3>1. c \in Nat
      BY <2>1 DEF FreshOf
    <3> QED BY <2>1, <3>1
  <2> QED BY <2>1 DEF Fresh
<1>4. AtWork' => AtWork
  BY DEF AtWork
<1>5. \A c \in Fresh' : c <= calls'
  BY <1>1, <1>3
<1> QED BY <1>1, <1>2, <1>3, <1>4, <1>5 DEF Onward, Forth

\* A run moves outside of the calls of its turn.
LEMMA PlainOnward ==
  ASSUME LoopInv, BoxInv, BoxInv', \A c \in Fresh : c <= calls, NEW r \in Runs,
         run[r].pc \notin {"idle", "done", "append"}, run'[r].pc \notin {"dispatch", "tool", "append"},
         \A q \in Runs : q # r => run'[q] = run[q],
         calls' = calls, ids <= ids', crash' = crash \/ crash' # "none"
  PROVE  Onward /\ \A c \in Fresh' : c <= calls'
<1>1. DueOf(run[r]) = {} /\ FreshOf(run'[r]) = {}
  BY DEF DueOf, FreshOf
<1>2. calls \in Nat /\ calls' \in Nat
  BY DEF LoopInv
<1> QED BY <1>1, <1>2, MovesOnward

\* The runs of the turn loop whose step is none of the calls.
Outside(r) ==
  \/ Boundary(r) \/ Assemble(r) \/ Answer(r) \/ Observe(r) \/ Compact(r) \/ ElideOld(r)
  \/ Summarize(r) \/ FitElides(r) \/ FitSummarizes(r) \/ Fails(r) \/ Text(r) \/ Truncated(r)
  \/ CycleDecided(r) \/ EndFlight(r) \/ Begin(r) \/ Stops(r) \/ Finish(r)

LEMMA OutsideMoves ==
  ASSUME LoopInv, NEW r \in Runs, Outside(r)
  PROVE  /\ run[r].pc \notin {"idle", "done", "append"} /\ run'[r].pc \notin {"dispatch", "tool", "append"}
         /\ \A q \in Runs : q # r => run'[q] = run[q]
<1>1. CASE Stops(r)
  BY <1>1, StopsLoops DEF Stops, Stepped
<1>2. CASE Finish(r)
  BY <1>2, FinishIs DEF Stepped
<1>3. CASE ~Stops(r) /\ ~Finish(r)
  BY <1>3, BoundaryLoops, AssembleLoops, AnswerLoops, ObserveLoops, CompactLoops, ElideOldLoops,
     SummarizeLoops, FitElidesLoops, FitSummarizesLoops, FailsLoops, TextLoops, TruncatedLoops,
     CycleDecidedLoops, BeginLoops, EndFlightLoops DEF Outside, Stepped
<1> QED BY <1>1, <1>2, <1>3

LEMMA OutsideKept ==
  ASSUME BoxInv, NEW r \in Runs, Outside(r)
  PROVE  /\ calls' = calls /\ ids <= ids' /\ forced' = forced
         /\ crash' = crash \/ crash' = "cut"
<1>1. ids \in Nat
  BY DEF BoxInv
<1>2. calls' = calls /\ forced' = forced
  BY DEF Outside, Boundary, Assemble, Answer, Observe, Compact, ElideOld, Summarize, FitElides,
     FitSummarizes, Fails, Text, Truncated, CycleDecided, EndFlight, Begin, Stops, Finish,
     ContextStop, LoopKept, SchedKept, ghosts
<1>3. crash' = crash \/ crash' = "cut"
  <2>1. CASE Assemble(r)
    BY <2>1 DEF Assemble
  <2>2. CASE ~Assemble(r)
    BY <2>2 DEF Outside, Boundary, Answer, Observe, Compact, ElideOld, Summarize, FitElides,
       FitSummarizes, Fails, Text, Truncated, CycleDecided, EndFlight, Begin, Stops, Finish,
       ContextStop, LoopKept, SchedKept, ghosts
  <2> QED BY <2>1, <2>2
<1>4. ids' = ids \/ ids' = ids + 1
  BY DEF Outside, Boundary, Assemble, Answer, Observe, Compact, ElideOld, Summarize, FitElides, Elide,
     FitSummarizes, Fails, Text, Truncated, CycleDecided, EndFlight, Begin, Stops, Finish, TrySummary,
     ContextStop, RecordAbort, Silent, Unreachable, Publishes, SchedKept
<1> QED BY <1>1, <1>2, <1>3, <1>4

LEMMA OutsideOnward ==
  ASSUME LoopInv, BoxInv, BoxInv', \A c \in Fresh : c <= calls, NEW r \in Runs, Outside(r)
  PROVE  Onward /\ Undone /\ \A c \in Fresh' : c <= calls'
<1>1. Onward /\ \A c \in Fresh' : c <= calls'
  BY OutsideMoves, OutsideKept, PlainOnward
<1>2. Undone
  BY OutsideKept DEF Undone
<1> QED BY <1>1, <1>2

LEMMA PlainPairs ==
  ASSUME LoopInv, BoxInv, BoxInv', PairInv, NEW r \in Runs, Outside(r)
  PROVE  PairInv'
<1>0. Onward /\ Undone /\ \A c \in Fresh' : c <= calls'
  BY OutsideOnward DEF PairInv
<1>1. Goroutine(r) \in Writers
  BY WritersAre
<1>2. CASE UNCHANGED <<msgs, w, raced>>
  BY <1>0, <1>2, UntouchedPairs
<1>3. ASSUME NEW es, Write(Goroutine(r), es, << >>, << >>, << >>), UNCHANGED msgs PROVE PairInv'
  BY <1>0, <1>1, <1>3, PublishedPairs
<1>4. CASE Silent
  BY <1>2, <1>4 DEF Silent
<1>5. ASSUME NEW es, Publishes(r, es) PROVE PairInv'
  BY <1>3, <1>5 DEF Publishes
<1>6. ASSUME ContextStop(r) PROVE PairInv'
  <2>1. CASE Silent
    BY <1>4, <2>1
  <2>2. CASE RecordAbort(r, Goroutine(r)) /\ UNCHANGED msgs
    BY <1>0, <1>1, <2>2, RecordPairs
  <2> QED BY <1>6, <2>1, <2>2 DEF ContextStop
<1>7. ASSUME NEW m, WriteMessage(Goroutine(r), m), m.calls = {}, m.role # "tool", m.id = ids + 1,
             ids' = ids + 1
      PROVE  PairInv'
  BY <1>0, <1>1, <1>7, MessagePairs
<1>8. CASE Boundary(r)
  <2>1. CASE Silent
    BY <1>4, <2>1
  <2>2. CASE ids' = ids + 1 /\ WriteMessage(Goroutine(r), Message(ids + 1, "user", 0))
    <3>1. PICK m : m = Message(ids + 1, "user", 0)
      OBVIOUS
    <3>2. m.calls = {} /\ m.role # "tool" /\ m.id = ids + 1
      BY <3>1 DEF Message
    <3> QED BY <1>7, <2>2, <3>1, <3>2
  <2> QED BY <1>8, <2>1, <2>2 DEF Boundary
<1>9. CASE Answer(r)
  <2>1. PICK m : m = [Message(ids + 1, "assistant", run[r].turn) EXCEPT !.src = Source(ids + 1)]
    OBVIOUS
  <2>2. m.calls = {} /\ m.role # "tool" /\ m.id = ids + 1
    BY <2>1 DEF Message
  <2>3. ids' = ids + 1 /\ WriteMessage(Goroutine(r), m)
    BY <1>9, <2>1 DEF Answer
  <2> QED BY <1>7, <2>2, <2>3
<1>10. CASE Assemble(r)
  <2>1. ids' = ids
    BY <1>10 DEF Assemble
  <2>2. CASE Malformed # 0 /\ Repair(r) /\ crash' = IF crash = "none" THEN "none" ELSE "cut"
    BY <1>0, <2>1, <2>2, RepairPairs
  <2>3. CASE Silent
    BY <1>4, <2>3
  <2>4. CASE \E es : Publishes(r, es)
    BY <1>5, <2>4
  <2> QED BY <1>10, <2>2, <2>3, <2>4 DEF Assemble, Unreachable
<1>11. CASE Fails(r)
  BY <1>4, <1>5, <1>11 DEF Fails, Unreachable
<1>12. CASE Text(r) \/ Truncated(r)
  BY <1>5, <1>12 DEF Text, Truncated
<1>13. CASE Observe(r) \/ CycleDecided(r) \/ EndFlight(r) \/ Begin(r)
  BY <1>4, <1>13 DEF Observe, CycleDecided, EndFlight, Begin
<1>14. CASE Compact(r) \/ ElideOld(r) \/ FitElides(r)
  <2>1. Silent \/ \E is : IF is = {} THEN Silent ELSE Elide(r, is) /\ UNCHANGED ids
    BY <1>14 DEF Compact, ElideOld, FitElides
  <2> QED BY <1>0, <1>4, <2>1, ElidePairs
<1>15. CASE Summarize(r) \/ FitSummarizes(r)
  <2>1. Silent \/ \E x, y : TrySummary(r, x, y)
    BY <1>15 DEF Summarize, FitSummarizes
  <2> QED BY <1>0, <1>4, <2>1, TrySummaryPairs
<1>16. CASE Stops(r)
  BY <1>6, <1>16 DEF Stops
<1>17. CASE Finish(r)
  BY <1>2, <1>17 DEF Finish, SchedKept
<1> QED BY <1>8, <1>9, <1>10, <1>11, <1>12, <1>13, <1>14, <1>15, <1>16, <1>17 DEF Outside

\* Only one run is at work, as long as none lost its slot.
LEMMA AloneIs ==
  ASSUME SlotInv, forced = {}, NEW r \in Runs, run[r].pc \notin {"idle", "done"}
  PROVE  /\ \A q \in Runs : q # r => run[q].pc \in {"idle", "done"}
         /\ Due = DueOf(run[r]) /\ Fresh = FreshOf(run[r])
<1>1. \A q \in Runs : q # r => run[q].pc \in {"idle", "done"}
  BY DEF SlotInv
<1>2. \A q \in Runs : q # r => DueOf(run[q]) = {} /\ FreshOf(run[q]) = {}
  BY <1>1 DEF DueOf, FreshOf
<1> QED BY <1>1, <1>2 DEF Due, Fresh

LEMMA CallsPairs ==
  ASSUME LoopInv, BoxInv, BoxInv', PairInv, NEW r \in Runs, Calls(r)
  PROVE  PairInv'
<1>1. Looping(run[r]) /\ run[r].pc = "call" /\ calls \in Nat
  BY DEF LoopInv, Calls, At
<1> DEFINE named(b) == [k \in 1..Len(b.kinds) |-> calls + k]
           y(b) == [run[r] EXCEPT !.pc = "dispatch", !.kinds = b.kinds, !.empty = b.empty,
                                  !.named = named(b), !.ok = <<>>, !.at = 1,
                                  !.retry = FALSE, !.used = @ + Len(b.kinds)]
<1>2. PICK b \in Batches :
        /\ calls' = calls + Len(b.kinds)
        /\ IF OverBudget(r, Len(b.kinds)) THEN Returns(r, "tool_budget") ELSE Goes(r, y(b))
        /\ Publishes(r, Response(r, Range(named(b)))) /\ UNCHANGED ghosts
  BY DEF Calls
<1>3. Len(b.kinds) \in Nat
  BY TurnConstants
<1>4. calls' \in Nat /\ calls <= calls'
  BY <1>1, <1>2, <1>3
<1>5. \A q \in Runs : q # r => run'[q] = run[q]
  BY CallsLoops DEF Stepped
<1>6. DueOf(run[r]) = {}
  BY <1>1 DEF DueOf
<1>7. \A c \in FreshOf(run'[r]) : c > calls /\ c <= calls'
  <2>1. CASE OverBudget(r, Len(b.kinds))
    <3>1. run'[r].pc = "return"
      <4>1. run'[r] = [run[r] EXCEPT !.pc = "return", !.reason = "tool_budget"]
        BY <1>2, <2>1 DEF Returns, Goes, LoopInv
      <4> QED BY <1>1, <4>1 DEF Looping, Shaped
    <3> QED BY <3>1 DEF FreshOf
  <2>2. CASE ~OverBudget(r, Len(b.kinds))
    <3>1. run'[r] = y(b)
      BY <1>2, <2>2 DEF Goes, LoopInv
    <3>2. y(b).named = named(b)
      BY <1>1 DEF Looping, Shaped
    <3>3. ASSUME NEW c \in FreshOf(run'[r]) PROVE c > calls /\ c <= calls'
      <4>1. Len(named(b)) = Len(b.kinds)
        BY <1>3
      <4>3. PICK i \in 1..Len(run'[r].named) : c = run'[r].named[i]
        BY <3>3 DEF FreshOf
      <4>4. run'[r].named = named(b)
        BY <3>1, <3>2
      <4>2. PICK j \in 1..Len(b.kinds) : c = calls + j
        BY <4>1, <4>3, <4>4
      <4> QED BY <1>1, <1>2, <1>3, <4>2
    <3> QED BY <3>3
  <2> QED BY <2>1, <2>2
<1>8. ids' = ids /\ UNCHANGED <<crash, forced, msgs>> /\ ids \in Nat /\ ids <= ids'
  BY <1>2 DEF Publishes, ghosts, BoxInv
<1>9. Onward /\ \A c \in Fresh' : c <= calls'
  BY <1>1, <1>4, <1>5, <1>6, <1>7, <1>8, MovesOnward DEF PairInv
<1>10. Undone
  BY <1>8 DEF Undone
<1> QED BY <1>2, <1>9, <1>10, PublishedPairs, WritersAre DEF Publishes

LEMMA ToolStartsPairs ==
  ASSUME LoopInv, BoxInv, BoxInv', PairInv, NEW r \in Runs, ToolStarts(r)
  PROVE  PairInv'
<1>1. Shaped(run[r]) /\ run[r].pc = "dispatch"
  BY DEF LoopInv, Looping, ToolStarts, At
<1>2. run'[r] = [run[r] EXCEPT !.pc = "tool"] /\ \A q \in Runs : q # r => run'[q] = run[q]
  BY DEF ToolStarts, Goes, LoopInv
<1>3. run'[r].pc = "tool" /\ run'[r].named = run[r].named /\ run'[r].at = run[r].at
  BY <1>1, <1>2 DEF Shaped
<1>4. DueOf(run[r]) = {} /\ FreshOf(run'[r]) = FreshOf(run[r])
  BY <1>1, <1>3 DEF DueOf, FreshOf
<1>5. calls' = calls /\ ids' = ids /\ UNCHANGED <<crash, forced, msgs>>
  BY DEF ToolStarts, LoopKept, ghosts, Publishes
<1>6. calls \in Nat /\ ids \in Nat
  BY DEF LoopInv, BoxInv
<1>7. Onward /\ \A c \in Fresh' : c <= calls'
  BY <1>1, <1>2, <1>4, <1>5, <1>6, MovesOnward DEF PairInv
<1>8. Undone
  BY <1>5 DEF Undone
<1> QED BY <1>5, <1>7, <1>8, PublishedPairs, WritersAre DEF ToolStarts, Publishes

LEMMA ToolReturnsPairs ==
  ASSUME LoopInv, BoxInv, BoxInv', PairInv, NEW r \in Runs, ToolReturns(r)
  PROVE  PairInv'
<1>1. Shaped(run[r]) /\ run[r].pc = "tool" /\ calls \in Nat /\ ids \in Nat
  BY DEF LoopInv, Looping, ToolReturns, At, BoxInv
<1>2. run'[r].pc \in {"dispatch", "append", "return"} /\ \A q \in Runs : q # r => run'[q] = run[q]
  BY ToolReturnsLoops DEF Stepped
<1>3. CASE ContextStop(r)
  <2>1. run'[r].pc = "return"
    BY <1>1, <1>3, StopsLoops DEF Stepped
  <2>2. calls' = calls /\ UNCHANGED <<crash, forced>> /\ (ids' = ids \/ ids' = ids + 1) /\ UNCHANGED msgs
    BY <1>3 DEF ContextStop, LoopKept, ghosts, Silent, RecordAbort
  <2>3. ids <= ids'
    BY <1>1, <2>2
  <2>4. Onward /\ \A c \in Fresh' : c <= calls'
    BY <1>1, <1>2, <2>1, <2>2, <2>3, PlainOnward DEF PairInv
  <2>5. Undone
    BY <2>2 DEF Undone
  <2>6. CASE Silent
    BY <2>4, <2>5, <2>6, UntouchedPairs DEF Silent
  <2>7. CASE RecordAbort(r, Goroutine(r))
    BY <2>2, <2>4, <2>5, <2>7, RecordPairs, WritersAre
  <2> QED BY <1>3, <2>6, <2>7 DEF ContextStop
<1>4. CASE ~ContextStop(r)
  <2>1. Silent /\ LoopKept
    BY <1>4 DEF ToolReturns
  <2>2. PICK ok \in BOOLEAN :
          Goes(r, [run[r] EXCEPT !.ok = Append(@, ok),
                                 !.at = IF run[r].at = Len(run[r].kinds) THEN 0 ELSE run[r].at + 1,
                                 !.pc = IF run[r].at = Len(run[r].kinds) THEN "append" ELSE "dispatch"])
    BY <1>4 DEF ToolReturns
  <2>3. run'[r] = [run[r] EXCEPT !.ok = Append(@, ok),
                                 !.at = IF run[r].at = Len(run[r].kinds) THEN 0 ELSE run[r].at + 1,
                                 !.pc = IF run[r].at = Len(run[r].kinds) THEN "append" ELSE "dispatch"]
    BY <2>2 DEF Goes, LoopInv
  <2>4. run'[r].named = run[r].named
    BY <1>1, <2>3 DEF Shaped
  <2>5. DueOf(run[r]) = {} /\ FreshOf(run'[r]) \subseteq FreshOf(run[r])
    BY <1>1, <2>4 DEF DueOf, FreshOf
  <2>6. calls' = calls /\ ids' = ids /\ UNCHANGED <<crash, forced>>
    BY <2>1 DEF LoopKept, Silent, ghosts
  <2>7. Onward /\ \A c \in Fresh' : c <= calls'
    BY <1>1, <1>2, <2>5, <2>6, MovesOnward DEF PairInv
  <2>8. Undone
    BY <2>6 DEF Undone
  <2> QED BY <2>1, <2>7, <2>8, UntouchedPairs DEF Silent
<1> QED BY <1>3, <1>4

\* The answer is appended, then the results of its calls, one by one.
LEMMA AppendNextPairs ==
  ASSUME LoopInv, ChatInv, ChatInv', PairInv, NEW r \in Runs, AppendNext(r)
  PROVE  PairInv'
<1>0. BoxInv /\ BoxInv' /\ SlotInv /\ SlotInv'
  BY DEF ChatInv
<1>1. Looping(run[r]) /\ run[r].pc = "append" /\ calls \in Nat /\ ids \in Nat /\ msgs \in Seq(Msg)
      /\ ids + 1 \in Nat
  BY <1>0 DEF LoopInv, AppendNext, At, BoxInv
<1>2. run'[r] = [run[r] EXCEPT !.at = IF TurnKept(r) THEN 1 ELSE run[r].at + 1,
                               !.pc = IF TurnKept(r) THEN "guard" ELSE "append"]
  BY DEF AppendNext, Goes, LoopInv
<1>3. /\ run'[r].pc = (IF TurnKept(r) THEN "guard" ELSE "append") /\ run'[r].named = run[r].named
      /\ run'[r].at = (IF TurnKept(r) THEN 1 ELSE run[r].at + 1)
  BY <1>1, <1>2 DEF Looping, Shaped
<1>4. /\ run[r].named \in Seq(Nat) /\ Len(run[r].named) = Len(run[r].kinds) /\ Len(run[r].kinds) \in Nat
      /\ run[r].at \in 0..Len(run[r].kinds) /\ Len(run[r].kinds) >= 1
  BY <1>1 DEF Looping, BatchOf
<1>5. \A q \in Runs : q # r => run'[q] = run[q]
  BY AppendNextLoops DEF Stepped
<1>6. PICK N : N = run[r].named
  OBVIOUS
<1>7. PICK k \in Nat : k = run[r].at /\ k <= Len(N)
  BY <1>4, <1>6
<1>8. PICK m : /\ m.id = ids + 1
               /\ IF k = 0 THEN m.role = "assistant" /\ m.calls = Range(N)
                  ELSE m.role = "tool" /\ m.calls = {} /\ m.of = N[k]
               /\ WriteMessage(Goroutine(r), m) /\ ids' = ids + 1
  <2> DEFINE a == [Message(ids + 1, "assistant", run[r].turn) EXCEPT
                   !.calls = Range(run[r].named), !.bad = "bad" \in Range(run[r].kinds),
                   !.empty = run[r].empty, !.src = Source(ids + 1)]
             t == [Message(ids + 1, "tool", run[r].turn) EXCEPT
                   !.of = run[r].named[run[r].at], !.kind = run[r].kinds[run[r].at],
                   !.ok = run[r].ok[run[r].at], !.size = 4]
  <2>1. a.id = ids + 1 /\ a.role = "assistant" /\ a.calls = Range(run[r].named)
    BY DEF Message
  <2>2. t.id = ids + 1 /\ t.role = "tool" /\ t.of = run[r].named[run[r].at] /\ t.calls = {}
    BY DEF Message
  <2>3. WriteMessage(Goroutine(r), IF run[r].at = 0 THEN a ELSE t) /\ ids' = ids + 1
    BY DEF AppendNext
  <2> HIDE DEF a, t
  <2> QED BY <1>6, <1>7, <2>1, <2>2, <2>3
<1>9. UNCHANGED <<calls, crash, forced>>
  BY DEF AppendNext, LoopKept, ghosts
<1>10. FreshOf(run'[r]) = {}
  <2>1. run'[r].at # 0
    BY <1>3, <1>7
  <2>2. run'[r].pc \in {"guard", "append"}
    BY <1>3
  <2> QED BY <2>1, <2>2 DEF FreshOf
<1>11. \A c \in Fresh' : c <= calls'
  <2>1. \A q \in Runs : FreshOf(run'[q]) \subseteq FreshOf(run[q])
    BY <1>5, <1>10
  <2>2. Fresh' \subseteq Fresh
    BY <2>1 DEF Fresh
  <2> QED BY <1>9, <2>2 DEF PairInv
<1>12. msgs' = Append(msgs, m) /\ m \in Msg /\ msgs' \in Seq(Msg)
  <2>1. msgs' = Append(msgs, m) /\ msgs' \in Seq(Msg)
    BY <1>0, <1>8 DEF WriteMessage, BoxInv
  <2>2. Len(msgs') = Len(msgs) + 1 /\ msgs'[Len(msgs) + 1] = m /\ Len(msgs) \in Nat
    BY <1>1, <2>1
  <2>3. Len(msgs) + 1 \in 1..Len(msgs')
    BY <2>2
  <2> QED BY <2>1, <2>2, <2>3
<1>13. ASSUME Whole', Whole, Kept(msgs) PROVE Kept(msgs)'
  <2>1. Due = DueOf(run[r]) /\ Fresh = FreshOf(run[r])
    BY <1>0, <1>1, <1>13, AloneIs DEF Whole
  <2>2. \A q \in Runs : q # r => run[q].pc \in {"idle", "done"}
    BY <1>0, <1>1, <1>13, AloneIs DEF Whole
  <2>3. Due' = DueOf(run'[r]) /\ Fresh' = {}
    <3>1. \A q \in Runs : q # r => DueOf(run'[q]) = {} /\ FreshOf(run'[q]) = {}
      BY <1>5, <2>2 DEF DueOf, FreshOf
    <3> QED BY <1>10, <3>1 DEF Due, Fresh
  <2>4. msgs # <<>> /\ Good(msgs, Due)
    BY <1>1, <1>13 DEF Kept, KeptAt, AtWork
  <2>5. k = 0 => m.calls \subseteq Due' /\ m.calls \subseteq Fresh
    <3>1. ASSUME k = 0, NEW c \in m.calls PROVE c \in DueOf(run'[r]) /\ c \in FreshOf(run[r])
      <4>1. PICK j \in 1..Len(N) : c = N[j] /\ N[j] \in Nat
        <5>1. c \in Range(N)
          BY <1>8, <3>1
        <5>2. N \in Seq(Nat)
          BY <1>4, <1>6
        <5> QED BY <5>1, <5>2 DEF Range
      <4>2. run'[r].pc = "append" /\ run'[r].at = 1
        BY <1>3, <1>4, <1>7, <3>1 DEF TurnKept
      <4>3. c \in DueOf(run'[r])
        BY <1>3, <1>6, <4>1, <4>2 DEF DueOf
      <4>4. c \in FreshOf(run[r])
        BY <1>1, <1>6, <1>7, <3>1, <4>1 DEF FreshOf
      <4> QED BY <4>3, <4>4
    <3> QED BY <2>1, <2>3, <3>1
  <2>6. \A c \in Due : c \in Due' \/ (m.role = "tool" /\ m.of = c)
    <3>1. ASSUME NEW c \in DueOf(run[r]) PROVE c \in DueOf(run'[r]) \/ (m.role = "tool" /\ m.of = c)
      <4>1. PICK j \in 1..Len(N) : k # 0 /\ j >= k /\ c = N[j] /\ c \in Nat
        BY <1>6, <1>7, <3>1 DEF DueOf
      <4>2. CASE j = k
        BY <1>8, <4>1, <4>2
      <4>3. CASE j # k
        <5>1. j >= k + 1 /\ ~TurnKept(r)
          BY <1>4, <1>6, <1>7, <4>1, <4>3 DEF TurnKept
        <5>2. run'[r].pc = "append" /\ run'[r].at = k + 1 /\ run'[r].at # 0
          BY <1>3, <1>7, <5>1
        <5> QED BY <1>3, <1>6, <4>1, <5>1, <5>2 DEF DueOf
      <4> QED BY <4>2, <4>3
    <3> QED BY <2>1, <2>3, <3>1
  <2>7. Good(Append(msgs, m), Due') /\ Append(msgs, m) # <<>>
    <3>1. m.calls # {} => msgs # << >> /\ m.calls \subseteq Due'
      BY <1>8, <2>4, <2>5
    <3> QED BY <1>1, <1>12, <2>4, <2>6, <3>1, GoodAppend
  <2>8. ASSUME crash' = "none" PROVE Apart(Append(msgs, m), Fresh', ids', calls')
    <3>1. Apart(msgs, Fresh, ids, calls)
      BY <1>9, <1>13, <2>8 DEF Kept, KeptAt
    <3>2. m.calls \subseteq Fresh /\ (m.role = "tool" => msgs # << >> /\ m.calls = {})
      BY <1>8, <2>4, <2>5
    <3>3. Apart(Append(msgs, m), {}, ids + 1, calls)
      <4>1. \A c \in Fresh : c <= calls
        BY DEF PairInv
      <4> QED BY <1>1, <1>8, <1>12, <3>1, <3>2, <4>1, ApartAppend
    <3> QED BY <1>8, <1>9, <2>3, <3>3
  <2> QED BY <1>12, <2>7, <2>8 DEF Kept, KeptAt
<1>14. Undone
  BY <1>9 DEF Undone
<1>15. ASSUME Whole', Whole, Kept(msgs)
       PROVE  Kept(msgs)' /\ Kept(IF << >> # << >> THEN << >>[1] ELSE msgs \o << >>)'
  <2>1. msgs' \o << >> = msgs'
    BY <1>12
  <2> QED BY <1>13, <1>15, <2>1 DEF Kept
<1> QED BY <1>0, <1>8, <1>11, <1>14, <1>15, WrittenPairs, WritersAre DEF WriteMessage

\* A step that leaves the calls of every run alone.
LEMMA StillOnward ==
  ASSUME LoopInv, BoxInv, BoxInv', \A c \in Fresh : c <= calls,
         \A q \in Runs : run'[q].pc = run[q].pc /\ run'[q].named = run[q].named /\ run'[q].at = run[q].at,
         calls' = calls, ids <= ids', crash' = crash
  PROVE  Onward /\ \A c \in Fresh' : c <= calls'
<1>1. calls \in Nat /\ ids \in Nat /\ ids' \in Nat
  BY DEF LoopInv, BoxInv
<1>2. \A q \in Runs : DueOf(run'[q]) = DueOf(run[q]) /\ FreshOf(run'[q]) = FreshOf(run[q])
  BY DEF DueOf, FreshOf
<1>3. Due' = Due /\ Fresh' = Fresh
  BY <1>2 DEF Due, Fresh
<1>4. AtWork' => AtWork
  BY DEF AtWork
<1> QED BY <1>1, <1>3, <1>4 DEF Onward, Forth

LEMMA AroundPairs ==
  ASSUME LoopInv, ChatInv, ChatInv', PairInv,
         \/ \E r \in Runs : Wall(r) \/ Stop(r) \/ StopReturns(r) \/ StopTimeout(r) \/ ForceFinish(r)
         \/ UNCHANGED vars
  PROVE  PairInv'
<1>0. BoxInv /\ BoxInv' /\ ids \in Nat
  BY DEF ChatInv, BoxInv
<1>1. \A q \in Runs : run'[q].pc = run[q].pc /\ run'[q].named = run[q].named /\ run'[q].at = run[q].at
  <2>1. CASE \E r \in Runs : Wall(r) \/ Stop(r)
    BY <2>1, CancelIs
  <2>2. CASE run' = run
    BY <2>2
  <2> QED BY <2>1, <2>2 DEF StopReturns, StopTimeout, ForceFinish, SchedKept, vars
<1>2. calls' = calls /\ crash' = crash /\ (ids' = ids \/ ids' = ids + 1) /\ msgs' = msgs
  BY DEF Wall, Stop, StopReturns, StopTimeout, ForceFinish, SchedKept, ghosts, RecordAbort, vars
<1>3. Onward /\ \A c \in Fresh' : c <= calls'
  BY <1>0, <1>1, <1>2, StillOnward DEF PairInv
<1>4. Undone
  <2>1. forced' = forced \/ \E r \in Runs : forced' = forced \cup {r}
    BY DEF Wall, Stop, StopReturns, StopTimeout, ForceFinish, ghosts, vars
  <2> QED BY <1>2, <2>1 DEF Undone
<1>5. CASE UNCHANGED <<w, raced>>
  BY <1>0, <1>2, <1>3, <1>4, <1>5, UntouchedPairs
<1>6. ASSUME NEW r \in Runs, StopTimeout(r) PROVE PairInv'
  <2>1. RecordAbort(r, Stopping(r))
    BY <1>6 DEF StopTimeout
  <2> QED BY <1>0, <1>2, <1>3, <1>4, <2>1, RecordPairs, WritersAre
<1> QED BY <1>5, <1>6 DEF Wall, Stop, StopReturns, ForceFinish, SchedKept, vars

LEMMA StartPairs ==
  ASSUME LoopInv, Unstarted, ChatInv, ChatInv', PairInv, Start
  PROVE  PairInv'
<1>0. BoxInv /\ BoxInv' /\ ids \in Nat /\ calls \in Nat /\ ids + 1 \in Nat /\ msgs \in Seq(Msg)
  BY DEF ChatInv, BoxInv, LoopInv
<1>1. PICK m : m = Message(ids + 1, "user", 0)
  OBVIOUS
<1>2. /\ m.calls = {} /\ m.role # "tool" /\ m.id = ids + 1 /\ ids' = ids + 1
      /\ msgs' = Append(msgs, m) /\ UNCHANGED <<calls, crash, forced>>
  BY <1>1 DEF Start, Message, ghosts
<1>3. PICK pre : Write(Sched, pre, << >>, << >>, << >>)
  BY DEF Start
<1>4. m \in Msg
  BY <1>0, <1>1, MessageIs
<1>5. \A q \in Runs : IF q = started + 1 THEN run[q].pc = "idle" /\ run'[q].pc = "begin"
                      ELSE run'[q] = run[q]
  <2>1. /\ \A q \in Runs : IF q = started + 1 THEN run'[q] = [Asleep EXCEPT !.pc = "begin"]
                           ELSE run'[q] = run[q]
        /\ [Asleep EXCEPT !.pc = "begin"].pc = "begin"
    BY StartIs
  <2>2. \A q \in Runs : q = started + 1 => run[q].pc = "idle"
    BY DEF Unstarted
  <2> QED BY <2>1, <2>2
<1>6. \A q \in Runs : DueOf(run'[q]) = DueOf(run[q]) /\ FreshOf(run'[q]) = FreshOf(run[q])
  BY <1>5 DEF DueOf, FreshOf
<1>7. Due' = Due /\ Fresh' = Fresh
  BY <1>6 DEF Due, Fresh
<1>8. Forth
  BY <1>0, <1>2, <1>7 DEF Forth
<1>9. Undone
  BY <1>2 DEF Undone
<1>10. ASSUME Whole', Whole, Kept(msgs)
       PROVE  Kept(msgs)' /\ Kept(IF << >> # << >> THEN << >>[1] ELSE msgs \o << >>)'
  <2>1. KeptAt(msgs', Due', Fresh', ids', calls', crash' = "none", AtWork')
    BY <1>0, <1>2, <1>4, <1>8, <1>10, AppendKept DEF PairInv
  <2>2. msgs' \o << >> = msgs'
    BY <1>0 DEF BoxInv
  <2> QED BY <2>1, <2>2 DEF Kept
<1>11. \A c \in Fresh' : c <= calls'
  BY <1>2, <1>7 DEF PairInv
<1> QED BY <1>0, <1>3, <1>9, <1>10, <1>11, WrittenPairs, WritersAre

LEMMA SettlePairs ==
  ASSUME LoopInv, ChatInv, ChatInv', PairInv, Settle
  PROVE  PairInv'
<1>0. BoxInv /\ BoxInv' /\ ids \in Nat /\ msgs \in Seq(Msg)
  BY DEF ChatInv, BoxInv
<1>1. PICK i \in 1..Len(msgs) :
        LET is == {j \in 1..Len(msgs) : msgs[j].id \in msgs[i].src /\ ~msgs[j].elided
                                         /\ msgs[j].role \in {"user", "assistant"}}
            settled == [j \in 1..Len(msgs) |->
                          IF j \in is THEN [msgs[j] EXCEPT !.elided = TRUE, !.calls = {}]
                          ELSE msgs[j]]
        IN /\ Write(Operator, Updates(msgs, is, "elided"), <<>>, <<settled>>,
                    <<Compacted("settled", {})>>)
           /\ UNCHANGED <<msgs, run, ids, calls, ghosts>>
  BY DEF Settle
<1> DEFINE is == {j \in 1..Len(msgs) : msgs[j].id \in msgs[i].src /\ ~msgs[j].elided
                                         /\ msgs[j].role \in {"user", "assistant"}}
           settled == [j \in 1..Len(msgs) |->
                          IF j \in is THEN [msgs[j] EXCEPT !.elided = TRUE, !.calls = {}]
                          ELSE msgs[j]]
<1>2. Write(Operator, Updates(msgs, is, "elided"), <<>>, <<settled>>, <<Compacted("settled", {})>>)
  BY <1>1
<1>3. UNCHANGED <<msgs, run, ids, calls, crash, forced>>
  BY <1>1 DEF ghosts
<1> HIDE DEF is
<1>4. ASSUME NEW m \in Msg, NEW x, x = [m EXCEPT !.elided = TRUE, !.calls = {}]
      PROVE  x \in Msg /\ x.id = m.id /\ x.role = m.role /\ x.of = m.of /\ x.calls = {}
  BY <1>4 DEF Msg
<1>5. \A j \in 1..Len(msgs) : msgs[j] \in Msg
  BY <1>0
<1>6. \A j \in 1..Len(msgs) :
        settled[j] = IF j \in is THEN [msgs[j] EXCEPT !.elided = TRUE, !.calls = {}] ELSE msgs[j]
  OBVIOUS
<1>7. settled = [j \in 1..Len(msgs) |-> settled[j]]
  OBVIOUS
<1> HIDE DEF settled
<1>8. \A j \in 1..Len(msgs) : /\ settled[j] \in Msg /\ settled[j].id = msgs[j].id
                              /\ settled[j].role = msgs[j].role /\ settled[j].of = msgs[j].of
                              /\ settled[j].calls \in {msgs[j].calls, {}}
  <2>1. TAKE j \in 1..Len(msgs)
  <2>2. CASE j \in is
    BY <1>4, <1>5, <1>6, <2>2
  <2>3. CASE j \notin is
    BY <1>5, <1>6, <2>3
  <2> QED BY <2>2, <2>3
<1>9. settled \in Seq(Msg) /\ Len(settled) = Len(msgs)
  <2>1. settled \in [1..Len(msgs) -> Msg]
    BY <1>7, <1>8
  <2>2. Len(msgs) \in Nat
    BY <1>0
  <2> QED BY <2>1, <2>2
<1>10. Onward /\ \A c \in Fresh' : c <= calls'
  <2>1. ids <= ids'
    BY <1>0, <1>3
  <2>2. \A q \in Runs : run'[q].pc = run[q].pc /\ run'[q].named = run[q].named /\ run'[q].at = run[q].at
    BY <1>3
  <2> QED BY <1>0, <1>3, <2>1, <2>2, StillOnward DEF PairInv
<1>11. Undone
  BY <1>3 DEF Undone
<1>12. Kept(msgs) => KeptAt(settled, Due', Fresh', ids', calls', crash' = "none", AtWork')
  BY <1>0, <1>8, <1>9, <1>10, SameKept
<1> QED BY <1>0, <1>2, <1>3, <1>10, <1>11, <1>12, CopyPairs, WritersAre

LEMMA RestartPairs ==
  ASSUME LoopInv, ChatInv, ChatInv', PairInv, Restart
  PROVE  PairInv'
<1>1. /\ msgs' = proj.messages /\ w' = [b \in Writers |-> Quiet] /\ raced' = raced
      /\ crash' = IF crash = "cut" \/ ~WellPaired(proj.messages) THEN "cut" ELSE "clean"
  BY DEF Restart
<1>2. \A q \in Runs : run'[q].pc \in {"idle", "done"}
  BY RestartIs
<1>3. Due' = {} /\ Fresh' = {} /\ ~AtWork'
  <2>1. \A q \in Runs : DueOf(run'[q]) = {} /\ FreshOf(run'[q]) = {}
    BY <1>2 DEF DueOf, FreshOf
  <2> QED BY <1>2, <2>1 DEF Due, Fresh, AtWork
<1>4. \A b \in Writers : ~Busy(b)'
  BY <1>1 DEF Busy
<1>5. ASSUME Whole' PROVE Kept(msgs)'
  <2>1. crash' = "clean" /\ WellPaired(msgs')
    BY <1>1, <1>5 DEF Whole
  <2>2. msgs' \in Seq(Msg)
    BY DEF ChatInv, BoxInv
  <2>3. Good(msgs', {})
    <3>1. \A i \in 1..Len(msgs') : \A c \in msgs'[i].calls :
            \E j \in i+1..Len(msgs') : msgs'[j].role = "tool" /\ msgs'[j].of = c
      BY <2>1 DEF WellPaired, Answered
    <3>2. msgs' # <<>> => 1 \in 1..Len(msgs')
      BY <2>2
    <3>3. msgs' # <<>> => msgs'[1].calls = {}
      BY <2>1, <3>2 DEF WellPaired
    <3> QED BY <3>1, <3>3 DEF Good
  <2> QED BY <1>3, <2>1, <2>3 DEF Kept, KeptAt
<1>6. \A b \in Writers : Installed(b)' = msgs'
  <2>1. msgs' \o << >> = msgs'
    BY DEF ChatInv, BoxInv
  <2> QED BY <1>1, <2>1, QuietIs DEF Installed
<1> QED BY <1>3, <1>4, <1>5, <1>6 DEF PairInv, Whole, Kept

LEMMA PublishPairs ==
  ASSUME LoopInv, ChatInv, ChatInv', PairInv, NEW a \in Writers, Publish(a)
  PROVE  PairInv'
<1>1. /\ w[a].pre # <<>> /\ w' = [w EXCEPT ![a].pre = Tail(w[a].pre)]
      /\ UNCHANGED <<msgs, run, ids, calls, raced, crash, forced>>
  BY DEF Publish, ghosts
<1>2. w[a] \in Box(a) /\ w = [b \in Writers |-> w[b]]
  BY DEF ChatInv, BoxInv
<1>3. /\ w'[a].app = w[a].app /\ w'[a].repl = w[a].repl /\ \A b \in Writers : b # a => w'[b] = w[b]
  BY <1>1, <1>2 DEF Box
<1>4. \A b \in Writers : Installed(b)' = Installed(b)
  BY <1>1, <1>3 DEF Installed
<1>5. \A b \in Writers : Busy(b)' => Busy(b)
  BY <1>1, <1>3, QuietIs DEF Busy
<1>6. Due' = Due /\ Fresh' = Fresh /\ AtWork' = AtWork
  BY <1>1 DEF Due, Fresh, AtWork
<1> QED BY <1>1, <1>4, <1>5, <1>6 DEF PairInv, Kept

LEMMA InstallPairs ==
  ASSUME LoopInv, ChatInv, ChatInv', PairInv, NEW a \in Writers, Install(a)
  PROVE  PairInv'
<1>1. /\ w[a].app # <<>> \/ w[a].repl # <<>>
      /\ msgs' = Installed(a)
      /\ w' = [w EXCEPT ![a] = [Quiet EXCEPT !.pre = w[a].post]]
      /\ UNCHANGED <<run, ids, calls, raced, crash, forced>>
  BY DEF Install, Installed, ghosts
<1>2. PICK x : x = [Quiet EXCEPT !.pre = w[a].post]
  OBVIOUS
<1>3. x.app = << >> /\ x.repl = << >>
  BY <1>2 DEF Quiet
<1>4. w'[a] = x /\ \A b \in Writers : b # a => w'[b] = w[b]
  BY <1>1, <1>2 DEF ChatInv, BoxInv
<1>5. Busy(a) /\ \A b \in Writers : Busy(b)' => Busy(b)
  <2>1. Busy(a)
    BY <1>1, QuietIs DEF Busy
  <2> QED BY <1>4, <2>1 DEF Busy
<1>6. Due' = Due /\ Fresh' = Fresh /\ AtWork' = AtWork
  BY <1>1 DEF Due, Fresh, AtWork
<1>7. ASSUME Whole' PROVE Kept(msgs)' /\ \A b \in Writers : Kept(Installed(b))'
  <2>1. Kept(Installed(a)) /\ ~raced
    BY <1>1, <1>7 DEF PairInv, Whole
  <2>2. Kept(msgs)'
    BY <1>1, <1>6, <2>1 DEF Kept
  <2>3. \A b \in Writers : Installed(b)' = msgs'
    <3>1. msgs' \o << >> = msgs'
      BY DEF ChatInv, BoxInv
    <3>2. \A b \in Writers : b # a => w[b] = Quiet
      BY <1>5, <2>1 DEF PairInv, Busy
    <3> QED BY <1>3, <1>4, <3>1, <3>2, QuietIs DEF Installed
  <2> QED BY <2>2, <2>3 DEF Kept
<1> QED BY <1>1, <1>5, <1>6, <1>7 DEF PairInv, Whole

LEMMA PairKeeps ==
  ASSUME LoopInv, Unstarted, ChatInv, ChatInv', PairInv, [Next]_vars
  PROVE  PairInv'
<1>0. BoxInv /\ BoxInv'
  BY DEF ChatInv
<1>1. ASSUME NEW r \in Runs,
             Inner(r) \/ Begin(r) \/ Stops(r) \/ ToolStarts(r) \/ ToolReturns(r) \/ EndFlight(r) \/ Finish(r)
      PROVE  PairInv'
  <2>1. CASE Outside(r)
    BY <1>0, <2>1, PlainPairs
  <2>2. CASE ~Outside(r)
    BY <1>0, <1>1, <2>2, CallsPairs, ToolStartsPairs, ToolReturnsPairs, AppendNextPairs DEF Outside, Inner
  <2> QED BY <2>1, <2>2
<1> QED BY StepIs, <1>1, AroundPairs, StartPairs, SettlePairs, RestartPairs, PublishPairs, InstallPairs

\* A transcript that only one writer changes has the result of every call or still expects it,
\* in place and in the copy that compaction, repair or the operator will put back
\* (run.go, compact.go, truncation.go).
THEOREM PairAlways == Spec => []PairInv
<1>1. ASSUME Init PROVE PairInv
  <2>1. \A r \in Runs : run[r].pc = "idle"
    BY <1>1 DEF Init, Asleep
  <2>2. msgs = <<>> /\ w = [b \in Writers |-> Quiet]
    BY <1>1 DEF Init
  <2>3. Due = {} /\ Fresh = {} /\ ~AtWork
    <3>1. \A q \in Runs : DueOf(run[q]) = {} /\ FreshOf(run[q]) = {}
      BY <2>1 DEF DueOf, FreshOf
    <3> QED BY <2>1, <3>1 DEF Due, Fresh, AtWork
  <2>4. \A b \in Writers : ~Busy(b) /\ Installed(b) = msgs
    BY <2>2, QuietIs DEF Busy, Installed
  <2>5. Kept(msgs)
    BY <2>2, <2>3 DEF Kept, KeptAt, Good, Apart
  <2> QED BY <2>3, <2>4, <2>5 DEF PairInv
<1>2. LoopInv /\ Unstarted /\ ChatInv /\ ChatInv' /\ PairInv /\ [Next]_vars => PairInv'
  BY PairKeeps
<1> QED BY <1>1, <1>2, LoopAlways, FlightAlways, ChatAlways, PTL DEF Spec

\* CallsAnswered: no request carries a call without its result, for every number of runs and
\* messages and every order of answers, compaction, repair and stops (run.go).
THEOREM CallsAnsweredAlways == Spec => []CallsAnswered
<1>1. ASSUME PairInv, ChatInv PROVE CallsAnswered
  <2>1. ASSUME ~raced, crash # "cut", forced = {}, NEW r \in Runs, run[r].pc = "call",
               NEW i \in 1..Len(msgs)
        PROVE  Answered(msgs, i)
    <3>1. Good(msgs, Due)
      BY <1>1, <2>1 DEF PairInv, Kept, KeptAt
    <3>2. Due = {}
      <4>1. Due = DueOf(run[r])
        BY <1>1, <2>1, AloneIs DEF ChatInv
      <4> QED BY <2>1, <4>1 DEF DueOf
    <3> QED BY <3>1, <3>2 DEF Good, Answered
  <2> QED BY <2>1 DEF CallsAnswered
<1> QED BY <1>1, PairAlways, ChatAlways, PTL
=============================================================================
