--------------------------- MODULE ThinkingControl ---------------------------
(***************************************************************************)
(* ThinkingControl and ReasoningScan of src/thinking.rs: the automaton     *)
(* that reads a reasoning block as it is drawn and says when to insert a   *)
(* nudge or a close.  Text is a sequence of characters told apart as far   *)
(* as the rules do; a tool call's tags are one symbol each.                *)
(*                                                                         *)
(* `line`, `fence_line` and `in_block` follow the text a second way, a     *)
(* whole line at a time by CommonMark's rules, for the properties.         *)
(***************************************************************************)
EXTENDS Integers, SequencesExt, Functions

CONSTANTS Pieces,    \* the texts of the model's ordinary tokens
          Levels,    \* the nudges' fractions of the budget: <<num, den>>, rising
          Thinkings, \* the settings a request may come with
          MaxDraws   \* bound: tokens drawn

Characters == {"word", "mark", "blank", "newline", "tick", "tilde", "call", "call_end"}
NoBudget == 0 \* a budget of the request's is at least one

ASSUME ThinkingAssumption ==
    /\ Pieces \subseteq Seq(Characters) \ {<<>>}
    /\ Levels \in Seq((Nat \ {0}) \X (Nat \ {0}))
    /\ Thinkings \subseteq [budget : Nat, grace : Nat, nudges : BOOLEAN, ends : BOOLEAN]
    /\ MaxDraws \in Nat

VARIABLES
    settings,   \* ThinkingSettings (`ends`: tool_call_ends_thinking)
    open, counted, level, closed, \* ThinkingControl
    scan,       \* ReasoningScan
    action,     \* the last answer, and what held when it was given
    taken,      \* tokens drawn while the block is open
    line, fence_line, in_block \* the current line, the open fence, in a kept call

thinkingVars == <<settings, open, counted, level, closed, scan, action, taken,
                  line, fence_line, in_block>>

------------------------------------------------------------------------------
(* ReasoningScan, a character at a time.                                   *)

NoFence == [ch |-> "none", len |-> 0]
TextLine == [at |-> "text"]
Indent(n) == [at |-> "indent", n |-> n]
Run(ch, len) == [at |-> "run", run |-> [ch |-> ch, len |-> len]]
After(run, blank, tick) == [at |-> "after", run |-> run, blank |-> blank, tick |-> tick]

lead_next(lead, c) ==
    CASE lead.at = "indent" /\ c = "blank" /\ lead.n < 3 -> Indent(lead.n + 1)
      [] lead.at = "indent" /\ c \in {"tick", "tilde"} -> Run(c, 1)
      [] lead.at = "run" /\ c = lead.run.ch -> Run(c, lead.run.len + 1)
      [] lead.at = "run" /\ c # lead.run.ch /\ lead.run.len >= 3 -> After(lead.run, c = "blank", c = "tick")
      [] lead.at = "after" -> After(lead.run, lead.blank /\ c = "blank", lead.tick \/ c = "tick")
      [] OTHER -> TextLine

opens(lead) ==
    IF \/ lead.at = "run" /\ lead.run.len >= 3
       \/ lead.at = "after" /\ ~(lead.run.ch = "tick" /\ lead.tick)
    THEN lead.run ELSE NoFence

closes(lead, fence) ==
    /\ lead.at = "run" \/ (lead.at = "after" /\ lead.blank)
    /\ lead.run.ch = fence.ch /\ lead.run.len >= fence.len

NewScan == [last |-> "none", bol |-> TRUE, lead |-> Indent(0), fence |-> NoFence, call |-> FALSE]

trailing_newlines(s) == s.bol
LineEnd(s) ==
    [s EXCEPT !.last = "newline", !.bol = TRUE, !.lead = Indent(0),
              !.fence = CASE s.call -> s.fence
                          [] ~s.call /\ s.fence = NoFence -> opens(s.lead)
                          [] OTHER -> IF closes(s.lead, s.fence) THEN NoFence ELSE s.fence]

push(s, c) ==
    LET read == [s EXCEPT !.last = c, !.bol = FALSE]
    IN  CASE c = "newline" -> LineEnd(s)
          [] c # "newline" /\ s.call -> [read EXCEPT !.call = c # "call_end"]
          [] c = "call" /\ ~s.call /\ s.bol /\ s.fence = NoFence -> [read EXCEPT !.call = TRUE, !.lead = TextLine]
          [] OTHER -> [read EXCEPT !.lead = lead_next(s.lead, c)]

feed(s, text) == FoldLeft(push, s, text)

in_fence(s) == IF s.fence # NoFence THEN ~closes(s.lead, s.fence)
                                    ELSE ~s.call /\ opens(s.lead) # NoFence
call_may_start(s) == trailing_newlines(s) /\ s.fence = NoFence /\ ~s.call

------------------------------------------------------------------------------
(* ThinkingControl.                                                        *)

tool_call_would_close == settings.ends /\ call_may_start(scan)
MayActOnCalls == open /\ tool_call_would_close \* mutant: forgets the budget
may_act_next == open /\ (settings.budget # NoBudget \/ tool_call_would_close)

(* The count at which the next level's nudge is due: ceil(at * budget).    *)
nudge_at == LET n == Levels[level + 1][1] * settings.budget
                d == Levels[level + 1][2]
            IN  IF (n + d - 1) \div d < 1 THEN 1 ELSE (n + d - 1) \div d
NudgeLeft == settings.nudges /\ level < Len(Levels)

SeamAt(s) == IF trailing_newlines(s) THEN "line_start"
             ELSE IF s.last = "blank" THEN "none"
             ELSE IF s.last = "word" THEN "word" ELSE "symbol"

(* Whether the budget's close may land here, `over` tokens late.           *)
close_seam(s, over) ==
    /\ ~s.call /\ ~in_fence(s) /\ SeamAt(s) # "none"
    /\ \/ over >= 2 * settings.grace
       \/ SeamAt(s) = "line_start"
       \/ over >= settings.grace /\ s.last = "mark"

nudge_place(s, over) ==
    IF over =< settings.grace /\ trailing_newlines(s) /\ ~in_fence(s) /\ ~s.call THEN "here"
    ELSE IF over >= settings.grace THEN "never" ELSE "wait"

(* A nudge is a sentence and an empty line.                                *)
NudgeText == <<"word", "mark", "newline", "newline">>

------------------------------------------------------------------------------
(* The same text by lines: indent, run of one character, the rest.         *)

BlanksOf(l) == CHOOSE n \in 0 .. Len(l) :
    (\A i \in 1 .. n : l[i] = "blank") /\ (n < Len(l) => l[n + 1] # "blank")
RunOf(l) == LET b == BlanksOf(l)
            IN  CHOOSE n \in 0 .. Len(l) - b :
                   /\ \A i \in b + 1 .. b + n : l[i] = l[b + 1] /\ l[i] \in {"tick", "tilde"}
                   /\ b + n < Len(l) => l[b + n + 1] # l[b + 1] \/ l[b + 1] \notin {"tick", "tilde"}
RestOf(l) == SubSeq(l, BlanksOf(l) + RunOf(l) + 1, Len(l))
IsFenceLine(l) == BlanksOf(l) =< 3 /\ RunOf(l) >= 3
FenceOf(l) == [ch |-> l[BlanksOf(l) + 1], len |-> RunOf(l)]

(* The fence that is open behind a line, `before` being open in front.     *)
FenceBehind(before, l) ==
    IF before = NoFence
    THEN IF IsFenceLine(l) /\ ~(FenceOf(l).ch = "tick" /\ Contains(RestOf(l), "tick"))
         THEN FenceOf(l) ELSE NoFence
    ELSE IF /\ IsFenceLine(l) /\ FenceOf(l).ch = before.ch /\ FenceOf(l).len >= before.len
            /\ \A i \in DOMAIN RestOf(l) : RestOf(l)[i] = "blank"
         THEN NoFence ELSE before

(* A line that starts with a call outside a fence, up to the line its end  *)
(* is on, is not Markdown.                                                 *)
ReadChar(at, c) ==
    LET call == IF at.call THEN c # "call_end" ELSE (c = "call" /\ at.line = <<>> /\ at.fence = NoFence)
    IN  [fence |-> IF c = "newline" /\ ~at.call THEN FenceBehind(at.fence, at.line) ELSE at.fence,
         line  |-> CASE c = "newline" -> <<>>
                     [] c # "newline" /\ at.call -> IF c = "call_end" THEN <<c>> ELSE <<"call">>
                     [] OTHER -> Append(at.line, c),
         call  |-> call]
ReadFrom(at, text) == FoldLeft(ReadChar, at, text)
ReadAll(text) == ReadFrom([fence |-> fence_line, line |-> line, call |-> in_block], text)

Reads(text) ==
    LET at == ReadAll(text)
    IN  fence_line' = at.fence /\ line' = at.line /\ in_block' = at.call

(* What an insertion at the end of the text, which starts with a line end  *)
(* unless the text ends with one, would be inside of.                      *)
InsideCode(at) == at.call \/ FenceBehind(at.fence, at.line) # NoFence

------------------------------------------------------------------------------
(* The text read so far keeps to what CommonMark and the scan both know: a *)
(* call's end is the last thing on its line.                               *)
CallsEndLines(text) ==
    LET all == line \o text
    IN  \A i \in 1 .. Len(all) - 1 : all[i] = "call_end" => all[i + 1] = "newline"

Says(kind, over) == action' = [kind |-> kind, announced |-> may_act_next, over |-> over]

Drawn == taken < MaxDraws /\ taken' = taken + 1

(* Behind the block the control is silent, and the text is the answer's.   *)
Closed ==
    /\ ~open /\ Says("keep", 0)
    /\ UNCHANGED <<open, counted, level, closed, scan, taken, line, fence_line, in_block>>

(* decide, of an ordinary token: it is counted and read first.             *)
NudgeIsDue(n) == n < settings.budget /\ NudgeLeft /\ n >= nudge_at
Place(s, n) == IF NudgeIsDue(n) THEN nudge_place(s, n - nudge_at) ELSE "wait"

BudgetCloses(text, s, n) ==
    /\ open' = FALSE /\ closed' = "budget" /\ scan' = s
    /\ Reads(text) /\ Says("close", n - settings.budget) /\ UNCHANGED level

(* The nudge is read like the model's own text.                            *)
Nudged(text, s, n) ==
    /\ level' = level + 1 /\ scan' = feed(s, NudgeText)
    /\ Reads(text \o NudgeText) /\ Says("nudge", n - nudge_at) /\ UNCHANGED <<open, closed>>

Kept(text, s, n) ==
    /\ level' = IF Place(s, n) = "never" THEN level + 1 ELSE level
    /\ scan' = s /\ Reads(text) /\ Says("keep", 0) /\ UNCHANGED <<open, closed>>

Observe(text) == \E s \in {feed(scan, text)}, n \in {counted + 1} :
    LET closes_here == settings.budget # NoBudget /\ n >= settings.budget
                       /\ close_seam(s, n - settings.budget)
    IN  /\ open /\ CallsEndLines(text) /\ counted' = n
        /\ \/ closes_here /\ BudgetCloses(text, s, n)
           \/ ~closes_here /\ Place(s, n) = "here" /\ Nudged(text, s, n)
           \/ ~closes_here /\ Place(s, n) # "here" /\ Kept(text, s, n)

(* decide, of `</think>`.                                                  *)
ModelCloses ==
    /\ open /\ open' = FALSE /\ Says("keep", 0)
    /\ UNCHANGED <<counted, level, closed, scan, line, fence_line, in_block>>

(* decide, of a `<tool_call>` that ends thinking, and of one that does not.*)
ToolCall ==
    \/ /\ open /\ tool_call_would_close
       /\ open' = FALSE /\ closed' = "tool_call" /\ Says("before", 0)
       /\ UNCHANGED <<counted, level, scan, line, fence_line, in_block>>
    \/ ~tool_call_would_close /\ Observe(<<"call">>)

(* decide_stop: with a budget, inside the block, the close replaces it.    *)
decide_stop ==
    /\ open /\ settings.budget # NoBudget
    /\ open' = FALSE /\ closed' = "end_of_turn" /\ Says("replace", 0)
    /\ UNCHANGED <<counted, level, scan, line, fence_line, in_block>>

ThinkingInit ==
    /\ settings \in Thinkings
    /\ open \in BOOLEAN /\ counted = 0 /\ level = 0 /\ closed = "no" /\ scan = NewScan
    /\ action = [kind |-> "keep", announced |-> FALSE, over |-> 0] /\ taken = 0
    /\ line = <<>> /\ fence_line = NoFence /\ in_block = FALSE

ThinkingNext ==
    /\ UNCHANGED settings
    /\ \/ Drawn /\ \E text \in Pieces \cup {<<"call_end">>} : Observe(text)
       \/ Drawn /\ ModelCloses
       \/ Drawn /\ ToolCall
       \/ Drawn /\ decide_stop
       \/ Closed

ThinkingSpec == ThinkingInit /\ [][ThinkingNext]_thinkingVars

------------------------------------------------------------------------------
Here == [fence |-> fence_line, line |-> line, call |-> in_block]

(* A nudge has been read with the text: before it, the line was empty.     *)
(* An insertion never lands inside a code fence or a call the block kept;  *)
(* a stop token's replacement may.  (close_seam, nudge_place)              *)
OutsideCode == action.kind \in {"close", "nudge"} => ~InsideCode(Here)

(* The loops commit a step ahead of every draw may_act_next did not        *)
(* announce, so only an announced draw is ever answered with an insertion. *)
OnlyAnnounced == action.kind # "keep" => action.announced

(* Past both windows the block stays open only inside a fence or a call,   *)
(* or right behind a blank where no seam is clean.                         *)
CloseWaitsNoLonger ==
    open /\ settings.budget # NoBudget /\ counted >= settings.budget + 2 * settings.grace
    => InsideCode(Here) \/ (line # <<>> /\ Last(line) = "blank")

(* A close lands early only where its window allows, a nudge only in its   *)
(* own window and at the start of a line.                                  *)
InItsWindow ==
    /\ action.kind = "nudge" => action.over \in 0 .. settings.grace /\ line = <<>>
    /\ action.kind = "close" =>
          /\ action.over < settings.grace => line = <<>>
          /\ action.over < 2 * settings.grace => line = <<>> \/ Last(line) = "mark"

(* A control that acted with a close keeps silent for good, and says how   *)
(* it closed the block.                                                    *)
ClosedOnce == (action.kind \in {"close", "before", "replace"} => closed # "no" /\ ~open)
              /\ (closed # "no" => ~open)

(* What the decode loops, the output parser and a request's budget rely on *)
(* of the thinking control, in one invariant.  (decide, decide_stop,       *)
(* may_act_next of src/thinking.rs)                                        *)
ThinkingActs ==
    OutsideCode /\ OnlyAnnounced /\ CloseWaitsNoLonger /\ InItsWindow /\ ClosedOnce
=============================================================================
