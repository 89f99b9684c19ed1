----------------------------- MODULE Windowing -----------------------------
(***************************************************************************)
(* WindowChatMessages (main.go 1049-1161): makes a conversation that is    *)
(* too long fit a budget.  It keeps a leading system message, shortens the *)
(* latest message to head and tail, and keeps as many of the most recent   *)
(* turns in between as fit.                                                *)
(*                                                                         *)
(* Contents are lengths in bytes.  A message has a length len, and core,   *)
(* the length that collapseRepetitions leaves of it: that function only    *)
(* returns a text when it is shorter (977, 1008).  Slicing at character    *)
(* boundaries (933-952) may cost up to RuneSlack bytes on either side.     *)
(*                                                                         *)
(* One action is one round of a loop, or the code between two loops.       *)
(***************************************************************************)
EXTENDS Integers, Sequences

CONSTANTS
  Histories,              \* the conversations that may arrive
  TargetSafePayloadBytes, \* targetBudget of both callers
  SingleMessageHeadBytes, SingleMessageTailBytes,
  MinUserBytes,           \* what a user message gets at least (1085)
  MinRemBytes,            \* turns are kept if more than this is left (1137)
  MarkerBytes,            \* length of the note in a shortened message
  TombstoneBytes,         \* length of the note for the dropped turns
  RuneSlack

Message == [system : BOOLEAN, len : Nat, core : Nat]

\* The defaults of the code (926-935, 1085, 1137) satisfy these with room.
ASSUME WindowAssumption ==
  /\ {TargetSafePayloadBytes, SingleMessageHeadBytes, SingleMessageTailBytes,
      MinUserBytes, MinRemBytes, MarkerBytes, TombstoneBytes, RuneSlack} \subseteq Nat
  /\ SingleMessageHeadBytes + SingleMessageTailBytes + MinUserBytes
       <= TargetSafePayloadBytes
  /\ MinUserBytes <= SingleMessageHeadBytes
  /\ 2 * RuneSlack <= MarkerBytes
ASSUME HistoriesAssumption ==
  \A h \in Histories : /\ h \in Seq(Message)
                       /\ h # <<>>
                       /\ \A i \in DOMAIN h : h[i].core <= h[i].len

VARIABLES
  history,    \* messages, the argument
  step,       \* where the function is
  next,       \* index of the loop that runs, from the end in "turns"
  totalLen,   \* bytes of the messages
  remBudget,  \* what is left for the turns in the middle
  latest,     \* bytes of the last message of the result
  kept,       \* number of turns in the middle that are retained
  keptBytes,  \* and their bytes
  droppedCount
windowVars == <<history, step, next, totalLen, remBudget, latest, kept,
                keptBytes, droppedCount>>

Steps == {"idle", "measure", "split", "turns", "same", "one", "two", "many"}
(* The function has returned: with the messages as they are, or one, two   *)
(* or more of them windowed.                                               *)
Returned == step \in {"same", "one", "two", "many"}

HeadAndTail == SingleMessageHeadBytes + SingleMessageTailBytes
hasSystem == history[1].system
SystemBytes == IF hasSystem THEN history[1].len ELSE 0
LatestMessage == history[Len(history)]
(* Index of the oldest turn in the middle.                                 *)
FirstMiddle == IF hasSystem THEN 2 ELSE 1

(* Fault: only the head is kept.                                           *)
windowSingleMessageHead(m, maxBytes) ==
  LET head == IF HeadAndTail >= maxBytes THEN maxBytes \div 2 ELSE SingleMessageHeadBytes
  IN IF m.core <= maxBytes THEN {m.core}
     ELSE {head + MarkerBytes - cut : cut \in 0..RuneSlack}

(* Lengths windowSingleMessage can return for a budget of maxBytes.        *)
windowSingleMessage(m, maxBytes) ==
  LET sides == IF HeadAndTail >= maxBytes THEN 2 * (maxBytes \div 2) ELSE HeadAndTail
  IN IF m.core <= maxBytes THEN {m.core}
     ELSE {sides + MarkerBytes - cut : cut \in 0..2 * RuneSlack}

-----------------------------------------------------------------------------
WindowInit ==
  /\ history = <<>> /\ step = "idle" /\ next = 0 /\ totalLen = 0
  /\ remBudget = 0 /\ latest = 0 /\ kept = 0 /\ keptBytes = 0 /\ droppedCount = 0

(* The function is called.                                                 *)
CallWindow(h) ==
  /\ step = "idle"
  /\ history' = h /\ step' = "measure" /\ next' = 1 /\ totalLen' = 0
  /\ remBudget' = 0 /\ latest' = 0 /\ kept' = 0 /\ keptBytes' = 0
  /\ droppedCount' = 0

(* The first loop adds up the lengths.                                     *)
Measure ==
  /\ step = "measure" /\ next <= Len(history)
  /\ totalLen' = totalLen + history[next].len
  /\ next' = next + 1
  /\ UNCHANGED <<history, step, remBudget, latest, kept, keptBytes, droppedCount>>

(* Everything fits: the messages are returned as they are.                 *)
ReturnSame ==
  /\ step = "measure" /\ next > Len(history)
  /\ totalLen <= TargetSafePayloadBytes
  /\ step' = "same"
  /\ UNCHANGED <<history, next, totalLen, remBudget, latest, kept, keptBytes,
                 droppedCount>>

TooLong == /\ step = "measure" /\ next > Len(history)
           /\ totalLen > TargetSafePayloadBytes

(* Case 1: a single message gets the whole budget.                         *)
WindowOne ==
  /\ TooLong /\ Len(history) = 1
  /\ latest' \in windowSingleMessage(history[1], TargetSafePayloadBytes)
  /\ step' = "one"
  /\ UNCHANGED <<history, next, totalLen, remBudget, kept, keptBytes, droppedCount>>

(* Fault: there is no floor under the budget of the user message.          *)
WindowTwoNoFloor ==
  /\ TooLong /\ Len(history) = 2
  /\ latest' \in windowSingleMessage(history[2], TargetSafePayloadBytes - history[1].len)
  /\ step' = "two"
  /\ UNCHANGED <<history, next, totalLen, remBudget, kept, keptBytes, droppedCount>>

(* Case 2: the second of two messages gets what the first leaves of it.    *)
WindowTwo ==
  /\ TooLong /\ Len(history) = 2
  /\ LET left == TargetSafePayloadBytes - history[1].len
         budgetForUser == IF left < MinUserBytes THEN MinUserBytes ELSE left
     IN latest' \in windowSingleMessage(history[2], budgetForUser)
  /\ step' = "two"
  /\ UNCHANGED <<history, next, totalLen, remBudget, kept, keptBytes, droppedCount>>

(* Fault: what is left for the middle does not account for the system      *)
(* message.                                                                *)
WindowLatestOnly ==
  /\ TooLong /\ Len(history) > 2
  /\ LET left == TargetSafePayloadBytes - SystemBytes
         availForLatest == IF left < HeadAndTail THEN HeadAndTail ELSE left
     IN latest' \in windowSingleMessage(LatestMessage, availForLatest)
  /\ remBudget' = TargetSafePayloadBytes - latest'
  /\ next' = Len(history) - 1
  /\ step' = "split"
  /\ UNCHANGED <<history, totalLen, kept, keptBytes, droppedCount>>

(* Case 3: the latest turn is windowed first; it gets head and tail at     *)
(* least.  What it and the system message leave is for the middle.         *)
WindowLatest ==
  /\ TooLong /\ Len(history) > 2
  /\ LET left == TargetSafePayloadBytes - SystemBytes
         availForLatest == IF left < HeadAndTail THEN HeadAndTail ELSE left
     IN latest' \in windowSingleMessage(LatestMessage, availForLatest)
  /\ remBudget' = TargetSafePayloadBytes - (latest' + SystemBytes)
  /\ next' = Len(history) - 1
  /\ step' = "split"
  /\ UNCHANGED <<history, totalLen, kept, keptBytes, droppedCount>>

(* Too little is left: all turns in the middle are dropped.                *)
DropMiddle ==
  /\ step = "split" /\ remBudget <= MinRemBytes
  /\ droppedCount' = Len(history) - FirstMiddle
  /\ step' = "many"
  /\ UNCHANGED <<history, next, totalLen, remBudget, latest, kept, keptBytes>>

EnterTurns ==
  /\ step = "split" /\ remBudget > MinRemBytes
  /\ step' = "turns"
  /\ UNCHANGED <<history, next, totalLen, remBudget, latest, kept, keptBytes,
                 droppedCount>>

(* The loop over the middle, newest first, keeps a turn that fits.         *)
KeepTurn ==
  /\ step = "turns" /\ next >= FirstMiddle
  /\ history[next].len <= remBudget
  /\ remBudget' = remBudget - history[next].len
  /\ keptBytes' = keptBytes + history[next].len
  /\ kept' = kept + 1
  /\ next' = next - 1
  /\ UNCHANGED <<history, step, totalLen, latest, droppedCount>>

(* Fault: the loop goes on to older turns behind one that does not fit.    *)
DropTurnGoesOn ==
  /\ step = "turns" /\ next >= FirstMiddle
  /\ history[next].len > remBudget
  /\ droppedCount' = droppedCount + 1
  /\ next' = next - 1
  /\ UNCHANGED <<history, step, totalLen, remBudget, latest, kept, keptBytes>>

(* The first one that does not fit is dropped with everything before it.   *)
DropTurn ==
  /\ step = "turns" /\ next >= FirstMiddle
  /\ history[next].len > remBudget
  /\ droppedCount' = droppedCount + (next - FirstMiddle + 1)
  /\ step' = "many"
  /\ UNCHANGED <<history, next, totalLen, remBudget, latest, kept, keptBytes>>

KeepAll ==
  /\ step = "turns" /\ next < FirstMiddle
  /\ step' = "many"
  /\ UNCHANGED <<history, next, totalLen, remBudget, latest, kept, keptBytes,
                 droppedCount>>

WindowStep ==
  \/ Measure \/ ReturnSame \/ WindowOne \/ WindowTwo \/ WindowLatest
  \/ DropMiddle \/ EnterTurns \/ KeepTurn \/ DropTurn \/ KeepAll

(* The caller has taken the result.                                        *)
WindowDone ==
  /\ Returned
  /\ history' = <<>> /\ step' = "idle" /\ next' = 0 /\ totalLen' = 0
  /\ remBudget' = 0 /\ latest' = 0 /\ kept' = 0 /\ keptBytes' = 0
  /\ droppedCount' = 0

WindowNext == (\E h \in Histories : CallWindow(h)) \/ WindowStep \/ WindowDone
WindowSpec == WindowInit /\ [][WindowNext]_windowVars

-----------------------------------------------------------------------------
(* Bytes of the content of the messages returned.                          *)
ResultBytes ==
  CASE step = "same" -> totalLen
    [] step = "one"  -> latest
    [] step = "two"  -> history[1].len + latest
    [] step = "many" -> SystemBytes + keptBytes + latest
                          + (IF droppedCount > 0 THEN TombstoneBytes ELSE 0)

(* Bytes that are kept whatever their number: the first message where the  *)
(* code never shortens it.                                                 *)
FixedBytes == IF Len(history) = 2 THEN history[1].len ELSE SystemBytes

WindowTypeOK ==
  /\ history \in Seq(Message)
  /\ step \in Steps
  /\ {next, totalLen, latest, kept, keptBytes, droppedCount} \subseteq Nat
  /\ remBudget \in Int

(* The result fits the budget but for the two notes, if the message that   *)
(* is never shortened leaves room for head and tail of the latest one; if  *)
(* it does not, it comes on top of those.                                  *)
ResultFits ==
  Returned =>
    ResultBytes <= (IF FixedBytes + HeadAndTail <= TargetSafePayloadBytes
                    THEN TargetSafePayloadBytes ELSE FixedBytes + HeadAndTail)
                   + MarkerBytes + TombstoneBytes

(* Nothing is lost without trace: the retained turns and those counted in  *)
(* the note for dropped ones make up the middle, the retained ones are the *)
(* newest, and one was dropped only if it did not fit or hardly anything   *)
(* was left.                                                               *)
NewestKept ==
  step = "many" =>
    /\ kept + droppedCount = Len(history) - FirstMiddle
    /\ droppedCount > 0 =>
         \/ remBudget <= MinRemBytes
         \/ history[Len(history) - 1 - kept].len > remBudget

(* The latest message survives: whole if it fits what it is due, else with *)
(* as much of head and tail as that allows.                                *)
LatestSurvives ==
  step \in {"one", "two", "many"} =>
    \/ latest = LatestMessage.core
    \/ latest + 2 * RuneSlack + 1 >=
         MarkerBytes + (IF step = "two" THEN MinUserBytes ELSE HeadAndTail)
=============================================================================
