-------------------------- MODULE WindowingProofs --------------------------
(***************************************************************************)
(* Proofs about Windowing: for any conversation and any sizes that satisfy *)
(* the assumptions, what WindowChatMessages returns fits its budget, keeps *)
(* the newest turns and the latest message.                                *)
(*                                                                         *)
(* The inductive invariant says what each loop has established: while the  *)
(* middle is walked, the remaining budget is the target without what is    *)
(* kept already, and every turn behind "next" is kept.                     *)
(***************************************************************************)
EXTENDS Windowing, TLAPS

(* What the latest message is given of the budget in each case.            *)
UserBudget ==
  LET left == TargetSafePayloadBytes - history[1].len
  IN IF left < MinUserBytes THEN MinUserBytes ELSE left
LatestBudget ==
  LET left == TargetSafePayloadBytes - SystemBytes
  IN IF left < HeadAndTail THEN HeadAndTail ELSE left

Numbers ==
  /\ step \in Steps
  /\ next \in Nat /\ totalLen \in Nat /\ latest \in Nat
  /\ kept \in Nat /\ keptBytes \in Nat /\ droppedCount \in Nat
  /\ remBudget \in Int
  /\ history \in Histories \cup {<<>>}
  /\ step # "idle" => history \in Histories

ShortCases ==
  /\ step = "same" => totalLen <= TargetSafePayloadBytes
  /\ step = "one" => /\ Len(history) = 1
                     /\ latest \in windowSingleMessage(history[1], TargetSafePayloadBytes)
  /\ step = "two" => /\ Len(history) = 2
                     /\ latest \in windowSingleMessage(history[2], UserBudget)

Budget ==
  step \in {"split", "turns", "many"} =>
    /\ Len(history) > 2
    /\ latest \in windowSingleMessage(LatestMessage, LatestBudget)
    /\ remBudget = TargetSafePayloadBytes - (latest + SystemBytes) - keptBytes
    /\ keptBytes > 0 => remBudget >= 0

Walk ==
  /\ step = "split" => next = Len(history) - 1 /\ kept = 0 /\ keptBytes = 0
  /\ step \in {"measure", "split", "turns"} => droppedCount = 0 /\ keptBytes \in Nat
  /\ step = "measure" => next >= 1 /\ kept = 0 /\ keptBytes = 0
  /\ step = "turns" => /\ next \in FirstMiddle - 1..Len(history) - 1
                       /\ kept = Len(history) - 1 - next
                       /\ remBudget >= 0

WindowInv == Numbers /\ ShortCases /\ Budget /\ Walk /\ NewestKept

-----------------------------------------------------------------------------
(* windowSingleMessage returns what is left of the message after the       *)
(* repetitions, or head and tail with the note: never more than the budget *)
(* and the note, and never less than the budget or head and tail allow.    *)
LEMMA WindowedLength ==
  ASSUME NEW m \in Message, NEW b \in Nat, NEW n \in windowSingleMessage(m, b)
  PROVE  /\ n \in Nat
         /\ n <= b + MarkerBytes
         /\ \/ n = m.core
            \/ n + 2 * RuneSlack + 1 >=
                 MarkerBytes + (IF HeadAndTail <= b THEN HeadAndTail ELSE b)
<1>1. CASE m.core <= b
  BY <1>1, WindowAssumption DEF windowSingleMessage, Message
<1>2. CASE ~(m.core <= b)
  <2> DEFINE sides == IF HeadAndTail >= b THEN 2 * (b \div 2) ELSE HeadAndTail
  <2>1. PICK cut \in 0..2 * RuneSlack : n = sides + MarkerBytes - cut
    BY <1>2 DEF windowSingleMessage
  <2>2. HeadAndTail \in Nat
    BY WindowAssumption DEF HeadAndTail
  <2>3. /\ sides \in Nat /\ sides <= b
        /\ sides + 1 >= IF HeadAndTail <= b THEN HeadAndTail ELSE b
    BY <2>2
  <2> HIDE DEF sides
  <2> QED
    BY <2>1, <2>2, <2>3, WindowAssumption
<1> QED
  BY <1>1, <1>2

(* Facts about any conversation.                                           *)
LEMMA HistoryFacts ==
  ASSUME NEW h \in Histories
  PROVE  /\ h \in Seq(Message) /\ Len(h) \in Nat \ {0}
         /\ \A i \in 1..Len(h) : h[i] \in Message /\ h[i].len \in Nat
                                   /\ h[i].core \in Nat /\ h[i].system \in BOOLEAN
<1>1. h \in Seq(Message) /\ h # <<>>
  BY HistoriesAssumption
<1>2. Len(h) \in Nat \ {0}
  BY <1>1
<1>3. ASSUME NEW i \in 1..Len(h) PROVE h[i] \in Message
  BY <1>1
<1> QED
  BY <1>1, <1>2, <1>3 DEF Message

(* And about the one that is windowed.                                     *)
LEMMA SizeFacts ==
  ASSUME history \in Histories
  PROVE  /\ SystemBytes \in Nat /\ HeadAndTail \in Nat
         /\ FirstMiddle \in 1..2
         /\ LatestMessage \in Message
         /\ LatestBudget \in Nat /\ HeadAndTail <= LatestBudget
         /\ SystemBytes + LatestBudget =
              IF SystemBytes + HeadAndTail <= TargetSafePayloadBytes
              THEN TargetSafePayloadBytes ELSE SystemBytes + HeadAndTail
         /\ UserBudget \in Nat /\ MinUserBytes <= UserBudget
         /\ history[1].len + UserBudget =
              IF history[1].len + MinUserBytes <= TargetSafePayloadBytes
              THEN TargetSafePayloadBytes ELSE history[1].len + MinUserBytes
<1>1. history[1].len \in Nat /\ LatestMessage \in Message
  BY HistoryFacts DEF LatestMessage
<1>2. SystemBytes \in Nat /\ HeadAndTail \in Nat /\ FirstMiddle \in 1..2
  BY <1>1, WindowAssumption DEF SystemBytes, HeadAndTail, FirstMiddle
<1>3. TargetSafePayloadBytes \in Nat /\ MinUserBytes \in Nat
  BY WindowAssumption
<1>4. /\ LatestBudget \in Nat /\ HeadAndTail <= LatestBudget
      /\ SystemBytes + LatestBudget =
           IF SystemBytes + HeadAndTail <= TargetSafePayloadBytes
           THEN TargetSafePayloadBytes ELSE SystemBytes + HeadAndTail
  BY <1>2, <1>3 DEF LatestBudget
<1>5. /\ UserBudget \in Nat /\ MinUserBytes <= UserBudget
      /\ history[1].len + UserBudget =
           IF history[1].len + MinUserBytes <= TargetSafePayloadBytes
           THEN TargetSafePayloadBytes ELSE history[1].len + MinUserBytes
  BY <1>1, <1>3 DEF UserBudget
<1> QED
  BY <1>1, <1>2, <1>4, <1>5

-----------------------------------------------------------------------------
LEMMA WindowInitInv == WindowInit => WindowInv
  BY WindowAssumption
  DEF WindowInit, WindowInv, Numbers, ShortCases, Budget, Walk, NewestKept, Steps

LEMMA WindowStepInv == WindowInv /\ [WindowNext]_windowVars => WindowInv'
<1> SUFFICES ASSUME WindowInv, [WindowNext]_windowVars PROVE WindowInv'
  OBVIOUS
<1> USE DEF WindowInv, Numbers, Steps
<1>1. ASSUME NEW h \in Histories, CallWindow(h) PROVE WindowInv'
  BY <1>1 DEF CallWindow, ShortCases, Budget, Walk, NewestKept
<1>2. CASE Measure
  <2>1. history[next].len \in Nat
    <3>1. history \in Histories /\ next \in Nat /\ next <= Len(history)
      BY <1>2 DEF Measure
    <3>2. next >= 1
      BY <1>2 DEF Measure, Walk
    <3> QED
      BY <3>1, <3>2, HistoryFacts
  <2> QED
    BY <1>2, <2>1 DEF Measure, ShortCases, Budget, Walk, NewestKept
<1>3. CASE ReturnSame
  BY <1>3 DEF ReturnSame, ShortCases, Budget, Walk, NewestKept
<1>4. CASE WindowOne
  <2>1. history \in Histories /\ history[1] \in Message
    <3>1. history \in Histories /\ Len(history) = 1
      BY <1>4 DEF WindowOne, TooLong
    <3> QED
      BY <3>1, HistoryFacts
  <2>2. latest' \in Nat
    BY <1>4, <2>1, WindowedLength, WindowAssumption DEF WindowOne
  <2>3. ShortCases'
    BY <1>4 DEF WindowOne, TooLong, ShortCases, windowSingleMessage
  <2> QED
    BY <1>4, <2>2, <2>3 DEF WindowOne, TooLong, Budget, Walk, NewestKept
<1>5. CASE WindowTwo
  <2>1. history \in Histories /\ history[2] \in Message
    <3>1. history \in Histories /\ Len(history) = 2
      BY <1>5 DEF WindowTwo, TooLong
    <3> QED
      BY <3>1, HistoryFacts
  <2>2. latest' \in windowSingleMessage(history[2], UserBudget)
    BY <1>5 DEF WindowTwo, UserBudget
  <2>3. latest' \in Nat
    BY <2>1, <2>2, WindowedLength, SizeFacts
  <2>4. ShortCases'
    BY <1>5, <2>2 DEF WindowTwo, TooLong, ShortCases, windowSingleMessage, UserBudget
  <2> QED
    BY <1>5, <2>3, <2>4 DEF WindowTwo, TooLong, Budget, Walk, NewestKept
<1>6. CASE WindowLatest
  <2>1. history \in Histories
    BY <1>6 DEF WindowLatest, TooLong
  <2>2. latest' \in windowSingleMessage(LatestMessage, LatestBudget)
    BY <1>6 DEF WindowLatest, LatestBudget
  <2>3. latest' \in Nat
    BY <2>1, <2>2, WindowedLength, SizeFacts
  <2>4. Budget'
    <3>1. SystemBytes' = SystemBytes /\ LatestBudget' = LatestBudget
          /\ LatestMessage' = LatestMessage
      BY <1>6 DEF WindowLatest, SystemBytes, hasSystem, LatestBudget, LatestMessage
    <3>2. keptBytes' = 0
      BY <1>6 DEF WindowLatest, TooLong, Walk
    <3>3. latest' \in windowSingleMessage(LatestMessage, LatestBudget)'
      BY <2>2, <3>1 DEF windowSingleMessage
    <3>4. remBudget' = TargetSafePayloadBytes - (latest' + SystemBytes) - 0
      BY <1>6, <2>1, <2>3, SizeFacts, WindowAssumption DEF WindowLatest
    <3> QED
      BY <1>6, <3>1, <3>2, <3>3, <3>4 DEF WindowLatest, TooLong, Budget
  <2>5. Walk'
    BY <1>6 DEF WindowLatest, TooLong, Walk
  <2>6. remBudget' \in Int /\ next' \in Nat
    <3>1. Len(history) \in Nat /\ SystemBytes \in Nat
      BY <2>1, SizeFacts, HistoryFacts
    <3>2. /\ remBudget' = TargetSafePayloadBytes - (latest' + SystemBytes)
          /\ Len(history) > 2 /\ next' = Len(history) - 1
      BY <1>6 DEF WindowLatest, TooLong
    <3>3. TargetSafePayloadBytes \in Nat
      BY WindowAssumption
    <3>4. remBudget' \in Int
      BY <2>3, <3>1, <3>2, <3>3
    <3>5. next' \in Nat
      BY <3>1, <3>2
    <3> QED
      BY <3>4, <3>5
  <2> QED
    BY <1>6, <2>1, <2>3, <2>4, <2>5, <2>6 DEF WindowLatest, TooLong, ShortCases, NewestKept
<1>7. CASE DropMiddle
  <2>1. history \in Histories /\ Len(history) > 2
    BY <1>7 DEF DropMiddle, Budget
  <2>2. droppedCount' \in Nat /\ droppedCount' = Len(history) - FirstMiddle
    BY <1>7, <2>1, HistoryFacts, SizeFacts DEF DropMiddle
  <2>3. Budget'
    BY <1>7 DEF DropMiddle, Budget, LatestBudget, LatestMessage, SystemBytes,
                hasSystem, windowSingleMessage
  <2>4. NewestKept'
    BY <1>7, <2>1, <2>2, SizeFacts, HistoryFacts
    DEF DropMiddle, NewestKept, FirstMiddle, hasSystem, Walk
  <2> QED
    BY <1>7, <2>2, <2>3, <2>4 DEF DropMiddle, ShortCases, Walk
<1>8. CASE EnterTurns
  <2>1. history \in Histories /\ Len(history) > 2
    BY <1>8 DEF EnterTurns, Budget
  <2>2. Budget'
    BY <1>8 DEF EnterTurns, Budget, LatestBudget, LatestMessage, SystemBytes,
                hasSystem, windowSingleMessage
  <2>3. Walk'
    <3>1. Len(history) \in Nat /\ FirstMiddle \in 1..2
      BY <2>1, SizeFacts, HistoryFacts
    <3>2. /\ FirstMiddle' = FirstMiddle /\ Len(history') = Len(history)
          /\ step' = "turns" /\ next' = next /\ kept' = kept /\ keptBytes' = keptBytes
          /\ remBudget' = remBudget /\ droppedCount' = droppedCount
      BY <1>8 DEF EnterTurns, FirstMiddle, hasSystem
    <3>3. /\ next = Len(history) - 1 /\ kept = 0 /\ keptBytes \in Nat /\ droppedCount = 0
          /\ remBudget > MinRemBytes
      BY <1>8 DEF EnterTurns, Walk
    <3>4. remBudget >= 0
      BY <3>3, WindowAssumption
    <3> QED
      BY <2>1, <3>1, <3>2, <3>3, <3>4 DEF Walk
  <2> QED
    BY <1>8, <2>2, <2>3 DEF EnterTurns, ShortCases, NewestKept
<1>9. CASE KeepTurn
  <2>1. history \in Histories /\ Len(history) > 2 /\ next \in 1..Len(history)
    <3>1. /\ history \in Histories /\ Len(history) > 2 /\ next >= FirstMiddle
          /\ next \in FirstMiddle - 1..Len(history) - 1
      BY <1>9 DEF KeepTurn, Budget, Walk
    <3>2. Len(history) \in Nat /\ FirstMiddle \in 1..2 /\ next \in Nat
      BY <3>1, SizeFacts, HistoryFacts
    <3> QED
      BY <3>1, <3>2
  <2>2. history[next].len \in Nat
    BY <2>1, HistoryFacts
  <2>3. Budget'
    <3>1. SystemBytes' = SystemBytes /\ LatestBudget' = LatestBudget
          /\ LatestMessage' = LatestMessage
      BY <1>9 DEF KeepTurn, SystemBytes, hasSystem, LatestBudget, LatestMessage
    <3>2. windowSingleMessage(LatestMessage, LatestBudget)' =
            windowSingleMessage(LatestMessage, LatestBudget)
      BY <3>1 DEF windowSingleMessage
    <3> QED
      <4>1. /\ Len(history') > 2 /\ latest' \in windowSingleMessage(LatestMessage, LatestBudget)'
            /\ latest' = latest
        BY <1>9, <3>2 DEF KeepTurn, Budget
      <4>2. /\ remBudget = TargetSafePayloadBytes - (latest + SystemBytes) - keptBytes
            /\ history[next].len <= remBudget
            /\ remBudget' = remBudget - history[next].len
            /\ keptBytes' = keptBytes + history[next].len
        BY <1>9 DEF KeepTurn, Budget
      <4>3. SystemBytes \in Nat
        BY <2>1, SizeFacts
      <4>4. /\ remBudget' = TargetSafePayloadBytes - (latest' + SystemBytes') - keptBytes'
            /\ remBudget' >= 0
        <5>1. latest \in Nat /\ keptBytes \in Nat /\ remBudget \in Int
          OBVIOUS
        <5>2. TargetSafePayloadBytes \in Nat
          BY WindowAssumption
        <5>3. latest' = latest /\ SystemBytes' = SystemBytes
          BY <3>1, <4>1
        <5> QED
          BY ONLY <2>2, <4>2, <4>3, <5>1, <5>2, <5>3
      <4> QED
        BY <4>1, <4>4 DEF Budget
  <2>4. Walk'
    <3>1. /\ FirstMiddle' = FirstMiddle /\ FirstMiddle \in {1, 2}
          /\ step' = "turns" /\ step = "turns" /\ next >= FirstMiddle /\ next' = next - 1
          /\ kept' = kept + 1 /\ droppedCount' = droppedCount
          /\ Len(history') = Len(history)
      BY <1>9 DEF KeepTurn, FirstMiddle, hasSystem
    <3>2. /\ droppedCount = 0 /\ next \in FirstMiddle - 1..Len(history) - 1
          /\ kept = Len(history) - 1 - next
      BY <1>9 DEF KeepTurn, Walk
    <3>3. Len(history) \in Nat /\ next \in Nat
      BY <2>1, HistoryFacts
    <3>4. /\ next' \in FirstMiddle' - 1..Len(history') - 1
          /\ kept' = Len(history') - 1 - next'
      BY ONLY <3>1, <3>2, <3>3
    <3>5. remBudget' >= 0 /\ keptBytes' \in Nat
      <4>1. /\ history[next].len <= remBudget
            /\ remBudget' = remBudget - history[next].len
            /\ keptBytes' = keptBytes + history[next].len
        BY <1>9 DEF KeepTurn
      <4>2. remBudget \in Int /\ keptBytes \in Nat
        OBVIOUS
      <4> QED
        BY ONLY <2>2, <4>1, <4>2
    <3> QED
      BY <3>1, <3>2, <3>4, <3>5 DEF Walk
  <2> QED
    BY <1>9, <2>1, <2>2, <2>3, <2>4 DEF KeepTurn, ShortCases, NewestKept
<1>10. CASE DropTurn
  <2>1. history \in Histories /\ Len(history) > 2 /\ next \in 1..Len(history)
    BY <1>10, SizeFacts, HistoryFacts DEF DropTurn, Budget, Walk
  <2>2. droppedCount' \in Nat /\ droppedCount' = next - FirstMiddle + 1
    BY <1>10, <2>1, SizeFacts DEF DropTurn, Walk
  <2>3. Budget'
    BY <1>10 DEF DropTurn, Budget, LatestBudget, LatestMessage, SystemBytes,
                 hasSystem, windowSingleMessage
  <2>4. NewestKept'
    <3>1. FirstMiddle' = FirstMiddle /\ FirstMiddle \in 1..2 /\ Len(history) \in Nat
      BY <1>10, <2>1, SizeFacts, HistoryFacts DEF DropTurn, FirstMiddle, hasSystem
    <3>2. /\ kept' = Len(history) - 1 - next /\ history' = history /\ remBudget' = remBudget
          /\ history[next].len > remBudget
      BY <1>10 DEF DropTurn, Walk
    <3>3. Len(history') - 1 - kept' = next
      BY <2>1, <3>1, <3>2
    <3>4. kept' + droppedCount' = Len(history') - FirstMiddle'
      BY <2>1, <2>2, <3>1, <3>2
    <3> QED
      BY <3>2, <3>3, <3>4 DEF NewestKept
  <2> QED
    BY <1>10, <2>2, <2>3, <2>4 DEF DropTurn, ShortCases, Walk
<1>11. CASE KeepAll
  <2>1. history \in Histories /\ Len(history) > 2
    BY <1>11 DEF KeepAll, Budget
  <2>2. Budget'
    BY <1>11 DEF KeepAll, Budget, LatestBudget, LatestMessage, SystemBytes,
                 hasSystem, windowSingleMessage
  <2>3. NewestKept'
    BY <1>11, <2>1, SizeFacts, HistoryFacts
    DEF KeepAll, NewestKept, FirstMiddle, hasSystem, Walk
  <2> QED
    BY <1>11, <2>2, <2>3 DEF KeepAll, ShortCases, Walk
<1>12. CASE WindowDone
  BY <1>12 DEF WindowDone, ShortCases, Budget, Walk, NewestKept
<1>13. CASE UNCHANGED windowVars
  BY <1>13 DEF windowVars, ShortCases, Budget, Walk, NewestKept, UserBudget,
               LatestBudget, LatestMessage, SystemBytes, FirstMiddle, hasSystem,
               windowSingleMessage
<1> QED
  BY <1>1, <1>2, <1>3, <1>4, <1>5, <1>6, <1>7, <1>8, <1>9, <1>10, <1>11, <1>12, <1>13
  DEF WindowNext, WindowStep

-----------------------------------------------------------------------------
LEMMA InvResultFits == WindowInv => ResultFits
<1> SUFFICES ASSUME WindowInv, Returned PROVE ResultFits
  BY DEF ResultFits
<1> USE DEF WindowInv, Numbers
<1>1. history \in Histories
  BY DEF Returned, Steps
<1>2. /\ TargetSafePayloadBytes \in Nat /\ MarkerBytes \in Nat /\ TombstoneBytes \in Nat
      /\ MinUserBytes \in Nat /\ MinUserBytes <= HeadAndTail
      /\ SystemBytes \in Nat /\ HeadAndTail \in Nat /\ FixedBytes \in Nat
  <2>1. SystemBytes \in Nat /\ HeadAndTail \in Nat /\ history[1].len \in Nat
    BY <1>1, SizeFacts, HistoryFacts
  <2> QED
    BY <2>1, WindowAssumption DEF HeadAndTail, FixedBytes
<1>3. CASE step = "same"
  BY <1>2, <1>3 DEF ResultFits, ResultBytes, ShortCases
<1>4. CASE step = "one"
  <2>1. latest <= TargetSafePayloadBytes + MarkerBytes
    BY <1>1, <1>2, <1>4, WindowedLength, HistoryFacts DEF ShortCases
  <2> QED
    BY <1>2, <1>4, <2>1 DEF ResultFits, ResultBytes
<1>5. CASE step = "two"
  <2>1. latest <= UserBudget + MarkerBytes
    <3>1. Len(history) = 2
      BY <1>5 DEF ShortCases
    <3>2. history[2] \in Message
      BY ONLY <1>1, <3>1, HistoryFacts
    <3>3. UserBudget \in Nat
      BY <1>1, SizeFacts
    <3> QED
      BY <1>5, <3>2, <3>3, WindowedLength DEF ShortCases
  <2>2. FixedBytes = history[1].len
    <3>1. Len(history) = 2
      BY <1>5 DEF ShortCases
    <3> QED
      BY ONLY <3>1 DEF FixedBytes
  <2>3. history[1].len + UserBudget <=
          IF FixedBytes + HeadAndTail <= TargetSafePayloadBytes
          THEN TargetSafePayloadBytes ELSE FixedBytes + HeadAndTail
    <3>1. history[1].len + UserBudget =
            IF history[1].len + MinUserBytes <= TargetSafePayloadBytes
            THEN TargetSafePayloadBytes ELSE history[1].len + MinUserBytes
      BY <1>1, SizeFacts
    <3>2. history[1].len \in Nat
      BY <1>2, <2>2
    <3> QED
      BY ONLY <1>2, <2>2, <3>1, <3>2
  <2>4. UserBudget \in Nat
    BY <1>1, SizeFacts
  <2>5. ResultBytes = history[1].len + latest
    BY <1>5 DEF ResultBytes
  <2> DEFINE limit == IF FixedBytes + HeadAndTail <= TargetSafePayloadBytes
                      THEN TargetSafePayloadBytes ELSE FixedBytes + HeadAndTail
  <2>6. limit \in Nat
    BY ONLY <1>2
  <2>7. history[1].len \in Nat /\ latest \in Nat
    BY <1>2, <2>2
  <2> HIDE DEF limit
  <2>8. ResultBytes <= limit + MarkerBytes + TombstoneBytes
    <3>1. history[1].len + UserBudget <= limit
      BY <2>3 DEF limit
    <3> QED
      BY ONLY <1>2, <2>1, <2>4, <2>5, <2>6, <2>7, <3>1
  <2> QED
    BY <2>8 DEF ResultFits, limit
<1>6. CASE step = "many"
  <2>1. latest <= LatestBudget + MarkerBytes
    BY <1>1, <1>6, WindowedLength, SizeFacts DEF Budget
  <2>2. FixedBytes = SystemBytes
    BY <1>1, <1>6, HistoryFacts DEF FixedBytes, Budget
  <2>3. SystemBytes + latest <=
          (IF FixedBytes + HeadAndTail <= TargetSafePayloadBytes
           THEN TargetSafePayloadBytes ELSE FixedBytes + HeadAndTail) + MarkerBytes
    <3>1. /\ LatestBudget = IF TargetSafePayloadBytes - SystemBytes < HeadAndTail
                            THEN HeadAndTail ELSE TargetSafePayloadBytes - SystemBytes
          /\ latest \in Nat
      BY DEF LatestBudget
    <3> QED
      BY ONLY <1>2, <2>1, <2>2, <3>1
  <2>4. \/ keptBytes = 0
        \/ SystemBytes + keptBytes + latest <= TargetSafePayloadBytes
    <3>1. /\ remBudget = TargetSafePayloadBytes - (latest + SystemBytes) - keptBytes
          /\ keptBytes > 0 => remBudget >= 0
      BY <1>6 DEF Budget
    <3>2. latest \in Nat /\ keptBytes \in Nat
      OBVIOUS
    <3> QED
      BY ONLY <1>2, <3>1, <3>2
  <2>5. ResultBytes = SystemBytes + keptBytes + latest
                        + (IF droppedCount > 0 THEN TombstoneBytes ELSE 0)
    BY <1>6 DEF ResultBytes
  <2>6. latest \in Nat /\ keptBytes \in Nat
    OBVIOUS
  <2>7. ResultBytes <= (IF FixedBytes + HeadAndTail <= TargetSafePayloadBytes
                        THEN TargetSafePayloadBytes ELSE FixedBytes + HeadAndTail)
                       + MarkerBytes + TombstoneBytes
    BY ONLY <1>2, <2>2, <2>3, <2>4, <2>5, <2>6
  <2> QED
    BY <2>7 DEF ResultFits
<1> QED
  BY <1>3, <1>4, <1>5, <1>6 DEF Returned

LEMMA InvLatestSurvives == WindowInv => LatestSurvives
<1> SUFFICES ASSUME WindowInv, step \in {"one", "two", "many"} PROVE LatestSurvives
  BY DEF LatestSurvives
<1> USE DEF WindowInv, Numbers
<1>1. history \in Histories
  BY DEF Steps
<1>2. /\ TargetSafePayloadBytes \in Nat /\ MarkerBytes \in Nat /\ RuneSlack \in Nat
      /\ HeadAndTail \in Nat /\ HeadAndTail <= TargetSafePayloadBytes
      /\ MinUserBytes \in Nat /\ MinUserBytes <= HeadAndTail
  BY WindowAssumption DEF HeadAndTail
<1>3. CASE step = "one"
  BY <1>1, <1>2, <1>3, WindowedLength, HistoryFacts
  DEF ShortCases, LatestSurvives, LatestMessage
<1>4. CASE step = "two"
  <2>1. Len(history) = 2
    BY <1>4 DEF ShortCases
  <2>2. history[2] \in Message
    BY <1>1, <2>1, HistoryFacts
  <2>3. UserBudget \in Nat /\ MinUserBytes <= UserBudget
    BY <1>1, SizeFacts
  <2>4. \/ latest = history[2].core
        \/ latest + 2 * RuneSlack + 1 >=
             MarkerBytes + (IF HeadAndTail <= UserBudget THEN HeadAndTail ELSE UserBudget)
    BY <1>4, <2>2, <2>3, WindowedLength DEF ShortCases
  <2> QED
    BY <1>2, <1>4, <2>1, <2>3, <2>4 DEF LatestSurvives, LatestMessage
<1>5. CASE step = "many"
  BY <1>1, <1>2, <1>5, WindowedLength, SizeFacts DEF Budget, LatestSurvives
<1> QED
  BY <1>3, <1>4, <1>5

(* Whatever conversation WindowChatMessages is called with, its result     *)
(* fits, the retained turns are the newest, and the latest message         *)
(* survives.                                                               *)
THEOREM WindowingCorrect == WindowSpec => [](ResultFits /\ NewestKept /\ LatestSurvives)
<1>1. WindowInv => NewestKept
  BY DEF WindowInv
<1> QED
  BY <1>1, WindowInitInv, WindowStepInv, InvResultFits, InvLatestSurvives, PTL
  DEF WindowSpec
=============================================================================
