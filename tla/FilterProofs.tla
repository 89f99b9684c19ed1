---------------------------- MODULE FilterProofs ----------------------------
(***************************************************************************)
(* Proofs about ReasoningFilter and what Relay assumes of the upstream:    *)
(* for texts of any length, said in any lexemes that are tags or are not   *)
(* taken for one, and cut anywhere.                                        *)
(*                                                                         *)
(* A text is read as lexemes (Reading) and its visible characters counted  *)
(* (Counted).  Feed of a beginning of it lets through the visible          *)
(* characters up to a place between two lexemes or in a text, and holds    *)
(* the rest back (FeedReads); Pending says this of a filter and the text   *)
(* behind it and is what the relay keeps true (PendingNothing, PendingSaid,*)
(* PendingFed, PendingSettled).  The loop of stripReasoningBlocks takes    *)
(* out one block per round until only the visible characters are left      *)
(* (RoundKeeps, RoundsAreEnough, PendingStripped).                         *)
(*                                                                         *)
(* Feed and stripReasoningBlocks are recursive functions: that they exist  *)
(* is shown where they are (ScanExists, StripExists), and what they        *)
(* compute by looking at the first place where it would be wrong.          *)
(***************************************************************************)
EXTENDS Relay, FiniteSetTheorems, TLAPS

(* A set of numbers that is not empty has a least element.  This is how    *)
(* facts about every position of a text are proved below: the least position *)
(* where one fails has a predecessor where it holds, or is the first.      *)
LEMMA LeastNat ==
  ASSUME NEW T \in SUBSET Nat, T # {}
  PROVE  \E n \in T : \A m \in T : n <= m
<1>1. PICK top \in T : TRUE
  OBVIOUS
<1> DEFINE S == 0..top
           low == {n \in T : n <= top}
           Below(n) == 0..n
           segs == {Below(n) : n \in low}
<1>2. top \in Nat /\ IsFiniteSet(S)
  BY <1>1, FS_Interval
<1>3. segs \subseteq FiniteSubsetsOf(S) /\ segs # {}
  <2>1. \A n \in low : Below(n) \in SUBSET S
    BY <1>2
  <2>2. FiniteSubsetsOf(S) = SUBSET S
    BY <1>2, FS_FiniteSubsetsOfFinite
  <2> QED BY <1>1, <1>2, <2>1, <2>2
<1>4. IsWellFoundedOn(StrictSubsetOrdering(S), FiniteSubsetsOf(S))
  BY FS_StrictSubsetOrderingWellFounded
<1> HIDE DEF S
<1>5. PICK x \in segs : \A y \in segs : ~(<<y, x>> \in StrictSubsetOrdering(S))
  BY <1>3, <1>4, WFMin
<1>6. PICK n \in low : x = Below(n)
  BY <1>5
<1>7. ASSUME NEW m \in T, m < n PROVE FALSE
  <2>1. m \in low /\ m \in Nat /\ n \in Nat
    <3>1. m \in Nat /\ n \in Nat /\ n <= top
      BY <1>6, <1>7
    <3> QED BY <1>2, <1>7, <3>1
  <2>2. Below(m) \subseteq Below(n) /\ Below(m) # Below(n) /\ Below(n) \subseteq S /\ Below(m) \subseteq S
    <3>1. n \in Below(n) /\ n \notin Below(m)
       BY <1>7, <2>1
    <3> QED BY <1>7, <2>1, <1>6, <1>2, <3>1 DEF S
  <2>3. <<Below(m), Below(n)>> \in StrictSubsetOrdering(S)
    BY <2>2 DEF StrictSubsetOrdering
  <2> QED BY <1>5, <1>6, <2>1, <2>3
<1>8. n \in T /\ n \in Nat
  BY <1>6
<1>9. \A m \in T : n <= m
  BY <1>7, <1>8
<1> QED BY <1>8, <1>9

(* Prefixes, pieces and joins of texts, character by character.            *)
LEMMA PrefixFacts ==
  ASSUME NEW s \in Seq(Character), NEW t \in Seq(Character)
  PROVE  IsPrefix(s, t) <=> Len(s) <= Len(t) /\ \A i \in 1..Len(s) : s[i] = t[i]
<1>1. ASSUME Len(s) <= Len(t), \A i \in 1..Len(s) : s[i] = t[i]
      PROVE  SubSeq(s, 1, Len(s)) = SubSeq(t, 1, Len(s))
  <2> DEFINE a == SubSeq(s, 1, Len(s))
             b == SubSeq(t, 1, Len(s))
  <2>1. a \in Seq(Character) /\ b \in Seq(Character) /\ Len(a) = Len(s) /\ Len(b) = Len(s)
    BY <1>1
  <2>2. \A i \in 1..Len(s) : a[i] = s[i] /\ b[i] = t[i]
    BY <1>1
  <2> HIDE DEF a, b
  <2>3. a = b
    BY <1>1, <2>1, <2>2
  <2> QED BY <2>3 DEF a, b
<1>2. ASSUME Len(s) <= Len(t), SubSeq(s, 1, Len(s)) = SubSeq(t, 1, Len(s)), NEW i \in 1..Len(s)
      PROVE  s[i] = t[i]
  <2>1. SubSeq(s, 1, Len(s))[i] = s[i] /\ SubSeq(t, 1, Len(s))[i] = t[i]
    BY <1>2
  <2> QED BY <1>2, <2>1
<1> QED
  BY <1>1, <1>2 DEF IsPrefix

LEMMA SameSeq ==
  ASSUME NEW s \in Seq(Character), NEW t \in Seq(Character), Len(s) = Len(t), \A i \in 1..Len(s) : s[i] = t[i]
  PROVE  s = t
OBVIOUS

LEMMA PieceFacts ==
  ASSUME NEW s \in Seq(Character), NEW a \in 1..Len(s) + 1, NEW b \in 0..Len(s), a <= b + 1
  PROVE  /\ SubSeq(s, a, b) \in Seq(Character) /\ Len(SubSeq(s, a, b)) = b - a + 1
         /\ \A i \in 1..b - a + 1 : SubSeq(s, a, b)[i] = s[a + i - 1]
OBVIOUS

LEMMA JoinFacts ==
  ASSUME NEW s \in Seq(Character), NEW t \in Seq(Character)
  PROVE  /\ s \o t \in Seq(Character) /\ Len(s \o t) = Len(s) + Len(t)
         /\ \A i \in 1..Len(s) : (s \o t)[i] = s[i]
         /\ \A i \in 1..Len(t) : (s \o t)[Len(s) + i] = t[i]
OBVIOUS

(* The tags: where each begins and ends.                                   *)
LEMMA TagFacts ==
  /\ \A tag \in openTagNames :
       /\ tag \in Seq(Character) /\ Len(tag) \in 3..4 /\ tag[1] = "<"
       /\ Last(tag) = tag[Len(tag)] /\ \A i \in 1..Len(tag) - 1 : tag[i] # ">"
  /\ \A tag \in closeTagNames :
       /\ tag \in Seq(Character) /\ Len(tag) = 5 /\ tag[1] = "<" /\ tag[5] = ">"
       /\ \A i \in 1..4 : tag[i] # ">"
       /\ Front(tag) \in Seq(Character) /\ Len(Front(tag)) = 4
       /\ \A i \in 1..4 : Front(tag)[i] = tag[i]
  /\ \A tag \in TagBeginnings : tag \in Seq(Character) /\ Len(tag) \in 3..4 /\ tag[1] = "<"
<1>1. /\ openTagNames = {<<"<", "t", "k">>, <<"<", "|", "t", ">">>}
      /\ closeTagNames = {<<"<", "/", "t", "k", ">">>, <<"<", "|", "/", "t", ">">>}
  BY DEF openTagNames, closeTagNames, TagPairs
<1>2. ASSUME NEW tag \in openTagNames
      PROVE  /\ tag \in Seq(Character) /\ Len(tag) \in 3..4 /\ tag[1] = "<"
             /\ Last(tag) = tag[Len(tag)] /\ \A i \in 1..Len(tag) - 1 : tag[i] # ">"
  <2>1. CASE tag = <<"<", "t", "k">>
    <3>1. tag \in Seq(Character) /\ Len(tag) = 3 /\ tag[1] = "<" /\ Last(tag) = tag[3]
      BY <2>1 DEF Character, Last
    <3>2. ASSUME NEW i \in 1..2 PROVE tag[i] # ">"
      <4>1. i = 1 \/ i = 2
        OBVIOUS
      <4> QED
        BY <2>1, <4>1
    <3> QED
      BY <3>1, <3>2
  <2>2. CASE tag = <<"<", "|", "t", ">">>
    <3>1. tag \in Seq(Character) /\ Len(tag) = 4 /\ tag[1] = "<" /\ Last(tag) = tag[4]
      BY <2>2 DEF Character, Last
    <3>2. ASSUME NEW i \in 1..3 PROVE tag[i] # ">"
      <4>1. i = 1 \/ i = 2 \/ i = 3
        OBVIOUS
      <4> QED
        BY <2>2, <4>1
    <3> QED
      BY <3>1, <3>2
  <2> QED
    BY <1>1, <2>1, <2>2
<1>3. ASSUME NEW tag \in closeTagNames
      PROVE  /\ tag \in Seq(Character) /\ Len(tag) = 5 /\ tag[1] = "<" /\ tag[5] = ">"
             /\ \A i \in 1..4 : tag[i] # ">"
             /\ Front(tag) \in Seq(Character) /\ Len(Front(tag)) = 4
             /\ \A i \in 1..4 : Front(tag)[i] = tag[i]
  <2>1. CASE tag = <<"<", "/", "t", "k", ">">>
    <3>1. tag \in Seq(Character) /\ Len(tag) = 5 /\ tag[1] = "<" /\ tag[5] = ">"
      BY <2>1 DEF Character
    <3>2. ASSUME NEW i \in 1..4 PROVE tag[i] # ">"
      <4>1. i = 1 \/ i = 2 \/ i = 3 \/ i = 4
        OBVIOUS
      <4> QED
        BY <2>1, <4>1
    <3> QED
      BY <3>1, <3>2, PieceFacts DEF Front
  <2>2. CASE tag = <<"<", "|", "/", "t", ">">>
    <3>1. tag \in Seq(Character) /\ Len(tag) = 5 /\ tag[1] = "<" /\ tag[5] = ">"
      BY <2>2 DEF Character
    <3>2. ASSUME NEW i \in 1..4 PROVE tag[i] # ">"
      <4>1. i = 1 \/ i = 2 \/ i = 3 \/ i = 4
        OBVIOUS
      <4> QED
        BY <2>2, <4>1
    <3> QED
      BY <3>1, <3>2, PieceFacts DEF Front
  <2> QED
    BY <1>1, <2>1, <2>2
<1>4. ASSUME NEW tag \in TagBeginnings
      PROVE  tag \in Seq(Character) /\ Len(tag) \in 3..4 /\ tag[1] = "<"
  BY <1>2, <1>3 DEF TagBeginnings
<1> QED
  BY <1>2, <1>3, <1>4

(* ToBracket finds the first closing bracket within its limit.             *)
LEMMA BracketFacts ==
  ASSUME NEW s \in Seq(Character), NEW limit \in Nat
  PROVE  /\ ToBracket(s, limit) \in 0..Len(s)
         /\ ToBracket(s, limit) = 0 => \A n \in 1..Len(s) : n <= limit => s[n] # ">"
         /\ ToBracket(s, limit) > 0 =>
              /\ ToBracket(s, limit) <= limit /\ s[ToBracket(s, limit)] = ">"
              /\ \A n \in 1..ToBracket(s, limit) - 1 : s[n] # ">"
<1> DEFINE ends == {n \in DOMAIN s : n <= limit /\ s[n] = ">"}
<1>1. CASE ends = {}
  BY <1>1 DEF ToBracket
<1>2. CASE ends # {}
  <2>1. ends \in SUBSET Nat
    OBVIOUS
  <2>2. \E n \in ends : \A m \in ends : n <= m
    BY <1>2, <2>1, LeastNat
  <2>3. ToBracket(s, limit) \in ends /\ \A m \in ends : ToBracket(s, limit) <= m
    BY <1>2, <2>2 DEF ToBracket
  <2> HIDE DEF ends
  <2>4. ToBracket(s, limit) \in 1..Len(s)
    BY <2>3 DEF ends
  <2>5. ASSUME NEW n \in 1..ToBracket(s, limit) - 1 PROVE s[n] # ">"
    <3>1. n \in DOMAIN s /\ n <= limit /\ ~(ToBracket(s, limit) <= n)
      BY <2>3, <2>4 DEF ends
    <3> QED
      BY <2>3, <3>1 DEF ends
  <2> QED
    BY <2>3, <2>4, <2>5 DEF ends
<1> QED
  BY <1>1, <1>2

(* A tag that is matched reaches to the first closing bracket.             *)
LEMMA OpenMatch ==
  ASSUME NEW s \in Seq(Character)
  PROVE  LET n == matchOpeningReasoningTag(s)
         IN /\ n \in 0..Len(s)
            /\ n > 0 => /\ s[n] = ">" /\ \A m \in 1..n - 1 : s[m] # ">"
                        /\ \E tag \in openTagNames : IsPrefix(tag, s)
            /\ n = 0 => \/ \A tag \in openTagNames : ~IsPrefix(tag, s)
                        \/ \A m \in 1..Len(s) : m <= OpenReach => s[m] # ">"
<1> DEFINE n == matchOpeningReasoningTag(s)
           tags == {tag \in openTagNames : IsPrefix(tag, s)}
           tag == CHOOSE t \in tags : TRUE
<1>1. CASE tags = {}
  BY <1>1 DEF matchOpeningReasoningTag
<1>2. CASE tags # {}
  <2>1. tag \in openTagNames /\ IsPrefix(tag, s)
    BY <1>2
  <2>2. n = IF Last(tag) = ">" THEN Len(tag) ELSE ToBracket(s, OpenReach)
    BY <1>2 DEF matchOpeningReasoningTag
  <2> HIDE DEF n, tag, tags
  <2>3. Len(tag) \in 3..4 /\ Len(tag) <= Len(s) /\ \A i \in 1..Len(tag) : tag[i] = s[i]
    BY <2>1, TagFacts, PrefixFacts
  <2>4. CASE Last(tag) = ">"
    <3>1. n = Len(tag) /\ tag[n] = ">" /\ \A i \in 1..n - 1 : tag[i] # ">"
      BY <2>1, <2>2, <2>4, TagFacts
    <3> QED
      BY <2>1, <2>3, <3>1 DEF n
  <2>5. CASE Last(tag) # ">"
    <3>1. n = ToBracket(s, OpenReach) /\ OpenReach \in Nat
      BY <2>2, <2>5, LimitsAssumption
    <3>2. /\ n \in 0..Len(s)
          /\ n = 0 => \A m \in 1..Len(s) : m <= OpenReach => s[m] # ">"
          /\ n > 0 => s[n] = ">" /\ \A m \in 1..n - 1 : s[m] # ">"
      BY <3>1, BracketFacts
    <3> QED
      BY <2>1, <3>2 DEF n
  <2> QED
    BY <2>4, <2>5
<1> QED
  BY <1>1, <1>2

LEMMA CloseMatch ==
  ASSUME NEW s \in Seq(Character)
  PROVE  LET n == matchClosingReasoningTag(s)
         IN /\ n \in 0..Len(s)
            /\ n > 0 => /\ s[n] = ">" /\ \A m \in 1..n - 1 : s[m] # ">"
                        /\ \E tag \in closeTagNames : IsPrefix(Front(tag), s)
            /\ n = 0 => \/ \A tag \in closeTagNames : ~IsPrefix(Front(tag), s)
                        \/ \A m \in 1..Len(s) : m <= CloseReach => s[m] # ">"
<1>1. CloseReach \in Nat
  BY LimitsAssumption
<1> DEFINE n == matchClosingReasoningTag(s)
           b == ToBracket(s, CloseReach)
<1>2. /\ b \in 0..Len(s)
      /\ b = 0 => \A m \in 1..Len(s) : m <= CloseReach => s[m] # ">"
      /\ b > 0 => s[b] = ">" /\ \A m \in 1..b - 1 : s[m] # ">"
  BY <1>1, BracketFacts
<1>3. n = IF \E tag \in closeTagNames : IsPrefix(Front(tag), s) THEN b ELSE 0
  BY DEF matchClosingReasoningTag
<1> HIDE DEF n, b
<1>4. CASE \E tag \in closeTagNames : IsPrefix(Front(tag), s)
  BY <1>2, <1>3, <1>4 DEF n
<1>5. CASE ~\E tag \in closeTagNames : IsPrefix(Front(tag), s)
  BY <1>3, <1>5 DEF n
<1> QED
  BY <1>4, <1>5

(* What is assumed of the upstream, in the forms needed.                   *)
LEMMA LexemeFacts ==
  ASSUME NEW l \in Lexemes
  PROVE  /\ l \in Lexeme /\ l.text \in Seq(Character) /\ Len(l.text) \in Nat \ {0}
         /\ l.from \in Blocks /\ l.to \in Blocks
         /\ \A n \in 2..Len(l.text) : l.text[n] # "<"
         /\ OpeningTag(l) \/ ClosingTag(l) \/ NeverATag(l)
         /\ \A n \in 1..Len(l.text) : l.from = "none" => l.text[n] # Secret
BY LexemesAssumption DEF Lexeme, Contains

(* An opening tag and a closing tag as the upstream says them.             *)
LEMMA OpeningFacts ==
  ASSUME NEW l \in Lexemes, OpeningTag(l)
  PROVE  /\ l.from = "none" /\ l.to # "none"
         /\ l.text[1] = "<" /\ Len(l.text) <= OpenHold
         /\ l.text[Len(l.text)] = ">" /\ \A n \in 1..Len(l.text) - 1 : l.text[n] # ">"
         /\ \E tag \in openTagNames : IsPrefix(tag, l.text)
<1>1. l.text \in Seq(Character) /\ Len(l.text) \in Nat \ {0} /\ OpenHold \in Nat
  BY LexemeFacts, LimitsAssumption
<1>2. PICK pair \in TagPairs : IsPrefix(pair.open, l.text) /\ l.to = BlockOf(pair)
  BY DEF OpeningTag
<1>3. pair.open \in openTagNames
  BY DEF openTagNames
<1>4. l.text[1] = "<"
  BY <1>1, <1>2, <1>3, TagFacts, PrefixFacts
<1>5. ToBracket(l.text, OpenHold) = Len(l.text) /\ l.from = "none"
  BY DEF OpeningTag
<1>6. /\ Len(l.text) <= OpenHold /\ l.text[Len(l.text)] = ">"
      /\ \A n \in 1..Len(l.text) - 1 : l.text[n] # ">"
  <2>1. ToBracket(l.text, OpenHold) > 0
    BY <1>1, <1>5
  <2>2. /\ ToBracket(l.text, OpenHold) <= OpenHold
        /\ l.text[ToBracket(l.text, OpenHold)] = ">"
        /\ \A n \in 1..ToBracket(l.text, OpenHold) - 1 : l.text[n] # ">"
    BY <1>1, <2>1, BracketFacts
  <2> QED
    BY <1>5, <2>2
<1> QED
  BY <1>2, <1>3, <1>4, <1>5, <1>6 DEF BlockOf

LEMMA ClosingFacts ==
  ASSUME NEW l \in Lexemes, ClosingTag(l)
  PROVE  /\ l.from # "none" /\ l.to = "none" /\ l.text \in closeTagNames
         /\ l.text[1] = "<" /\ Len(l.text) = 5 /\ 5 <= CloseHold
         /\ l.text[Len(l.text)] = ">" /\ \A n \in 1..Len(l.text) - 1 : l.text[n] # ">"
<1>1. PICK pair \in TagPairs : l.text = pair.close /\ l.from = BlockOf(pair)
  BY DEF ClosingTag
<1>2. l.text \in closeTagNames
  BY <1>1 DEF closeTagNames
<1>3. /\ Len(l.text) = 5 /\ l.text[1] = "<" /\ l.text[5] = ">"
      /\ \A n \in 1..4 : l.text[n] # ">"
  BY <1>2, TagFacts
<1>4. l.from # "none" /\ l.to = "none"
  BY <1>1 DEF ClosingTag, BlockOf
<1> QED
  BY <1>2, <1>3, <1>4, LimitsAssumption

(* A whole opening tag is consumed, whatever follows it.                   *)
LEMMA OpeningTaken ==
  ASSUME NEW l \in Lexemes, OpeningTag(l), NEW s \in Seq(Character), IsPrefix(l.text, s)
  PROVE  Verdict(s, FALSE) = [kind |-> "open", length |-> Len(l.text)]
<1> DEFINE k == Len(l.text)
           n == matchOpeningReasoningTag(s)
<1>1. /\ l.text \in Seq(Character) /\ k \in Nat \ {0} /\ k <= OpenReach
      /\ l.text[k] = ">" /\ \A m \in 1..k - 1 : l.text[m] # ">"
  <2>1. l.text \in Seq(Character) /\ k \in Nat \ {0}
    BY LexemeFacts
  <2>2. k <= OpenHold /\ l.text[k] = ">" /\ \A m \in 1..k - 1 : l.text[m] # ">"
    BY OpeningFacts
  <2>3. OpenHold \in Nat /\ OpenReach \in Nat /\ OpenHold <= OpenReach
    BY LimitsAssumption
  <2> QED
    BY <2>1, <2>2, <2>3
<1>2. k <= Len(s) /\ \A i \in 1..k : s[i] = l.text[i]
  BY <1>1, PrefixFacts
<1>3. PICK tag \in openTagNames : IsPrefix(tag, l.text)
  BY OpeningFacts
<1>4. IsPrefix(tag, s)
  <2>1. tag \in Seq(Character) /\ Len(tag) <= k /\ \A i \in 1..Len(tag) : tag[i] = l.text[i]
    BY <1>1, <1>3, TagFacts, PrefixFacts
  <2> QED
    BY <1>1, <1>2, <2>1, PrefixFacts
<1>5. /\ n \in 0..Len(s)
      /\ n > 0 => s[n] = ">" /\ \A m \in 1..n - 1 : s[m] # ">"
      /\ n = 0 => \/ \A t \in openTagNames : ~IsPrefix(t, s)
                  \/ \A m \in 1..Len(s) : m <= OpenReach => s[m] # ">"
  BY OpenMatch
<1> HIDE DEF k, n
<1>6. n = k
  <2>1. k \in 1..Len(s) /\ s[k] = ">" /\ \A m \in 1..k - 1 : s[m] # ">"
    BY <1>1, <1>2
  <2>2. n > 0
    BY <1>1, <1>4, <1>5, <2>1
  <2>3. ~(n < k) /\ ~(k < n)
    BY <1>1, <1>5, <2>1, <2>2
  <2> QED
    BY <1>1, <1>5, <2>3
<1> QED
  BY <1>1, <1>6 DEF n, k, Verdict

(* So is a whole closing tag inside a block.                               *)
LEMMA ClosingTaken ==
  ASSUME NEW l \in Lexemes, ClosingTag(l), NEW s \in Seq(Character), IsPrefix(l.text, s)
  PROVE  Verdict(s, TRUE) = [kind |-> "close", length |-> Len(l.text)]
<1> DEFINE k == Len(l.text)
           n == matchClosingReasoningTag(s)
<1>1. /\ l.text \in Seq(Character) /\ k = 5 /\ k <= CloseReach /\ l.text \in closeTagNames
      /\ l.text[k] = ">" /\ \A m \in 1..k - 1 : l.text[m] # ">"
  <2>1. CloseHold \in Nat /\ CloseReach \in Nat /\ CloseHold <= CloseReach
    BY LimitsAssumption
  <2>2. l.text \in Seq(Character)
    BY LexemeFacts
  <2>3. /\ k = 5 /\ 5 <= CloseHold /\ l.text \in closeTagNames
        /\ l.text[k] = ">" /\ \A m \in 1..k - 1 : l.text[m] # ">"
    BY ClosingFacts
  <2> QED
    BY <2>1, <2>2, <2>3
<1>2. k <= Len(s) /\ \A i \in 1..k : s[i] = l.text[i]
  BY <1>1, PrefixFacts
<1>3. IsPrefix(Front(l.text), s)
  <2>1. /\ Front(l.text) \in Seq(Character) /\ Len(Front(l.text)) = 4
        /\ \A i \in 1..4 : Front(l.text)[i] = l.text[i]
    BY <1>1, TagFacts
  <2> QED
    BY <1>1, <1>2, <2>1, PrefixFacts
<1>4. /\ n \in 0..Len(s)
      /\ n > 0 => s[n] = ">" /\ \A m \in 1..n - 1 : s[m] # ">"
      /\ n = 0 => \/ \A t \in closeTagNames : ~IsPrefix(Front(t), s)
                  \/ \A m \in 1..Len(s) : m <= CloseReach => s[m] # ">"
  BY CloseMatch
<1> HIDE DEF k, n
<1>5. n = k
  <2>1. k \in 1..Len(s) /\ s[k] = ">" /\ \A m \in 1..k - 1 : s[m] # ">"
    BY <1>1, <1>2
  <2>2. n > 0
    BY <1>1, <1>3, <1>4, <2>1
  <2>3. ~(n < k) /\ ~(k < n)
    BY <1>1, <1>4, <2>1, <2>2
  <2> QED
    BY <1>1, <1>4, <2>3
<1> QED
  BY <1>1, <1>5 DEF n, k, Verdict

(* A tag that is cut off is held back, outside a block and inside.         *)
LEMMA CutTagHeld ==
  ASSUME NEW l \in Lexemes, OpeningTag(l) \/ ClosingTag(l), NEW s \in Seq(Character),
         s # <<>>, IsPrefix(s, l.text), Len(s) < Len(l.text)
  PROVE  Verdict(s, l.from # "none") = [kind |-> "hold", length |-> Len(s)]
<1>1. l.text \in Seq(Character) /\ Len(l.text) \in Nat \ {0}
  BY LexemeFacts
<1>2. \A n \in 1..Len(s) : s[n] = l.text[n]
  BY <1>1, PrefixFacts
<1>3. \A n \in 1..Len(s) : s[n] # ">"
  BY <1>1, <1>2, OpeningFacts, ClosingFacts
<1>4. matchOpeningReasoningTag(s) = 0 /\ matchClosingReasoningTag(s) = 0
  <2>1. /\ matchOpeningReasoningTag(s) \in 0..Len(s)
        /\ matchOpeningReasoningTag(s) > 0 => s[matchOpeningReasoningTag(s)] = ">"
    BY OpenMatch
  <2>2. /\ matchClosingReasoningTag(s) \in 0..Len(s)
        /\ matchClosingReasoningTag(s) > 0 => s[matchClosingReasoningTag(s)] = ">"
    BY CloseMatch
  <2> QED
    BY <1>3, <2>1, <2>2
<1>5. CASE OpeningTag(l)
  <2>1. l.from = "none" /\ Len(l.text) <= OpenHold /\ OpenHold \in Nat
    BY <1>5, OpeningFacts, LimitsAssumption
  <2>2. PICK tag \in openTagNames : IsPrefix(tag, l.text)
    BY <1>5, OpeningFacts
  <2>3. tag \in Seq(Character) /\ Len(tag) <= Len(l.text)
        /\ \A i \in 1..Len(tag) : tag[i] = l.text[i]
    BY <1>1, <2>2, TagFacts, PrefixFacts
  <2>4. IsPrefix(s, tag) \/ IsPrefix(tag, s)
    BY <1>1, <1>2, <2>3, PrefixFacts
  <2>5. isOpeningReasoningTagPrefix(s) /\ Len(s) < OpenHold
    BY <1>1, <2>1, <2>4 DEF isOpeningReasoningTagPrefix
  <2> QED
    BY <1>4, <2>1, <2>5 DEF Verdict
<1>6. CASE ClosingTag(l)
  <2>1. /\ l.from # "none" /\ l.text \in closeTagNames /\ Len(l.text) = 5
        /\ 5 <= CloseHold /\ CloseHold \in Nat
    BY <1>6, ClosingFacts, LimitsAssumption
  <2>2. isClosingReasoningTagPrefix(s) /\ Len(s) < CloseHold
    BY <1>1, <2>1 DEF isClosingReasoningTagPrefix
  <2> QED
    BY <1>4, <2>1, <2>2 DEF Verdict
<1> QED
  BY <1>5, <1>6

(* Text is let through or held back, not taken for a tag.                  *)
LEMMA TextUntaken ==
  ASSUME NEW l \in Lexemes, NeverATag(l), NEW s \in Seq(Character), IsPrefix(s, l.text),
         NEW inside \in BOOLEAN
  PROVE  Verdict(s, inside) \in {[kind |-> "hold", length |-> Len(s)],
                                 [kind |-> "text", length |-> 1]}
<1>1. l.text \in Seq(Character) /\ Len(l.text) \in Nat \ {0} /\ l.from = l.to
  BY LexemeFacts DEF NeverATag
<1>2. Len(s) <= Len(l.text) /\ \A n \in 1..Len(s) : s[n] = l.text[n]
  BY <1>1, PrefixFacts
<1> DEFINE ahead == Append(l.text, l.text[1])
<1>3. \A tag \in TagBeginnings : ~IsPrefix(tag, ahead)
  BY <1>1 DEF NeverATag
<1>4. ahead \in Seq(Character) /\ Len(ahead) = Len(l.text) + 1
      /\ \A n \in 1..Len(l.text) : ahead[n] = l.text[n]
  BY <1>1
<1> HIDE DEF ahead
<1>5. ASSUME NEW tag \in TagBeginnings, IsPrefix(tag, s) PROVE FALSE
  <2>1. tag \in Seq(Character)
    BY TagFacts
  <2>2. Len(tag) <= Len(s) /\ \A n \in 1..Len(tag) : tag[n] = s[n]
    BY <1>5, <2>1, PrefixFacts
  <2>3. Len(tag) \in Nat /\ Len(s) \in Nat
    BY <2>1
  <2>4. Len(tag) <= Len(ahead)
    BY <1>1, <1>2, <1>4, <2>2, <2>3
  <2>5. ASSUME NEW n \in 1..Len(tag) PROVE tag[n] = ahead[n]
    BY <1>1, <1>2, <1>4, <2>2, <2>3
  <2> QED
    BY <1>3, <1>4, <2>1, <2>4, <2>5, PrefixFacts
<1>6. matchOpeningReasoningTag(s) = 0 /\ matchClosingReasoningTag(s) = 0
  <2>1. \A tag \in openTagNames : ~IsPrefix(tag, s)
    BY <1>5 DEF TagBeginnings
  <2>2. \A tag \in closeTagNames : ~IsPrefix(Front(tag), s)
    BY <1>5 DEF TagBeginnings
  <2> QED
    BY <2>1, <2>2 DEF matchOpeningReasoningTag, matchClosingReasoningTag
<1> QED
  BY <1>6 DEF Verdict

(* And let through when something follows it.                              *)
LEMMA TextLetThrough ==
  ASSUME NEW l \in Lexemes, NeverATag(l), NEW m \in Lexemes, m.from = l.to,
         NEW s \in Seq(Character), IsPrefix(Append(l.text, m.text[1]), s),
         NEW inside \in BOOLEAN
  PROVE  Verdict(s, inside) = [kind |-> "text", length |-> 1]
<1> DEFINE ahead == Append(l.text, m.text[1])
<1>1. ahead \in Seq(Character)
  BY LexemeFacts
<1>2. \A tag \in TagBeginnings : ~IsPrefix(tag, ahead) /\ ~IsPrefix(ahead, tag)
  BY DEF NeverATag
<1>3. IsPrefix(ahead, s)
  OBVIOUS
<1> HIDE DEF ahead
<1>4. Len(ahead) <= Len(s) /\ \A n \in 1..Len(ahead) : ahead[n] = s[n]
  BY <1>1, <1>3, PrefixFacts
<1>5. ASSUME NEW tag \in TagBeginnings, IsPrefix(tag, s) \/ IsPrefix(s, tag) PROVE FALSE
  <2>1. tag \in Seq(Character)
    BY TagFacts
  <2>2. \A n \in 1..Len(tag) : n <= Len(s) => tag[n] = s[n]
    BY <1>5, <2>1, PrefixFacts
  <2>3. IsPrefix(tag, ahead) \/ IsPrefix(ahead, tag)
    BY <1>1, <1>4, <2>1, <2>2, PrefixFacts
  <2> QED
    BY <1>2, <2>3
<1>6. ASSUME NEW tag \in closeTagNames, IsPrefix(s, tag) PROVE FALSE
  <2>1. /\ tag \in Seq(Character) /\ Len(tag) = 5
        /\ Front(tag) \in Seq(Character) /\ Len(Front(tag)) = 4
        /\ \A i \in 1..4 : Front(tag)[i] = tag[i]
    BY TagFacts
  <2>2. Len(s) <= 5 /\ \A n \in 1..Len(s) : s[n] = tag[n]
    BY <1>6, <2>1, PrefixFacts
  <2>3. IsPrefix(s, Front(tag)) \/ IsPrefix(Front(tag), s)
    <3> DEFINE front == Front(tag)
    <3>1. front \in Seq(Character) /\ Len(front) = 4 /\ Len(s) \in Nat
      BY <2>1
    <3>2. ASSUME NEW n \in 1..4, n <= Len(s) PROVE front[n] = s[n]
      BY <2>1, <2>2, <3>2
    <3> HIDE DEF front
    <3>3. Len(s) <= 4 => IsPrefix(s, front)
      BY <3>1, <3>2, PrefixFacts
    <3>4. Len(s) > 4 => IsPrefix(front, s)
      BY <3>1, <3>2, PrefixFacts
    <3>5. IsPrefix(s, front) \/ IsPrefix(front, s)
      BY <3>1, <3>3, <3>4
    <3> QED
      BY <3>5 DEF front
  <2> QED
    BY <1>5, <2>3 DEF TagBeginnings
<1>7. /\ \A tag \in openTagNames : ~IsPrefix(tag, s) /\ ~IsPrefix(s, tag)
      /\ \A tag \in closeTagNames : ~IsPrefix(Front(tag), s) /\ ~IsPrefix(s, tag)
  BY <1>5, <1>6 DEF TagBeginnings
<1>8. /\ matchOpeningReasoningTag(s) = 0 /\ matchClosingReasoningTag(s) = 0
      /\ ~isOpeningReasoningTagPrefix(s) /\ ~isClosingReasoningTagPrefix(s)
  BY <1>7 DEF matchOpeningReasoningTag, matchClosingReasoningTag,
              isOpeningReasoningTagPrefix, isClosingReasoningTagPrefix
<1> QED
  BY <1>8 DEF Verdict

-----------------------------------------------------------------------------
(* A reading of a text: which lexeme each character belongs to, and its    *)
(* place in it.  The lexemes follow one another from block to block, and   *)
(* the last is whole and leads to the block `to`.                          *)
Reading(t, who, off, to) ==
  /\ who \in [1..Len(t) -> Lexemes] /\ off \in [1..Len(t) -> Nat \ {0}]
  /\ \A i \in 1..Len(t) :
       /\ off[i] <= Len(who[i].text) /\ t[i] = who[i].text[off[i]]
       /\ IF off[i] < Len(who[i].text)
          THEN i < Len(t) /\ who[i + 1] = who[i] /\ off[i + 1] = off[i] + 1
          ELSE IF i < Len(t) THEN off[i + 1] = 1 /\ who[i + 1].from = who[i].to
          ELSE who[i].to = to

(* The block that the text is in at a position.                            *)
BlockAt(t, who, to, i) == IF i <= Len(t) THEN who[i].from ELSE to

(* A lexeme that begins somewhere is there as a whole.                     *)
LEMMA WholeLexeme ==
  ASSUME NEW t \in Seq(Character), NEW who, NEW off, NEW to, Reading(t, who, off, to),
         NEW i \in 1..Len(t), off[i] = 1, NEW k \in 1..Len(who[i].text)
  PROVE  /\ i + k - 1 <= Len(t)
         /\ who[i + k - 1] = who[i] /\ off[i + k - 1] = k
         /\ t[i + k - 1] = who[i].text[k]
<1> DEFINE l == who[i]
           Bad(n) == ~(i + n - 1 <= Len(t) /\ who[i + n - 1] = l /\ off[i + n - 1] = n)
           bad == {n \in 1..Len(l.text) : Bad(n)}
<1>1. l \in Lexemes /\ Len(l.text) \in Nat /\ Len(t) \in Nat
  BY LexemeFacts DEF Reading
<1>2. ASSUME bad # {} PROVE FALSE
  <2>1. bad \in SUBSET Nat
    BY <1>1
  <2>2. PICK n \in bad : \A m \in bad : n <= m
    BY <1>2, <2>1, LeastNat
  <2>3. n \in 1..Len(l.text) /\ Bad(n)
    OBVIOUS
  <2>4. n # 1
    BY <1>1, <2>3
  <2>5. n - 1 \in 1..Len(l.text) /\ ~(n <= n - 1)
    BY <1>1, <2>3, <2>4
  <2>6. ~Bad(n - 1)
    BY <2>2, <2>5
  <2>7. i + n - 2 \in 1..Len(t) /\ who[i + n - 2] = l /\ off[i + n - 2] = n - 1
    BY <1>1, <2>5, <2>6
  <2>8. n - 1 < Len(l.text)
    BY <1>1, <2>3
  <2>9. i + n - 2 < Len(t) /\ who[i + n - 2 + 1] = l /\ off[i + n - 2 + 1] = n - 1 + 1
    BY <2>7, <2>8 DEF Reading
  <2>10. i + n - 2 + 1 = i + n - 1 /\ n - 1 + 1 = n
    BY <1>1, <2>3
  <2> QED
    BY <1>1, <2>3, <2>9, <2>10
<1>3. ~Bad(k)
  BY <1>2
<1>4. i + k - 1 \in 1..Len(t)
  BY <1>1, <1>3
<1> QED
  BY <1>3, <1>4 DEF Reading

(* What is behind the start of a lexeme is a piece of it, or goes on with  *)
(* the first character of one that may follow it.                          *)
LEMMA BehindStart ==
  ASSUME NEW t \in Seq(Character), NEW who, NEW off, NEW to, Reading(t, who, off, to),
         NEW i \in 1..Len(t), off[i] = 1, NEW n \in i..Len(t)
  PROVE  LET l == who[i]
             tail == SubSeq(t, i, n)
         IN IF n - i + 1 <= Len(l.text) THEN IsPrefix(tail, l.text)
            ELSE /\ IsPrefix(l.text, tail)
                 /\ \E m \in Lexemes : /\ m.from = l.to
                                       /\ IsPrefix(Append(l.text, m.text[1]), tail)
<1> DEFINE l == who[i]
           tail == SubSeq(t, i, n)
<1>1. l \in Lexemes /\ l.text \in Seq(Character) /\ Len(l.text) \in Nat \ {0} /\ Len(t) \in Nat
  BY LexemeFacts DEF Reading
<1>2. /\ tail \in Seq(Character) /\ Len(tail) = n - i + 1
      /\ \A j \in 1..n - i + 1 : tail[j] = t[i + j - 1]
  BY PieceFacts
<1> HIDE DEF tail
<1>3. ASSUME NEW k \in 1..Len(l.text), k <= n - i + 1 PROVE tail[k] = l.text[k]
  <2>1. t[i + k - 1] = l.text[k]
    BY WholeLexeme
  <2>2. k \in 1..n - i + 1
    BY <1>1, <1>3
  <2> QED
    BY <1>2, <2>1, <2>2
<1>4. CASE n - i + 1 <= Len(l.text)
  <2>1. \A k \in 1..Len(tail) : k \in 1..Len(l.text) /\ k <= n - i + 1
    BY <1>1, <1>2, <1>4
  <2>2. IsPrefix(tail, l.text)
    BY <1>1, <1>2, <1>3, <1>4, <2>1, PrefixFacts
  <2> QED
    BY <1>4, <2>2 DEF tail
<1>5. CASE n - i + 1 > Len(l.text)
  <2>1. IsPrefix(l.text, tail)
    <3>1. \A k \in 1..Len(l.text) : k <= n - i + 1
      BY <1>1, <1>5
    <3>2. Len(l.text) <= Len(tail)
      BY <1>1, <1>2, <1>5
    <3> QED
      BY <1>1, <1>2, <1>3, <3>1, <3>2, PrefixFacts
  <2> DEFINE e == i + Len(l.text) - 1
  <2>2. e \in 1..Len(t) /\ e < Len(t) /\ who[e] = l /\ off[e] = Len(l.text)
    BY <1>1, <1>5, WholeLexeme
  <2>3. off[e + 1] = 1 /\ who[e + 1].from = l.to
    BY <1>1, <2>2 DEF Reading
  <2> DEFINE m == who[e + 1]
             ahead == Append(l.text, m.text[1])
  <2>4. m \in Lexemes /\ t[e + 1] = m.text[1]
    BY <1>1, <2>2, <2>3 DEF Reading
  <2>5. ahead \in Seq(Character)
    BY <1>1, <2>4, LexemeFacts
  <2>6. Len(ahead) = Len(l.text) + 1 /\ ahead[Len(l.text) + 1] = m.text[1]
        /\ \A k \in 1..Len(l.text) : ahead[k] = l.text[k]
    BY <1>1
  <2>7. tail[Len(l.text) + 1] = m.text[1]
    <3>1. Len(l.text) + 1 \in 1..n - i + 1 /\ i + (Len(l.text) + 1) - 1 = e + 1
      BY <1>1, <1>5
    <3> QED
      BY <1>2, <2>4, <3>1
  <2> HIDE DEF ahead
  <2>8. IsPrefix(ahead, tail)
    <3>1. Len(ahead) <= Len(tail)
      BY <1>1, <1>2, <1>5, <2>6
    <3>2. ASSUME NEW k \in 1..Len(ahead) PROVE ahead[k] = tail[k]
      <4>1. k \in 1..Len(l.text) \/ k = Len(l.text) + 1
        BY <1>1, <2>6
      <4>2. k <= n - i + 1
        BY <1>1, <1>5, <4>1
      <4> QED
        BY <1>3, <2>6, <2>7, <4>1, <4>2
    <3> QED
      BY <1>2, <2>5, <3>1, <3>2, PrefixFacts
  <2> QED
    BY <1>5, <2>1, <2>3, <2>4, <2>8 DEF ahead, tail
<1> QED
  BY <1>1, <1>4, <1>5

-----------------------------------------------------------------------------
(* What Feed decides at position i of its input, and its scan from there.  *)
DecisionAt(input, i, inside) ==
  IF input[i] = "<" THEN Verdict(SubSeq(input, i, Len(input)), inside)
  ELSE [kind |-> "text", length |-> 1]
Inside(verdict, inside) == verdict.kind = "open" \/ (inside /\ verdict.kind # "close")
InFront(input, i, inside, rest) ==
  IF DecisionAt(input, i, inside).kind = "text" /\ ~inside
  THEN [rest EXCEPT !.text = <<input[i]>> \o @] ELSE rest
ScanFrom(Scan, input, i, inside) ==
  IF i > Len(input)
  THEN [inReasoningTag |-> inside, tagBuffer |-> <<>>, text |-> <<>>]
  ELSE
    LET verdict == DecisionAt(input, i, inside)
    IN IF verdict.kind = "hold"
       THEN [inReasoningTag |-> inside, tagBuffer |-> SubSeq(input, i, Len(input)),
             text |-> <<>>]
       ELSE InFront(input, i, inside, Scan[i + verdict.length][Inside(verdict, inside)])
IsScan(Scan, input) ==
  Scan = [i \in 1..Len(input) + 1 |->
            [inside \in BOOLEAN |-> ScanFrom(Scan, input, i, inside)]]

(* Feed is the scan from the first position.                               *)
LEMMA FeedIsScan ==
  ASSUME NEW f, NEW chunk
  PROVE  LET input == f.tagBuffer \o chunk
         IN Feed(f, chunk) = (CHOOSE Scan : IsScan(Scan, input))[1][f.inReasoningTag]
BY DEF Feed, IsScan, ScanFrom, DecisionAt, Inside, InFront

(* The scan moves on, and not beyond the input.                            *)
LEMMA DecisionMovesOn ==
  ASSUME NEW input \in Seq(Character), NEW i \in 1..Len(input), NEW inside \in BOOLEAN
  PROVE  LET v == DecisionAt(input, i, inside)
         IN v.kind = "hold" \/ v.length \in 1..Len(input) - i + 1
<1> DEFINE tail == SubSeq(input, i, Len(input))
<1>1. tail \in Seq(Character) /\ Len(tail) = Len(input) - i + 1 /\ Len(tail) >= 1
  BY PieceFacts
<1> HIDE DEF tail
<1>2. matchOpeningReasoningTag(tail) \in 0..Len(tail) /\ matchClosingReasoningTag(tail) \in 0..Len(tail)
  BY <1>1, OpenMatch, CloseMatch
<1>3. Verdict(tail, inside).kind = "hold" \/ Verdict(tail, inside).length \in 1..Len(tail)
  BY <1>1, <1>2 DEF Verdict
<1> QED
  BY <1>1, <1>3 DEF DecisionAt, tail

(* There is such a scan: it is built from the end of the input.            *)
LEMMA ScanExists ==
  ASSUME NEW input \in Seq(Character)
  PROVE  \E Scan : IsScan(Scan, input)
<1> DEFINE n == Len(input)
           Part(k, g) == g = [i \in n + 1 - k..n + 1 |->
                                [inside \in BOOLEAN |-> ScanFrom(g, input, i, inside)]]
           bad == {k \in 0..n : ~\E g : Part(k, g)}
<1>1. n \in Nat
  OBVIOUS
<1>2. \E g : Part(0, g)
  <2> DEFINE g == [i \in n + 1..n + 1 |-> [inside \in BOOLEAN |->
                     [inReasoningTag |-> inside, tagBuffer |-> <<>>, text |-> <<>>]]]
  <2>1. \A i \in n + 1..n + 1 : i > n
    BY <1>1
  <2>2. \A h : \A i \in n + 1..n + 1, inside \in BOOLEAN :
           ScanFrom(h, input, i, inside)
             = [inReasoningTag |-> inside, tagBuffer |-> <<>>, text |-> <<>>]
    BY <2>1 DEF ScanFrom
  <2>3. n + 1 - 0 = n + 1
    BY <1>1
  <2>4. Part(0, g)
    BY <2>2, <2>3
  <2> QED
    BY <2>4
<1>3. ASSUME NEW k \in 0..n - 1, NEW g, Part(k, g) PROVE \E h : Part(k + 1, h)
  <2> DEFINE h == [i \in n - k..n + 1 |-> [inside \in BOOLEAN |->
                     IF i = n - k THEN ScanFrom(g, input, i, inside) ELSE g[i][inside]]]
  <2>1. \A i \in n - k + 1..n + 1, inside \in BOOLEAN :
           g[i][inside] = ScanFrom(g, input, i, inside)
    <3>1. n + 1 - k = n - k + 1
      BY <1>1
    <3> QED
      BY <1>3, <3>1
  <2>2. \A i \in n - k + 1..n + 1, inside \in BOOLEAN : h[i][inside] = g[i][inside]
    <3>1. \A i \in n - k + 1..n + 1 : i \in n - k..n + 1 /\ i # n - k
      BY <1>1
    <3> QED
      BY <3>1
  <2>3. ASSUME NEW i \in n - k..n + 1, NEW inside \in BOOLEAN
        PROVE  h[i][inside] = ScanFrom(g, input, i, inside)
    <3>1. i = n - k \/ i \in n - k + 1..n + 1
      BY <1>1
    <3>2. CASE i = n - k
      BY <3>2
    <3>3. CASE i \in n - k + 1..n + 1
      <4> HIDE DEF h
      <4> QED
        BY <2>1, <2>2, <3>3
    <3> QED
      BY <3>1, <3>2, <3>3
  <2>4. h = [i \in n - k..n + 1 |-> [inside \in BOOLEAN |-> h[i][inside]]]
    OBVIOUS
  <2> HIDE DEF h
  <2>5. ASSUME NEW i \in n - k..n + 1, NEW inside \in BOOLEAN
        PROVE  ScanFrom(g, input, i, inside) = ScanFrom(h, input, i, inside)
    <3>1. CASE i > n
      BY <3>1 DEF ScanFrom
    <3>2. CASE i <= n
      <4> DEFINE v == DecisionAt(input, i, inside)
      <4>1. i \in 1..n
        BY <1>1, <3>2
      <4>2. v.kind = "hold" \/ v.length \in 1..n - i + 1
        BY <4>1, DecisionMovesOn
      <4> HIDE DEF v
      <4>3. CASE v.kind = "hold"
        BY <4>3 DEF ScanFrom, v
      <4>4. CASE v.kind # "hold"
        <5>1. i + v.length \in n - k + 1..n + 1
          BY <1>1, <4>1, <4>2, <4>4
        <5>2. Inside(v, inside) \in BOOLEAN
          BY DEF Inside
        <5>3. h[i + v.length][Inside(v, inside)] = g[i + v.length][Inside(v, inside)]
          BY <2>2, <5>1, <5>2
        <5> QED
          BY <5>3 DEF ScanFrom, v
      <4> QED
        BY <4>3, <4>4
    <3> QED
      BY <1>1, <3>1, <3>2
  <2>6. h = [i \in n - k..n + 1 |-> [inside \in BOOLEAN |-> ScanFrom(h, input, i, inside)]]
    <3>1. \A i \in n - k..n + 1, inside \in BOOLEAN :
             h[i][inside] = ScanFrom(h, input, i, inside)
      BY <2>3, <2>5
    <3> QED
      BY <2>4, <3>1
  <2>7. n + 1 - (k + 1) = n - k
    BY <1>1
  <2>8. Part(k + 1, h)
    BY <2>6, <2>7
  <2> QED
    BY <2>8
<1>4. ASSUME bad # {} PROVE FALSE
  <2>1. bad \in SUBSET Nat
    BY <1>1
  <2> HIDE DEF Part
  <2>2. PICK k \in bad : \A m \in bad : k <= m
    BY <1>4, <2>1, LeastNat
  <2>3. k \in 0..n /\ k # 0
    BY <1>1, <1>2, <2>2
  <2>4. k - 1 \in 0..n - 1 /\ k - 1 \in 0..n /\ ~(k <= k - 1) /\ (k - 1) + 1 = k
    BY <1>1, <2>3
  <2>5. PICK g : Part(k - 1, g)
    BY <2>2, <2>4
  <2>6. \E h : Part((k - 1) + 1, h)
    BY <1>3, <2>4, <2>5
  <2> QED
    BY <2>2, <2>4, <2>6
<1>5. PICK g : Part(n, g)
  BY <1>1, <1>4
<1>6. n + 1 - n = 1
  BY <1>1
<1>7. IsScan(g, input)
  BY <1>5, <1>6 DEF IsScan
<1> QED
  BY <1>7

-----------------------------------------------------------------------------
(* The visible characters of a text, counted: c[i] of the first i are, and *)
(* they are what is owed.                                                  *)
Counted(t, who, c, shown) ==
  /\ c \in [0..Len(t) -> Nat] /\ c[0] = 0 /\ c[Len(t)] = Len(shown)
  /\ \A i \in 1..Len(t) : IF Shown(who[i]) THEN c[i] = c[i - 1] + 1 /\ shown[c[i]] = t[i]
                          ELSE c[i] = c[i - 1]

(* The count never falls.                                                  *)
LEMMA CountRises ==
  ASSUME NEW t \in Seq(Character), NEW who, NEW c, NEW shown, Counted(t, who, c, shown),
         NEW i \in 0..Len(t), NEW j \in i..Len(t)
  PROVE  c[i] <= c[j]
<1> DEFINE bad == {n \in i..Len(t) : ~(c[i] <= c[n])}
<1>1. c \in [0..Len(t) -> Nat] /\ i \in Nat /\ Len(t) \in Nat
  BY DEF Counted
<1>2. ASSUME bad # {} PROVE FALSE
  <2>1. bad \in SUBSET Nat
    BY <1>1
  <2>2. PICK n \in bad : \A m \in bad : n <= m
    BY <1>2, <2>1, LeastNat
  <2>3. n \in i..Len(t) /\ n # i /\ ~(c[i] <= c[n])
    BY <1>1, <2>2
  <2>4. n - 1 \in i..Len(t) /\ n \in 1..Len(t) /\ ~(n <= n - 1)
    BY <1>1, <2>3
  <2>5. c[i] <= c[n - 1]
    BY <2>2, <2>4
  <2>6. c[n - 1] <= c[n]
    BY <1>1, <2>4 DEF Counted
  <2> QED
    BY <1>1, <2>3, <2>4, <2>5, <2>6
<1> QED
  BY <1>2

(* Where nothing is visible the count stays.                               *)
LEMMA CountStays ==
  ASSUME NEW t \in Seq(Character), NEW who, NEW c, NEW shown, Counted(t, who, c, shown),
         NEW i \in 1..Len(t), NEW j \in i - 1..Len(t), \A n \in i..j : ~Shown(who[n])
  PROVE  c[j] = c[i - 1]
<1> DEFINE bad == {n \in i - 1..j : c[n] # c[i - 1]}
<1>1. c \in [0..Len(t) -> Nat] /\ i \in Nat /\ i >= 1 /\ j \in Nat /\ Len(t) \in Nat
  BY DEF Counted
<1>2. ASSUME bad # {} PROVE FALSE
  <2>1. bad \in SUBSET Nat
    BY <1>1
  <2>2. PICK n \in bad : \A m \in bad : n <= m
    BY <1>2, <2>1, LeastNat
  <2>3. n \in i..j /\ c[n] # c[i - 1]
    BY <1>1, <2>2
  <2>4. n - 1 \in i - 1..j /\ n \in 1..Len(t) /\ ~(n <= n - 1)
    BY <1>1, <2>3
  <2>5. c[n - 1] = c[i - 1]
    BY <2>2, <2>4
  <2>6. c[n] = c[n - 1]
    BY <2>3, <2>4 DEF Counted
  <2> QED
    BY <2>3, <2>5, <2>6
<1>3. j \in i - 1..j
  BY <1>1
<1> QED
  BY <1>2, <1>3

(* What leads from one block to another is a tag.                          *)
LEMMA KindOfLexeme ==
  ASSUME NEW l \in Lexemes
  PROVE  /\ l.from = l.to => NeverATag(l)
         /\ l.from # l.to => /\ l.text[1] = "<"
                             /\ \/ OpeningTag(l) /\ l.from = "none" /\ l.to # "none"
                                \/ ClosingTag(l) /\ l.from # "none" /\ l.to = "none"
<1>1. OpeningTag(l) => l.from = "none" /\ l.to # "none" /\ l.text[1] = "<"
  BY OpeningFacts
<1>2. ClosingTag(l) => l.from # "none" /\ l.to = "none" /\ l.text[1] = "<"
  BY ClosingFacts
<1>3. NeverATag(l) => l.from = l.to
  BY DEF NeverATag
<1> QED
  BY <1>1, <1>2, <1>3, LexemeFacts

(* What is behind a whole lexeme.                                          *)
LEMMA BehindLexeme ==
  ASSUME NEW t \in Seq(Character), NEW who, NEW off, NEW to, Reading(t, who, off, to),
         NEW i \in 1..Len(t), off[i] = 1
  PROVE  LET k == Len(who[i].text)
         IN /\ k \in Nat \ {0} /\ i + k - 1 \in 1..Len(t)
            /\ i + k <= Len(t) => off[i + k] = 1
            /\ BlockAt(t, who, to, i + k) = who[i].to
            /\ \A n \in i..i + k - 1 : who[n] = who[i]
<1> DEFINE k == Len(who[i].text)
           e == i + k - 1
<1>1. who[i] \in Lexemes /\ k \in Nat \ {0} /\ Len(t) \in Nat
  BY LexemeFacts DEF Reading
<1>2. e \in 1..Len(t) /\ who[e] = who[i] /\ off[e] = k
  BY <1>1, WholeLexeme
<1>3. e + 1 = i + k
  BY <1>1
<1>4. ~(off[e] < Len(who[e].text))
  BY <1>1, <1>2
<1>5. IF e < Len(t) THEN off[e + 1] = 1 /\ who[e + 1].from = who[e].to ELSE who[e].to = to
  BY <1>2, <1>4 DEF Reading
<1>6. ASSUME NEW n \in i..e PROVE who[n] = who[i]
  <2>1. PICK j \in 1..k : i + j - 1 = n
    <3>1. n - i + 1 \in 1..k /\ i + (n - i + 1) - 1 = n
      BY <1>1
    <3> QED
      BY <3>1
  <2>2. who[i + j - 1] = who[i]
    <3>1. j \in 1..Len(who[i].text)
      BY <2>1
    <3> HIDE DEF e, k
    <3> QED
      BY <3>1, WholeLexeme
  <2> QED
    BY <2>1, <2>2
<1> QED
  BY <1>1, <1>2, <1>3, <1>5, <1>6 DEF BlockAt

(* Where a scan may stand: at the start of a lexeme, or within a text.     *)
Between(t, who, off, i) == i <= Len(t) => off[i] = 1 \/ who[i].from = who[i].to

(* And where it stops if it holds something back: in a lexeme that may be  *)
(* a tag that is cut off.                                                  *)
Held(who, off, h, n) ==
  /\ off[h] = 1
  /\ n - h + 1 <= Len(who[h].text)
  /\ who[h].from # who[h].to => n - h + 1 < Len(who[h].text)

(* What Feed decides where it may stand in a text of lexemes: a tag is     *)
(* taken whole, a text is let through, and a possible tag held back.       *)
LEMMA DecisionRead ==
  ASSUME NEW t \in Seq(Character), NEW who, NEW off, NEW to, Reading(t, who, off, to),
         NEW input \in Seq(Character), Len(input) <= Len(t),
         \A n \in 1..Len(input) : input[n] = t[n],
         NEW i \in 1..Len(input), Between(t, who, off, i)
  PROVE  LET l == who[i]
             v == DecisionAt(input, i, l.from # "none")
         IN \/ v = [kind |-> "text", length |-> 1] /\ l.from = l.to
            \/ v = [kind |-> "hold", length |-> Len(input) - i + 1]
               /\ Held(who, off, i, Len(input))
            \/ /\ l.from # l.to /\ off[i] = 1 /\ i + Len(l.text) - 1 <= Len(input)
               /\ v = [kind |-> IF l.from = "none" THEN "open" ELSE "close",
                       length |-> Len(l.text)]
<1> DEFINE l == who[i]
           n == Len(input)
           inside == l.from # "none"
           tail == SubSeq(input, i, n)
<1>1. l \in Lexemes /\ l.text \in Seq(Character) /\ Len(l.text) \in Nat \ {0}
      /\ i \in 1..Len(t) /\ n \in i..Len(t) /\ Len(t) \in Nat /\ off[i] \in 1..Len(l.text)
      /\ t[i] = l.text[off[i]]
  BY LexemeFacts DEF Reading
<1>2. CASE input[i] # "<"
  <2>1. l.from = l.to
    BY <1>1, <1>2, KindOfLexeme DEF Between
  <2> QED
    BY <1>2, <2>1 DEF DecisionAt
<1>3. CASE input[i] = "<"
  <2>1. off[i] = 1
    <3>1. l.text[off[i]] = "<"
      BY <1>1, <1>3
    <3> QED
      BY <1>1, <3>1, LexemeFacts
  <2>2. tail = SubSeq(t, i, n)
    <3>1. tail \in Seq(Character) /\ Len(tail) = n - i + 1
          /\ \A j \in 1..n - i + 1 : tail[j] = input[i + j - 1]
      BY PieceFacts
    <3>2. SubSeq(t, i, n) \in Seq(Character) /\ Len(SubSeq(t, i, n)) = n - i + 1
          /\ \A j \in 1..n - i + 1 : SubSeq(t, i, n)[j] = t[i + j - 1]
      BY <1>1, PieceFacts
    <3>3. \A j \in 1..n - i + 1 : i + j - 1 \in 1..n
      BY <1>1
    <3> HIDE DEF tail
    <3> QED
      BY <3>1, <3>2, <3>3, SameSeq
  <2>3. tail \in Seq(Character) /\ Len(tail) = n - i + 1 /\ tail # <<>>
    <3>1. tail \in Seq(Character) /\ Len(tail) = n - i + 1
      BY PieceFacts
    <3>2. n - i + 1 # 0
      BY <1>1
    <3> HIDE DEF tail
    <3> QED
      BY <3>1, <3>2
  <2>4. DecisionAt(input, i, inside) = Verdict(tail, inside)
    BY <1>3 DEF DecisionAt
  <2>5. IF n - i + 1 <= Len(l.text) THEN IsPrefix(tail, l.text)
        ELSE /\ IsPrefix(l.text, tail)
             /\ \E m \in Lexemes : m.from = l.to /\ IsPrefix(Append(l.text, m.text[1]), tail)
    <3>1. LET here == SubSeq(t, i, n)
          IN IF n - i + 1 <= Len(l.text) THEN IsPrefix(here, l.text)
             ELSE /\ IsPrefix(l.text, here)
                  /\ \E m \in Lexemes : /\ m.from = l.to
                                        /\ IsPrefix(Append(l.text, m.text[1]), here)
      BY <1>1, <2>1, BehindStart
    <3> HIDE DEF tail
    <3> QED
      BY <2>2, <3>1
  <2>6. inside \in BOOLEAN
    OBVIOUS
  <2> HIDE DEF tail, inside
  <2>7. CASE l.from = l.to /\ n - i + 1 <= Len(l.text)
    <3>1. Verdict(tail, inside) \in {[kind |-> "hold", length |-> Len(tail)],
                                     [kind |-> "text", length |-> 1]}
      BY <1>1, <2>3, <2>5, <2>6, <2>7, KindOfLexeme, TextUntaken
    <3> QED
      BY <2>1, <2>3, <2>4, <2>7, <3>1 DEF Held, inside
  <2>8. CASE l.from = l.to /\ ~(n - i + 1 <= Len(l.text))
    <3>1. PICK m \in Lexemes : m.from = l.to /\ IsPrefix(Append(l.text, m.text[1]), tail)
      BY <2>5, <2>8
    <3>2. Verdict(tail, inside) = [kind |-> "text", length |-> 1]
      BY <1>1, <2>3, <2>6, <2>8, <3>1, KindOfLexeme, TextLetThrough
    <3> QED
      BY <2>4, <2>8, <3>2 DEF inside
  <2>9. CASE l.from # l.to /\ n - i + 1 < Len(l.text)
    <3>1. OpeningTag(l) \/ ClosingTag(l)
      BY <1>1, <2>9, KindOfLexeme
    <3>2. IsPrefix(tail, l.text)
      BY <1>1, <2>5, <2>9
    <3>3. Verdict(tail, inside) = [kind |-> "hold", length |-> Len(tail)]
      BY <1>1, <2>3, <2>9, <3>1, <3>2, CutTagHeld DEF inside
    <3> QED
      BY <1>1, <2>1, <2>3, <2>4, <2>9, <3>3 DEF Held, inside
  <2>10. CASE l.from # l.to /\ ~(n - i + 1 < Len(l.text))
    <3>1. IsPrefix(l.text, tail)
      <4>1. CASE n - i + 1 = Len(l.text)
        <5>1. IsPrefix(tail, l.text)
          BY <1>1, <2>5, <4>1
        <5> QED
          BY <1>1, <2>3, <4>1, <5>1, PrefixFacts
      <4>2. CASE n - i + 1 # Len(l.text)
        <5>1. ~(n - i + 1 <= Len(l.text))
          BY <1>1, <2>10, <4>2
        <5> QED
          BY <2>5, <5>1
      <4> QED
        BY <4>1, <4>2
    <3>4. i + Len(l.text) - 1 <= n
      BY <1>1, <2>10
    <3>2. CASE l.from = "none"
      <4>1. OpeningTag(l)
        BY <1>1, <2>10, <3>2, KindOfLexeme
      <4>2. Verdict(tail, FALSE) = [kind |-> "open", length |-> Len(l.text)]
        BY <1>1, <2>3, <3>1, <4>1, OpeningTaken
      <4> QED
        BY <2>1, <2>4, <2>10, <3>2, <3>4, <4>2 DEF inside
    <3>3. CASE l.from # "none"
      <4>1. ClosingTag(l)
        BY <1>1, <2>10, <3>3, KindOfLexeme
      <4>2. Verdict(tail, TRUE) = [kind |-> "close", length |-> Len(l.text)]
        BY <1>1, <2>3, <3>1, <4>1, ClosingTaken
      <4> QED
        BY <2>1, <2>4, <2>10, <3>3, <3>4, <4>2 DEF inside
    <3> QED
      BY <3>2, <3>3
  <2> QED
    BY <1>1, <2>7, <2>8, <2>9, <2>10
<1> QED
  BY <1>2, <1>3

(* The value of the scan at a position.                                    *)
LEMMA ScanValue ==
  ASSUME NEW input, NEW Scan, IsScan(Scan, input), NEW i \in 1..Len(input) + 1,
         NEW inside \in BOOLEAN
  PROVE  Scan[i][inside] = ScanFrom(Scan, input, i, inside)
BY DEF IsScan

(* A piece of a text is its first character and the rest.                  *)
LEMMA FirstOfPiece ==
  ASSUME NEW s \in Seq(Character), NEW a \in Nat, NEW b \in Nat, a < b, b <= Len(s)
  PROVE  <<s[a + 1]>> \o SubSeq(s, a + 2, b) = SubSeq(s, a + 1, b)
<1>1. /\ SubSeq(s, a + 2, b) \in Seq(Character) /\ Len(SubSeq(s, a + 2, b)) = b - a - 1
      /\ \A i \in 1..b - a - 1 : SubSeq(s, a + 2, b)[i] = s[a + 1 + i]
  OBVIOUS
<1>2. /\ SubSeq(s, a + 1, b) \in Seq(Character) /\ Len(SubSeq(s, a + 1, b)) = b - a
      /\ \A i \in 1..b - a : SubSeq(s, a + 1, b)[i] = s[a + i]
  OBVIOUS
<1> DEFINE u == SubSeq(s, a + 2, b)
           w == SubSeq(s, a + 1, b)
<1>3. <<s[a + 1]>> \in Seq(Character) /\ Len(<<s[a + 1]>>) = 1
  OBVIOUS
<1> HIDE DEF u, w
<1>4. /\ <<s[a + 1]>> \o u \in Seq(Character) /\ Len(<<s[a + 1]>> \o u) = b - a
      /\ (<<s[a + 1]>> \o u)[1] = s[a + 1]
      /\ \A i \in 1..b - a - 1 : (<<s[a + 1]>> \o u)[1 + i] = u[i]
  BY <1>1, <1>3 DEF u
<1>5. ASSUME NEW i \in 1..b - a PROVE (<<s[a + 1]>> \o u)[i] = w[i]
  <2>1. i = 1 \/ (i - 1 \in 1..b - a - 1 /\ i = 1 + (i - 1) /\ a + 1 + (i - 1) = a + i)
    OBVIOUS
  <2>2. CASE i = 1
    BY <1>2, <1>4, <2>2 DEF w
  <2>3. CASE i - 1 \in 1..b - a - 1 /\ i = 1 + (i - 1) /\ a + 1 + (i - 1) = a + i
    BY <1>1, <1>2, <1>4, <2>3 DEF u, w
  <2> QED
    BY <2>1, <2>2, <2>3
<1> QED
  BY <1>2, <1>4, <1>5, SameSeq DEF u, w

(* Behind what the scan has decided it stands between lexemes again.       *)
LEMMA ScanMovesOn ==
  ASSUME NEW t \in Seq(Character), NEW who, NEW off, NEW to, Reading(t, who, off, to),
         NEW i \in 1..Len(t), Between(t, who, off, i)
  PROVE  /\ who[i].from = who[i].to =>
              /\ Between(t, who, off, i + 1)
              /\ BlockAt(t, who, to, i + 1) = who[i].from
         /\ off[i] = 1 =>
              /\ Between(t, who, off, i + Len(who[i].text))
              /\ BlockAt(t, who, to, i + Len(who[i].text)) = who[i].to
<1>1. who[i] \in Lexemes /\ Len(who[i].text) \in Nat /\ Len(t) \in Nat /\ off[i] \in Nat
      /\ off[i] <= Len(who[i].text)
  BY LexemeFacts DEF Reading
<1>2. IF off[i] < Len(who[i].text)
      THEN i < Len(t) /\ who[i + 1] = who[i] /\ off[i + 1] = off[i] + 1
      ELSE IF i < Len(t) THEN off[i + 1] = 1 /\ who[i + 1].from = who[i].to
      ELSE who[i].to = to
  BY DEF Reading
<1>3. ASSUME who[i].from = who[i].to
      PROVE  Between(t, who, off, i + 1) /\ BlockAt(t, who, to, i + 1) = who[i].from
  BY <1>1, <1>2, <1>3 DEF Between, BlockAt
<1>4. ASSUME off[i] = 1
      PROVE  /\ Between(t, who, off, i + Len(who[i].text))
             /\ BlockAt(t, who, to, i + Len(who[i].text)) = who[i].to
  BY <1>4, BehindLexeme DEF Between
<1> QED
  BY <1>3, <1>4

(* The scan of the beginning of a text lets through what is visible of it, *)
(* up to where it holds back, and knows the block there.                   *)
ScanReads(Scan, input, t, who, off, to, c, shown, i, h) ==
  /\ Scan[i][BlockAt(t, who, to, i) # "none"] =
       [inReasoningTag |-> BlockAt(t, who, to, h) # "none",
        tagBuffer |-> SubSeq(input, h, Len(input)),
        text |-> SubSeq(shown, c[i - 1] + 1, c[h - 1])]
  /\ Between(t, who, off, h)
  /\ h <= Len(input) => Held(who, off, h, Len(input))

(* From where it may stand, the scan gives the visible characters up to    *)
(* where it stops.                                                         *)
LEMMA ScanRead ==
  ASSUME NEW t \in Seq(Character), NEW who, NEW off, NEW to, Reading(t, who, off, to),
         NEW c, NEW shown \in Seq(Character), Counted(t, who, c, shown),
         NEW input \in Seq(Character), Len(input) <= Len(t),
         \A n \in 1..Len(input) : input[n] = t[n],
         NEW Scan, IsScan(Scan, input),
         NEW i \in 1..Len(input) + 1, Between(t, who, off, i)
  PROVE  \E h \in i..Len(input) + 1 :
            ScanReads(Scan, input, t, who, off, to, c, shown, i, h)
<1>0. ASSUME NEW p \in 1..Len(input), Between(t, who, off, p)
      PROVE  LET v == DecisionAt(input, p, who[p].from # "none")
             IN \/ v = [kind |-> "text", length |-> 1] /\ who[p].from = who[p].to
                \/ v = [kind |-> "hold", length |-> Len(input) - p + 1]
                   /\ Held(who, off, p, Len(input))
                \/ /\ who[p].from # who[p].to /\ off[p] = 1
                   /\ p + Len(who[p].text) - 1 <= Len(input)
                   /\ v = [kind |-> IF who[p].from = "none" THEN "open" ELSE "close",
                           length |-> Len(who[p].text)]
  BY <1>0, DecisionRead
<1> DEFINE n == Len(input)
           Good(p) == Between(t, who, off, p) =>
                        \E h \in p..n + 1 :
                           ScanReads(Scan, input, t, who, off, to, c, shown, p, h)
           bad == {k \in 0..n : ~Good(n + 1 - k)}
<1>1. n \in Nat /\ Len(t) \in Nat /\ n <= Len(t)
  OBVIOUS
<1>2. ASSUME NEW p \in 1..n + 1, NEW b \in BOOLEAN PROVE Scan[p][b] = ScanFrom(Scan, input, p, b)
  BY ScanValue
<1>3. c \in [0..Len(t) -> Nat]
  BY DEF Counted
<1>4. ASSUME NEW p \in 1..n + 1, p = n + 1 PROVE Good(p)
  <2>1. p \in p..n + 1 /\ ~(p <= n) /\ p > n /\ p - 1 = n
    BY <1>1, <1>4
  <2>2. SubSeq(input, p, n) = <<>>
    BY <1>4
  <2>3. SubSeq(shown, c[p - 1] + 1, c[p - 1]) = <<>>
    BY <1>1, <1>3, <2>1
  <2> DEFINE inside == BlockAt(t, who, to, p) # "none"
  <2>4. Scan[p][inside] = [inReasoningTag |-> inside, tagBuffer |-> <<>>, text |-> <<>>]
    BY <1>2, <2>1 DEF ScanFrom
  <2>5. ASSUME Between(t, who, off, p)
        PROVE  ScanReads(Scan, input, t, who, off, to, c, shown, p, p)
    <3> HIDE DEF inside, n
    <3> QED
      BY <2>1, <2>2, <2>3, <2>4, <2>5 DEF ScanReads, n, inside
  <2> QED
    BY <2>1, <2>5
<1> HIDE DEF Good
<1>5. ASSUME NEW p \in 1..n, \A q \in p + 1..n + 1 : Good(q), Between(t, who, off, p)
      PROVE  \E h \in p..n + 1 : ScanReads(Scan, input, t, who, off, to, c, shown, p, h)
  <2> DEFINE l == who[p]
             inside == l.from # "none"
             v == DecisionAt(input, p, inside)
  <2>1. p \in 1..Len(t) /\ l \in Lexemes /\ Len(l.text) \in Nat \ {0}
    BY <1>1, LexemeFacts DEF Reading
  <2>2. BlockAt(t, who, to, p) = l.from
    BY <1>1 DEF BlockAt
  <2>3. \/ v = [kind |-> "text", length |-> 1] /\ l.from = l.to
        \/ v = [kind |-> "hold", length |-> n - p + 1] /\ Held(who, off, p, n)
        \/ /\ l.from # l.to /\ off[p] = 1 /\ p + Len(l.text) - 1 <= n
           /\ v = [kind |-> IF l.from = "none" THEN "open" ELSE "close",
                   length |-> Len(l.text)]
    <3>1. p \in 1..Len(input) /\ Between(t, who, off, p)
      BY <1>5
    <3> QED
      BY <1>0, <3>1
  <2>4. Scan[p][inside] = ScanFrom(Scan, input, p, inside)
    <3>1. p \in 1..n + 1
      BY <1>1
    <3> QED
      BY <1>2, <3>1
  <2>5. ScanFrom(Scan, input, p, inside) =
          IF v.kind = "hold"
          THEN [inReasoningTag |-> inside, tagBuffer |-> SubSeq(input, p, n), text |-> <<>>]
          ELSE InFront(input, p, inside, Scan[p + v.length][Inside(v, inside)])
    <3>1. ~(p > n)
      BY <1>1
    <3> QED
      BY <3>1 DEF ScanFrom
  <2> HIDE DEF v, inside
  <2>6. CASE v.kind = "hold"
    <3>1. Held(who, off, p, n)
      BY <2>3, <2>6
    <3>2. SubSeq(shown, c[p - 1] + 1, c[p - 1]) = <<>>
      <4>1. p - 1 \in 0..Len(t)
        BY <1>1
      <4>2. c[p - 1] \in Nat
        BY <1>3, <4>1
      <4> QED
        BY <4>2
    <3>3. p \in p..n + 1
      BY <1>1
    <3> QED
      BY <1>5, <2>2, <2>4, <2>5, <2>6, <3>1, <3>2, <3>3 DEF ScanReads, inside
  <2>7. CASE v = [kind |-> "text", length |-> 1] /\ l.from = l.to
    <3>1. Between(t, who, off, p + 1) /\ BlockAt(t, who, to, p + 1) = l.from
      BY <1>5, <2>1, <2>7, ScanMovesOn
    <3>2. p + 1 \in p + 1..n + 1 /\ p + 1 - 1 = p
      BY <1>1
    <3>3. PICK h \in p + 1..n + 1 : ScanReads(Scan, input, t, who, off, to, c, shown, p + 1, h)
      BY <1>5, <3>1, <3>2 DEF Good
    <3> DEFINE rest == Scan[p + 1][inside]
               ahead == SubSeq(shown, c[p] + 1, c[h - 1])
    <3>4. rest = [inReasoningTag |-> BlockAt(t, who, to, h) # "none",
                  tagBuffer |-> SubSeq(input, h, n), text |-> ahead]
      BY <3>1, <3>2, <3>3 DEF ScanReads, inside
    <3>5. Scan[p][inside] = InFront(input, p, inside, rest)
      <4>1. Inside(v, inside) = inside
        BY <2>7 DEF Inside, inside
      <4> QED
        BY <2>4, <2>5, <2>7, <4>1
    <3>6. h \in p..n + 1 /\ h - 1 \in p..Len(t) /\ p \in 0..Len(t) /\ p - 1 \in 0..Len(t)
      BY <1>1
    <3>7. c[p - 1] \in Nat /\ c[p] \in Nat /\ c[h - 1] \in Nat
          /\ c[p] <= c[h - 1] /\ c[h - 1] <= Len(shown)
      <4>1. h - 1 \in 0..Len(t) /\ Len(t) \in h - 1..Len(t)
        BY <1>1
      <4>2. c[p] <= c[h - 1] /\ c[h - 1] <= c[Len(t)]
        BY <3>6, <4>1, CountRises
      <4> QED
        BY <1>3, <3>6, <4>1, <4>2 DEF Counted
    <3> HIDE DEF rest, ahead
    <3>8. Scan[p][inside] = [inReasoningTag |-> BlockAt(t, who, to, h) # "none",
                             tagBuffer |-> SubSeq(input, h, n),
                             text |-> SubSeq(shown, c[p - 1] + 1, c[h - 1])]
      <4>1. CASE inside
        <5>1. ~Shown(l)
          BY <4>1 DEF Shown, inside
        <5>2. c[p] = c[p - 1]
          BY <2>1, <5>1 DEF Counted
        <5>3. Scan[p][inside] = rest
          BY <3>5, <4>1 DEF InFront
        <5> QED
          BY <3>4, <5>2, <5>3 DEF ahead
      <4>2. CASE ~inside
        <5>1. Shown(l)
          BY <2>7, <4>2 DEF Shown, inside
        <5>2. c[p] = c[p - 1] + 1 /\ shown[c[p]] = input[p]
          BY <2>1, <5>1 DEF Counted
        <5>3. Scan[p][inside] = [rest EXCEPT !.text = <<input[p]>> \o @]
          BY <2>7, <3>5, <4>2 DEF InFront, v
        <5>4. <<input[p]>> \o ahead = SubSeq(shown, c[p - 1] + 1, c[h - 1])
          <6>1. shown[c[p - 1] + 1] = input[p] /\ c[p] = c[p - 1] + 1
            BY <5>2
          <6>2. <<shown[c[p - 1] + 1]>> \o SubSeq(shown, c[p - 1] + 2, c[h - 1])
                  = SubSeq(shown, c[p - 1] + 1, c[h - 1])
            <7> DEFINE a == c[p - 1]
                       b == c[h - 1]
            <7>1. a \in Nat /\ b \in Nat /\ a < b /\ b <= Len(shown)
              BY <3>7, <6>1
            <7> HIDE DEF a, b
            <7>2. <<shown[a + 1]>> \o SubSeq(shown, a + 2, b) = SubSeq(shown, a + 1, b)
              BY <7>1, FirstOfPiece
            <7> QED
              BY <7>2 DEF a, b
          <6>3. c[p] + 1 = c[p - 1] + 2
            BY <3>7, <6>1
          <6> QED
            BY <6>1, <6>2, <6>3 DEF ahead
        <5> QED
          BY <3>4, <5>3, <5>4
      <4> QED
        BY <4>1, <4>2
    <3> QED
      BY <2>2, <3>3, <3>6, <3>8 DEF ScanReads, inside
  <2>8. CASE /\ l.from # l.to /\ off[p] = 1 /\ p + Len(l.text) - 1 <= n
             /\ v = [kind |-> IF l.from = "none" THEN "open" ELSE "close",
                     length |-> Len(l.text)]
    <3> DEFINE q == p + Len(l.text)
    <3>1. Between(t, who, off, q) /\ BlockAt(t, who, to, q) = l.to
      <4>1. /\ Between(t, who, off, p + Len(who[p].text))
            /\ BlockAt(t, who, to, p + Len(who[p].text)) = who[p].to
        BY <1>5, <2>1, <2>8, ScanMovesOn
      <4> QED
        BY <4>1
    <3>2. q \in p + 1..n + 1
      BY <1>1, <2>1, <2>8
    <3>3. PICK h \in q..n + 1 : ScanReads(Scan, input, t, who, off, to, c, shown, q, h)
      BY <1>5, <3>1, <3>2 DEF Good
    <3>4. Inside(v, inside) = (l.to # "none")
      BY <2>1, <2>8, KindOfLexeme DEF Inside, inside
    <3>5. Scan[p][inside] = Scan[q][l.to # "none"]
      <4>1. v.kind # "hold" /\ v.kind # "text" /\ v.length = Len(l.text)
        BY <2>8
      <4> QED
        BY <2>4, <2>5, <3>4, <4>1 DEF InFront, v
    <3>6. c[q - 1] = c[p - 1]
      <4>1. \A m \in p..q - 1 : who[m] = l
        <5>1. p \in 1..Len(t) /\ off[p] = 1
          BY <2>1, <2>8
        <5>2. LET k == Len(who[p].text)
              IN \A m \in p..p + k - 1 : who[m] = who[p]
          BY <5>1, BehindLexeme
        <5> QED
          BY <5>2
      <4>2. ~Shown(l)
        BY <2>8 DEF Shown
      <4>3. q - 1 \in p - 1..Len(t)
        BY <1>1, <3>2
      <4>4. \A m \in p..q - 1 : ~Shown(who[m])
        BY <4>1, <4>2
      <4> HIDE DEF q, l
      <4> DEFINE j == q - 1
      <4>5. p \in 1..Len(t) /\ j \in p - 1..Len(t) /\ \A m \in p..j : ~Shown(who[m])
        BY <2>1, <4>3, <4>4
      <4> HIDE DEF j
      <4>6. c[j] = c[p - 1]
        BY <4>5, CountStays
      <4> QED
        BY <4>6 DEF j
    <3>7. h \in p..n + 1
      BY <1>1, <3>2
    <3> HIDE DEF q
    <3> QED
      BY <2>2, <3>1, <3>3, <3>5, <3>6, <3>7 DEF ScanReads, inside
  <2>9. v.kind = "hold" \/ ~(v = [kind |-> "hold", length |-> n - p + 1] /\ Held(who, off, p, n))
    OBVIOUS
  <2> QED
    BY <2>3, <2>6, <2>7, <2>8, <2>9
<1>6. ASSUME bad # {} PROVE FALSE
  <2>1. bad \in SUBSET Nat
    BY <1>1
  <2>2. PICK k \in bad : \A m \in bad : k <= m
    BY <1>6, <2>1, LeastNat
  <2>3. k \in 0..n /\ ~Good(n + 1 - k) /\ k # 0
    BY <1>1, <1>4, <2>2
  <2>4. n + 1 - k \in 1..n
    BY <1>1, <2>3
  <2>5. ASSUME NEW q \in n + 1 - k + 1..n + 1 PROVE Good(q)
    <3>1. n + 1 - q \in 0..n /\ ~(k <= n + 1 - q) /\ n + 1 - (n + 1 - q) = q
      BY <1>1, <2>3
    <3> QED
      BY <2>2, <3>1
  <2>6. Good(n + 1 - k)
    BY <1>5, <2>4, <2>5 DEF Good
  <2> QED
    BY <2>3, <2>6
<1>7. n + 1 - i \in 0..n /\ n + 1 - (n + 1 - i) = i
  BY <1>1
<1>8. Good(i)
  BY <1>6, <1>7
<1> QED
  BY <1>8 DEF Good

-----------------------------------------------------------------------------
(* What is on its way to the client: what the filter f holds back and what *)
(* the handler has not read, up to the block `to`; `shown` is owed of it.  *)
OnItsWay(f, t, who, off, c, to, shown) ==
  /\ Reading(t, who, off, to) /\ Counted(t, who, c, shown)
  /\ Between(t, who, off, 1)
  /\ f.inReasoningTag = (BlockAt(t, who, to, 1) # "none")
Pending(f, unread, to, shown) ==
  \E who, off, c :
    /\ OnItsWay(f, f.tagBuffer \o unread, who, off, c, to, shown)
    /\ f.tagBuffer # <<>> => Held(who, off, 1, Len(f.tagBuffer))

(* Where Feed stops in such a text when it has read e characters of it.    *)
StopsAt(h, fed, e, t, who, off, c, to, shown) ==
  /\ fed = [inReasoningTag |-> BlockAt(t, who, to, h) # "none",
            tagBuffer |-> SubSeq(t, h, e), text |-> SubSeq(shown, 1, c[h - 1])]
  /\ Between(t, who, off, h)
  /\ h <= e => Held(who, off, h, e)

(* What Feed makes of the beginning of such a text.                        *)
LEMMA FeedReads ==
  ASSUME NEW f \in FilterState, NEW unread \in Seq(Character), NEW n \in 0..Len(unread),
         NEW t, t = f.tagBuffer \o unread,
         NEW who, NEW off, NEW c, NEW to, NEW shown \in Seq(Character),
         OnItsWay(f, t, who, off, c, to, shown)
  PROVE  \E h \in 1..Len(f.tagBuffer) + n + 1 :
           StopsAt(h, Feed(f, SubSeq(unread, 1, n)), Len(f.tagBuffer) + n,
                   t, who, off, c, to, shown)
<1> DEFINE b == f.tagBuffer
           chunk == SubSeq(unread, 1, n)
           e == Len(b) + n
           input == b \o chunk
           Scan == CHOOSE g : IsScan(g, input)
<1>13. /\ Reading(t, who, off, to) /\ Counted(t, who, c, shown) /\ Between(t, who, off, 1)
       /\ f.inReasoningTag = (BlockAt(t, who, to, 1) # "none")
  BY DEF OnItsWay
<1>1. b \in Seq(Character) /\ f.inReasoningTag \in BOOLEAN
  BY DEF FilterState
<1>2. chunk \in Seq(Character) /\ Len(chunk) = n /\ \A i \in 1..n : chunk[i] = unread[i]
  BY PieceFacts
<1> HIDE DEF b, chunk
<1>3. /\ t \in Seq(Character) /\ Len(t) = Len(b) + Len(unread)
      /\ \A i \in 1..Len(b) : t[i] = b[i]
      /\ \A i \in 1..Len(unread) : t[Len(b) + i] = unread[i]
  BY <1>1, JoinFacts DEF b
<1>4. /\ input \in Seq(Character) /\ Len(input) = e
      /\ \A i \in 1..Len(b) : input[i] = b[i]
      /\ \A i \in 1..n : input[Len(b) + i] = chunk[i]
  BY <1>1, <1>2, JoinFacts
<1> HIDE DEF input
<1>5. e \in Nat /\ e <= Len(t) /\ n \in Nat /\ Len(b) \in Nat
  BY <1>1, <1>3
<1>6. ASSUME NEW i \in 1..e PROVE input[i] = t[i]
  <2>1. CASE i \in 1..Len(b)
    BY <1>3, <1>4, <2>1
  <2>2. CASE i \notin 1..Len(b)
    <3>1. PICK j \in 1..n : i = Len(b) + j
      <4>1. i - Len(b) \in 1..n /\ i = Len(b) + (i - Len(b))
        BY <1>5, <2>2
      <4> QED
        BY <4>1
    <3>2. j \in 1..Len(unread)
      BY <1>5
    <3> QED
      BY <1>2, <1>3, <1>4, <3>1, <3>2
  <2> QED
    BY <2>1, <2>2
<1>7. Feed(f, chunk) = Scan[1][f.inReasoningTag]
  BY FeedIsScan DEF input, b
<1>8. IsScan(Scan, input)
  BY <1>4, ScanExists
<1> HIDE DEF Scan
<1>9. PICK h \in 1..Len(input) + 1 :
         ScanReads(Scan, input, t, who, off, to, c, shown, 1, h)
  <2>1. 1 \in 1..Len(input) + 1
    BY <1>4, <1>5
  <2>2. \A i \in 1..Len(input) : input[i] = t[i]
    BY <1>4, <1>6
  <2> QED
    BY <1>3, <1>4, <1>5, <1>8, <1>13, <2>1, <2>2, ScanRead
<1>10. SubSeq(input, h, e) = SubSeq(t, h, e)
  <2>1. /\ SubSeq(input, h, e) \in Seq(Character) /\ Len(SubSeq(input, h, e)) = e - h + 1
        /\ \A i \in 1..e - h + 1 : SubSeq(input, h, e)[i] = input[h + i - 1]
    BY <1>4, <1>5, PieceFacts
  <2>2. /\ SubSeq(t, h, e) \in Seq(Character) /\ Len(SubSeq(t, h, e)) = e - h + 1
        /\ \A i \in 1..e - h + 1 : SubSeq(t, h, e)[i] = t[h + i - 1]
    <3>1. h \in 1..Len(t) + 1 /\ e \in 0..Len(t) /\ h <= e + 1
      BY <1>3, <1>4, <1>5
    <3> QED
      BY <1>3, <3>1, PieceFacts
  <2>3. \A i \in 1..e - h + 1 : h + i - 1 \in 1..e
    BY <1>4, <1>5
  <2> DEFINE u == SubSeq(input, h, e)
             w == SubSeq(t, h, e)
  <2>4. \A i \in 1..e - h + 1 : u[i] = w[i]
    BY <1>6, <2>1, <2>2, <2>3
  <2>5. u \in Seq(Character) /\ w \in Seq(Character) /\ Len(u) = e - h + 1 /\ Len(w) = e - h + 1
    BY <2>1, <2>2
  <2> HIDE DEF u, w
  <2>6. u = w
    BY <2>4, <2>5, SameSeq
  <2> QED
    BY <2>6 DEF u, w
<1>11. c[1 - 1] + 1 = 1
  BY <1>13 DEF Counted
<1>12. Scan[1][f.inReasoningTag] =
         [inReasoningTag |-> BlockAt(t, who, to, h) # "none",
          tagBuffer |-> SubSeq(t, h, e), text |-> SubSeq(shown, 1, c[h - 1])]
  BY <1>4, <1>9, <1>10, <1>11, <1>13 DEF ScanReads
<1> QED
  BY <1>4, <1>7, <1>9, <1>12 DEF ScanReads, StopsAt, b, chunk

(* At the beginning nothing is on its way.                                 *)
LEMMA PendingNothing == Pending(NewStreamingReasoningFilter, <<>>, "none", <<>>)
<1> DEFINE f == NewStreamingReasoningFilter
           who == [i \in 1..0 |-> CHOOSE l \in Lexemes : TRUE]
           off == [i \in 1..0 |-> 1]
           c == [i \in 0..0 |-> 0]
<1>1. f.tagBuffer = <<>> /\ f.inReasoningTag = FALSE /\ <<>> \o <<>> = <<>> /\ Len(<<>>) = 0
  BY DEF NewStreamingReasoningFilter
<1>2. 1..0 = {} /\ ~(1 <= 0)
  OBVIOUS
<1>3. Reading(<<>>, who, off, "none")
  BY <1>1, <1>2 DEF Reading
<1>4. Counted(<<>>, who, c, <<>>)
  BY <1>1, <1>2 DEF Counted
<1>5. Between(<<>>, who, off, 1) /\ BlockAt(<<>>, who, "none", 1) = "none"
  BY <1>1, <1>2 DEF Between, BlockAt
<1> HIDE DEF f, who, off, c
<1> QED
  BY <1>1, <1>3, <1>4, <1>5 DEF Pending, OnItsWay, f

(* Joining texts is associative.                                           *)
LEMMA JoinAssociative ==
  ASSUME NEW s \in Seq(Character), NEW t \in Seq(Character), NEW u \in Seq(Character)
  PROVE  s \o (t \o u) = (s \o t) \o u
OBVIOUS

(* What the upstream says comes behind.                                    *)
LEMMA PendingSaid ==
  ASSUME NEW f \in FilterState, NEW unread \in Seq(Character), NEW to, NEW shown \in Seq(Character),
         Pending(f, unread, to, shown), NEW l \in Lexemes, l.from = to
  PROVE  Pending(f, unread \o l.text, l.to, IF Shown(l) THEN shown \o l.text ELSE shown)
<1> DEFINE t == f.tagBuffer \o unread
           n == Len(t)
           k == Len(l.text)
           s == t \o l.text
           more == IF Shown(l) THEN shown \o l.text ELSE shown
<1>1. f.tagBuffer \in Seq(Character) /\ l.text \in Seq(Character) /\ k \in Nat \ {0}
  BY LexemeFacts DEF FilterState
<1>2. t \in Seq(Character) /\ n \in Nat
  BY <1>1, JoinFacts
<1>3. PICK who, off, c :
        /\ Reading(t, who, off, to) /\ Counted(t, who, c, shown)
        /\ Between(t, who, off, 1)
        /\ f.inReasoningTag = (BlockAt(t, who, to, 1) # "none")
        /\ f.tagBuffer # <<>> => Held(who, off, 1, Len(f.tagBuffer))
  BY DEF Pending, OnItsWay
<1>4. f.tagBuffer \o (unread \o l.text) = s
  BY <1>1, JoinAssociative
<1>5. f.tagBuffer # <<>> => n > 0
  BY <1>1, JoinFacts
<1> HIDE DEF t
<1>6. /\ s \in Seq(Character) /\ Len(s) = n + k
      /\ \A i \in 1..n : s[i] = t[i]
      /\ \A i \in 1..k : s[n + i] = l.text[i]
  BY <1>1, <1>2, JoinFacts
<1>7. /\ more \in Seq(Character)
      /\ \A i \in 1..Len(shown) : more[i] = shown[i]
      /\ Shown(l) => /\ Len(more) = Len(shown) + k
                     /\ \A i \in 1..k : more[Len(shown) + i] = l.text[i]
      /\ ~Shown(l) => more = shown
  BY <1>1, JoinFacts
<1> HIDE DEF s, more
<1>17. n \in Nat /\ k \in Nat /\ k >= 1 /\ n = Len(t) /\ k = Len(l.text)
  BY <1>1, <1>2
<1> HIDE DEF n, k
<1> DEFINE who2 == [i \in 1..n + k |-> IF i <= n THEN who[i] ELSE l]
           off2 == [i \in 1..n + k |-> IF i <= n THEN off[i] ELSE i - n]
           c2 == [i \in 0..n + k |-> IF i <= n THEN c[i]
                                     ELSE IF Shown(l) THEN Len(shown) + (i - n)
                                     ELSE Len(shown)]
<1>8. /\ who \in [1..n -> Lexemes] /\ off \in [1..n -> Nat \ {0}] /\ c \in [0..n -> Nat]
      /\ c[0] = 0 /\ c[n] = Len(shown) /\ Len(shown) \in Nat
  BY <1>3 DEF Reading, Counted, n
<1>9. \A i \in 1..n : who2[i] = who[i] /\ off2[i] = off[i]
  BY <1>17
<1>10. ASSUME NEW j \in 1..k
       PROVE  /\ who2[n + j] = l /\ off2[n + j] = j
              /\ c2[n + j] = IF Shown(l) THEN Len(shown) + j ELSE Len(shown)
  <2>1. n + j \in 1..n + k /\ n + j \in 0..n + k /\ ~(n + j <= n) /\ n + j - n = j
    BY <1>17
  <2>2. who2[n + j] = l
    BY <2>1
  <2>3. off2[n + j] = n + j - n
    BY <1>17, <2>1
  <2>4. c2[n + j] = IF Shown(l) THEN Len(shown) + (n + j - n) ELSE Len(shown)
    BY <1>8, <1>17, <2>1
  <2> HIDE DEF who2, off2, c2
  <2> QED
    BY <2>1, <2>2, <2>3, <2>4
<1>11. \A i \in 0..n : c2[i] = c[i]
  BY <1>17
<1>12. who2 \in [1..n + k -> Lexemes] /\ off2 \in [1..n + k -> Nat \ {0}]
  BY <1>17, <1>8
<1>13. c2 \in [0..n + k -> Nat]
  BY <1>17, <1>8
<1> HIDE DEF who2, off2, c2
<1>14. Reading(s, who2, off2, l.to)
  <2>1. ASSUME NEW i \in 1..n
        PROVE  /\ off2[i] <= Len(who2[i].text) /\ s[i] = who2[i].text[off2[i]]
               /\ IF off2[i] < Len(who2[i].text)
                  THEN i < n + k /\ who2[i + 1] = who2[i] /\ off2[i + 1] = off2[i] + 1
                  ELSE IF i < n + k THEN off2[i + 1] = 1 /\ who2[i + 1].from = who2[i].to
                  ELSE who2[i].to = l.to
    <3>1. /\ off[i] <= Len(who[i].text) /\ t[i] = who[i].text[off[i]]
          /\ IF off[i] < Len(who[i].text)
             THEN i < n /\ who[i + 1] = who[i] /\ off[i + 1] = off[i] + 1
             ELSE IF i < n THEN off[i + 1] = 1 /\ who[i + 1].from = who[i].to
             ELSE who[i].to = to
      BY <1>3 DEF Reading, n
    <3>2. who2[i] = who[i] /\ off2[i] = off[i] /\ s[i] = t[i] /\ i < n + k
      BY <1>6, <1>9, <1>17
    <3>3. CASE i < n
      <4>1. who2[i + 1] = who[i + 1] /\ off2[i + 1] = off[i + 1]
        BY <1>17, <1>9, <3>3
      <4> QED
        BY <3>1, <3>2, <3>3, <4>1
    <3>4. CASE ~(i < n)
      <4>1. i + 1 = n + 1 /\ 1 \in 1..k
        BY <1>17, <3>4
      <4>2. who2[i + 1] = l /\ off2[i + 1] = 1
        BY <1>10, <1>17, <4>1
      <4> QED
        BY <3>1, <3>2, <3>4, <4>2
    <3> QED
      BY <3>3, <3>4
  <2>2. ASSUME NEW j \in 1..k
        PROVE  LET i == n + j
               IN /\ off2[i] <= Len(who2[i].text) /\ s[i] = who2[i].text[off2[i]]
                  /\ IF off2[i] < Len(who2[i].text)
                     THEN i < n + k /\ who2[i + 1] = who2[i] /\ off2[i + 1] = off2[i] + 1
                     ELSE IF i < n + k THEN off2[i + 1] = 1 /\ who2[i + 1].from = who2[i].to
                     ELSE who2[i].to = l.to
    <3>2. who2[n + j] = l /\ off2[n + j] = j /\ s[n + j] = l.text[j]
      BY <1>6, <1>10
    <3>3. CASE j < k
      <4>1. n + j + 1 = n + (j + 1) /\ j + 1 \in 1..k /\ n + j < n + k
        BY <1>17, <3>3
      <4>2. who2[n + j + 1] = l /\ off2[n + j + 1] = j + 1
        BY <1>10, <1>17, <4>1
      <4> QED
        BY <1>17, <3>2, <3>3, <4>1, <4>2
    <3>4. CASE ~(j < k)
      <4>1. j = k /\ ~(n + j < n + k)
        BY <1>17, <3>4
      <4> QED
        BY <1>17, <3>2, <4>1
    <3> QED
      BY <3>3, <3>4
  <2>3. ASSUME NEW i \in 1..n + k PROVE i \in 1..n \/ \E j \in 1..k : i = n + j
    <3>1. i \in 1..n \/ (i - n \in 1..k /\ i = n + (i - n))
      BY <1>17
    <3> QED
      BY <3>1
  <2>4. ASSUME NEW i \in 1..n + k
        PROVE  /\ off2[i] <= Len(who2[i].text) /\ s[i] = who2[i].text[off2[i]]
               /\ IF off2[i] < Len(who2[i].text)
                  THEN i < n + k /\ who2[i + 1] = who2[i] /\ off2[i + 1] = off2[i] + 1
                  ELSE IF i < n + k THEN off2[i + 1] = 1 /\ who2[i + 1].from = who2[i].to
                  ELSE who2[i].to = l.to
    <3>1. CASE i \in 1..n
      BY <2>1, <3>1
    <3>2. CASE \E j \in 1..k : i = n + j
      BY <2>2, <3>2
    <3> QED
      BY <2>3, <3>1, <3>2
  <2> QED
    BY <1>6, <1>12, <2>4 DEF Reading
<1>15. Counted(s, who2, c2, more)
  <2>1. c2[0] = 0 /\ c2[n + k] = Len(more)
    <3>1. 0 \in 0..n /\ k \in 1..k
      BY <1>17
    <3> QED
      BY <1>7, <1>8, <1>10, <1>11, <1>17, <3>1
  <2>2. ASSUME NEW i \in 1..n
        PROVE  IF Shown(who2[i]) THEN c2[i] = c2[i - 1] + 1 /\ more[c2[i]] = s[i]
               ELSE c2[i] = c2[i - 1]
    <3>1. IF Shown(who[i]) THEN c[i] = c[i - 1] + 1 /\ shown[c[i]] = t[i]
          ELSE c[i] = c[i - 1]
      BY <1>3 DEF Counted, n
    <3>2. i \in 0..n /\ i - 1 \in 0..n
      BY <1>17
    <3>3. c2[i] = c[i] /\ c2[i - 1] = c[i - 1] /\ who2[i] = who[i] /\ s[i] = t[i]
      BY <1>6, <1>9, <1>11, <3>2
    <3>4. c[i] <= Len(shown)
      <4>1. n = Len(t) /\ n \in i..Len(t)
        BY <1>17
      <4>2. c[i] <= c[Len(t)]
        BY <1>2, <1>3, <1>17, <3>2, CountRises
      <4> QED
        BY <1>8, <4>1, <4>2
    <3>5. CASE Shown(who[i])
      <4>1. c[i] \in 1..Len(shown)
        BY <1>8, <3>1, <3>2, <3>4, <3>5
      <4> QED
        BY <1>7, <3>1, <3>3, <3>5, <4>1
    <3>6. CASE ~Shown(who[i])
      BY <3>1, <3>3, <3>6
    <3> QED
      BY <3>5, <3>6
  <2>3. ASSUME NEW j \in 1..k
        PROVE  IF Shown(who2[n + j])
               THEN c2[n + j] = c2[n + j - 1] + 1 /\ more[c2[n + j]] = s[n + j]
               ELSE c2[n + j] = c2[n + j - 1]
    <3>2. who2[n + j] = l /\ s[n + j] = l.text[j]
          /\ c2[n + j] = IF Shown(l) THEN Len(shown) + j ELSE Len(shown)
      BY <1>6, <1>10, <1>17
    <3>3. c2[n + j - 1] = IF Shown(l) THEN Len(shown) + (j - 1) ELSE Len(shown)
      <4>1. CASE j = 1
        <5>1. n + j - 1 = n /\ n \in 0..n
          BY <1>17, <4>1
        <5> QED
          BY <1>8, <1>11, <4>1, <5>1
      <4>2. CASE j # 1
        <5>1. n + j - 1 = n + (j - 1) /\ j - 1 \in 1..k
          BY <1>17, <4>2
        <5> QED
          BY <1>10, <5>1
      <4> QED
        BY <4>1, <4>2
    <3>4. CASE Shown(l)
      <4>1. Len(shown) + j = Len(shown) + (j - 1) + 1
        BY <1>8
      <4> QED
        BY <1>7, <3>2, <3>3, <3>4, <4>1
    <3>5. CASE ~Shown(l)
      BY <3>2, <3>3, <3>5
    <3> QED
      BY <3>4, <3>5
  <2>4. ASSUME NEW i \in 1..n + k PROVE i \in 1..n \/ \E j \in 1..k : i = n + j
    <3>1. i \in 1..n \/ (i - n \in 1..k /\ i = n + (i - n))
      BY <1>17
    <3> QED
      BY <3>1
  <2>5. ASSUME NEW i \in 1..n + k
        PROVE  IF Shown(who2[i]) THEN c2[i] = c2[i - 1] + 1 /\ more[c2[i]] = s[i]
               ELSE c2[i] = c2[i - 1]
    <3>1. CASE i \in 1..n
      BY <2>2, <3>1
    <3>2. CASE \E j \in 1..k : i = n + j
      <4>1. PICK j \in 1..k : i = n + j
        BY <3>2
      <4> QED
        <5>1. i - 1 = n + j - 1
          BY <1>17, <4>1
        <5>2. IF Shown(who2[n + j])
              THEN c2[n + j] = c2[n + j - 1] + 1 /\ more[c2[n + j]] = s[n + j]
              ELSE c2[n + j] = c2[n + j - 1]
          BY <2>3
        <5> QED
          BY <4>1, <5>1, <5>2
    <3> QED
      BY <2>4, <3>1, <3>2
  <2> QED
    BY <1>6, <1>13, <2>1, <2>5 DEF Counted
<1>16. /\ Between(s, who2, off2, 1)
       /\ BlockAt(s, who2, l.to, 1) = BlockAt(t, who, to, 1)
       /\ f.tagBuffer # <<>> => Held(who2, off2, 1, Len(f.tagBuffer))
  <2>1. CASE n > 0
    <3>1. who2[1] = who[1] /\ off2[1] = off[1] /\ 1 <= n /\ 1 <= n + k
      BY <1>17, <1>9, <2>1
    <3> QED
      BY <1>3, <1>6, <3>1 DEF Between, BlockAt, Held, n
  <2>2. CASE ~(n > 0)
    <3>1. n = 0 /\ n + 1 = 1 /\ 1 \in 1..k /\ 1 <= n + k /\ ~(1 <= n)
      BY <1>17, <2>2
    <3>2. who2[1] = l /\ off2[1] = 1
      BY <1>10, <3>1
    <3> QED
      BY <1>5, <1>6, <2>2, <3>1, <3>2 DEF Between, BlockAt, n
  <2> QED
    BY <2>1, <2>2
<1> QED
  BY <1>3, <1>4, <1>14, <1>15, <1>16 DEF Pending, OnItsWay, more

(* The rest of a text is read as it was.                                   *)
LEMMA RestReads ==
  ASSUME NEW t \in Seq(Character), NEW who, NEW off, NEW to, Reading(t, who, off, to),
         NEW c, NEW shown \in Seq(Character), Counted(t, who, c, shown),
         NEW h \in 1..Len(t) + 1
  PROVE  LET rest == SubSeq(t, h, Len(t))
             who2 == [i \in 1..Len(t) + 1 - h |-> who[h - 1 + i]]
             off2 == [i \in 1..Len(t) + 1 - h |-> off[h - 1 + i]]
             c2 == [i \in 0..Len(t) + 1 - h |-> c[h - 1 + i] - c[h - 1]]
             shown2 == SubSeq(shown, c[h - 1] + 1, Len(shown))
         IN /\ Reading(rest, who2, off2, to) /\ Counted(rest, who2, c2, shown2)
            /\ c[h - 1] <= Len(shown)
            /\ Between(t, who, off, h) => Between(rest, who2, off2, 1)
            /\ BlockAt(rest, who2, to, 1) = BlockAt(t, who, to, h)
            /\ \A n \in h..Len(t) : Held(who, off, h, n) => Held(who2, off2, 1, n - h + 1)
<1> DEFINE n == Len(t)
           m == n + 1 - h
           rest == SubSeq(t, h, n)
           who2 == [i \in 1..m |-> who[h - 1 + i]]
           off2 == [i \in 1..m |-> off[h - 1 + i]]
           c2 == [i \in 0..m |-> c[h - 1 + i] - c[h - 1]]
           shown2 == SubSeq(shown, c[h - 1] + 1, Len(shown))
<1>1. n \in Nat /\ n = Len(t) /\ h \in Nat /\ h >= 1 /\ m \in Nat /\ m = n + 1 - h /\ h + m = n + 1
  OBVIOUS
<1>2. /\ rest \in Seq(Character) /\ Len(rest) = m
      /\ \A i \in 1..m : rest[i] = t[h - 1 + i]
  <2>1. /\ rest \in Seq(Character) /\ Len(rest) = n - h + 1
        /\ \A i \in 1..n - h + 1 : rest[i] = t[h + i - 1]
    BY PieceFacts
  <2>2. n - h + 1 = m /\ \A i \in 1..m : h + i - 1 = h - 1 + i
    BY <1>1
  <2> HIDE DEF rest, m
  <2> QED
    BY <2>1, <2>2
<1> HIDE DEF rest, m, n
<1>3. /\ who \in [1..n -> Lexemes] /\ off \in [1..n -> Nat \ {0}] /\ c \in [0..n -> Nat]
      /\ c[n] = Len(shown)
  BY <1>1 DEF Reading, Counted
<1>4. \A i \in 1..m : h - 1 + i \in 1..n /\ h - 1 + i \in 0..n
  BY <1>1
<1>5. /\ \A i \in 1..m : who2[i] = who[h - 1 + i] /\ off2[i] = off[h - 1 + i]
      /\ who2 \in [1..m -> Lexemes] /\ off2 \in [1..m -> Nat \ {0}]
  BY <1>3, <1>4
<1>6. ASSUME NEW i \in 0..m
      PROVE  /\ h - 1 + i \in 0..n /\ c[h - 1] \in Nat /\ c[h - 1 + i] \in Nat
             /\ c[h - 1] <= c[h - 1 + i] /\ c[h - 1 + i] <= Len(shown)
             /\ c2[i] = c[h - 1 + i] - c[h - 1]
  <2>1. h - 1 \in 0..n /\ h - 1 + i \in 0..n /\ h - 1 + i \in h - 1..n /\ n \in h - 1 + i..n
    BY <1>1
  <2>2. c[h - 1] <= c[h - 1 + i] /\ c[h - 1 + i] <= c[n]
    BY <1>1, <2>1, CountRises
  <2> QED
    BY <1>3, <2>1, <2>2
<1>7. c2 \in [0..m -> Nat]
  <2>1. \A i \in 0..m : c[h - 1 + i] - c[h - 1] \in Nat
    BY <1>6
  <2> QED
    BY <2>1
<1>8. /\ shown2 \in Seq(Character) /\ Len(shown2) = Len(shown) - c[h - 1]
      /\ \A i \in 1..Len(shown) - c[h - 1] : shown2[i] = shown[c[h - 1] + i]
      /\ c[h - 1] \in Nat /\ c[h - 1] <= Len(shown)
  <2>1. 0 \in 0..m /\ h - 1 + 0 = h - 1
    BY <1>1
  <2>2. c[h - 1] \in Nat /\ c[h - 1] <= Len(shown)
    BY <1>6, <2>1
  <2> DEFINE a == c[h - 1]
  <2>3. a \in Nat /\ a <= Len(shown)
    BY <2>2
  <2> HIDE DEF a
  <2>4. /\ SubSeq(shown, a + 1, Len(shown)) \in Seq(Character)
        /\ Len(SubSeq(shown, a + 1, Len(shown))) = Len(shown) - a
        /\ \A i \in 1..Len(shown) - a : SubSeq(shown, a + 1, Len(shown))[i] = shown[a + i]
    BY <2>3
  <2> QED
    BY <2>3, <2>4 DEF a
<1> HIDE DEF who2, off2, c2, shown2
<1>9. Reading(rest, who2, off2, to)
  <2>1. ASSUME NEW i \in 1..m
        PROVE  /\ off2[i] <= Len(who2[i].text) /\ rest[i] = who2[i].text[off2[i]]
               /\ IF off2[i] < Len(who2[i].text)
                  THEN i < m /\ who2[i + 1] = who2[i] /\ off2[i + 1] = off2[i] + 1
                  ELSE IF i < m THEN off2[i + 1] = 1 /\ who2[i + 1].from = who2[i].to
                  ELSE who2[i].to = to
    <3> DEFINE j == h - 1 + i
    <3>1. j \in 1..n /\ (j < n <=> i < m) /\ (i < m => i + 1 \in 1..m /\ h - 1 + (i + 1) = j + 1)
      BY <1>1
    <3>2. who2[i] = who[j] /\ off2[i] = off[j] /\ rest[i] = t[j]
      BY <1>2, <1>5
    <3> HIDE DEF j
    <3>3. ASSUME i < m PROVE who2[i + 1] = who[j + 1] /\ off2[i + 1] = off[j + 1]
      <4>1. i + 1 \in 1..m /\ h - 1 + (i + 1) = j + 1
        BY <3>1, <3>3
      <4>2. who2[i + 1] = who[h - 1 + (i + 1)] /\ off2[i + 1] = off[h - 1 + (i + 1)]
        BY <1>5, <4>1
      <4> QED
        BY <4>1, <4>2
    <3>4. /\ off[j] <= Len(who[j].text) /\ t[j] = who[j].text[off[j]]
          /\ IF off[j] < Len(who[j].text)
             THEN j < n /\ who[j + 1] = who[j] /\ off[j + 1] = off[j] + 1
             ELSE IF j < n THEN off[j + 1] = 1 /\ who[j + 1].from = who[j].to
             ELSE who[j].to = to
      BY <1>1, <3>1 DEF Reading
    <3> QED
      BY <3>1, <3>2, <3>3, <3>4
  <2> QED
    BY <1>2, <1>5, <2>1 DEF Reading
<1>10. Counted(rest, who2, c2, shown2)
  <2>1. c2[0] = 0 /\ c2[m] = Len(shown2)
    <3>1. 0 \in 0..m /\ m \in 0..m /\ h - 1 + 0 = h - 1 /\ h - 1 + m = n
      BY <1>1
    <3>2. c2[0] = c[h - 1] - c[h - 1]
      BY <1>6, <3>1
    <3>3. c2[m] = c[n] - c[h - 1]
      BY <1>6, <3>1
    <3> QED
      BY <1>3, <1>8, <3>2, <3>3
  <2>2. ASSUME NEW i \in 1..m
        PROVE  IF Shown(who2[i]) THEN c2[i] = c2[i - 1] + 1 /\ shown2[c2[i]] = rest[i]
               ELSE c2[i] = c2[i - 1]
    <3> DEFINE j == h - 1 + i
    <3>1. j \in 1..n /\ i \in 0..m /\ i - 1 \in 0..m /\ h - 1 + (i - 1) = j - 1
      BY <1>1
    <3>2. who2[i] = who[j] /\ rest[i] = t[j]
      BY <1>2, <1>5
    <3>3. /\ c2[i] = c[j] - c[h - 1] /\ c[j] \in Nat /\ c[j] <= Len(shown) /\ c[h - 1] <= c[j]
          /\ c2[i - 1] = c[j - 1] - c[h - 1] /\ c[j - 1] \in Nat /\ c[h - 1] <= c[j - 1]
      BY <1>6, <3>1
    <3> HIDE DEF j
    <3>4. IF Shown(who[j]) THEN c[j] = c[j - 1] + 1 /\ shown[c[j]] = t[j] ELSE c[j] = c[j - 1]
      BY <1>1, <3>1 DEF Counted
    <3>5. CASE Shown(who[j])
      <4>1. c2[i] \in 1..Len(shown) - c[h - 1] /\ c[h - 1] + c2[i] = c[j] /\ c2[i] = c2[i - 1] + 1
        <5>1. c[h - 1] \in Nat /\ Len(shown) \in Nat /\ c[j] = c[j - 1] + 1
          BY <1>8, <3>4, <3>5
        <5> DEFINE a == c[h - 1]
                   b == c[j - 1]
        <5>2. /\ a \in Nat /\ b \in Nat /\ a <= b /\ c[j] = b + 1 /\ c[j] <= Len(shown)
              /\ c2[i] = c[j] - a /\ c2[i - 1] = b - a /\ Len(shown) \in Nat
          BY <3>3, <5>1
        <5> HIDE DEF a, b
        <5>3. c2[i] = b + 1 - a
          BY <5>2
        <5>4. c2[i] \in 1..Len(shown) - a /\ a + c2[i] = c[j] /\ c2[i] = c2[i - 1] + 1
          BY <5>2, <5>3
        <5> QED
          BY <5>4 DEF a
      <4>2. shown2[c2[i]] = shown[c[h - 1] + c2[i]]
        BY <1>8, <4>1
      <4> QED
        BY <3>2, <3>4, <3>5, <4>1, <4>2
    <3>6. CASE ~Shown(who[j])
      BY <3>2, <3>3, <3>4, <3>6
    <3> QED
      BY <3>5, <3>6
  <2> QED
    BY <1>2, <1>7, <2>1, <2>2 DEF Counted
<1>11. m >= 1 => who2[1] = who[h] /\ off2[1] = off[h] /\ h <= n
  <2>1. m >= 1 => 1 \in 1..m /\ h - 1 + 1 = h /\ h <= n
    BY <1>1
  <2> QED
    BY <1>5, <2>1
<1>12. ~(m >= 1) => ~(h <= n)
  BY <1>1
<1>13. /\ Between(t, who, off, h) => Between(rest, who2, off2, 1)
       /\ BlockAt(rest, who2, to, 1) = BlockAt(t, who, to, h)
  BY <1>1, <1>2, <1>11, <1>12 DEF Between, BlockAt
<1>14. ASSUME NEW e \in h..n, Held(who, off, h, e) PROVE Held(who2, off2, 1, e - h + 1)
  <2>1. m >= 1 /\ e - h + 1 - 1 + 1 = e - h + 1
    BY <1>1
  <2> QED
    BY <1>11, <1>14, <2>1 DEF Held
<1> QED
  BY <1>1, <1>8, <1>9, <1>10, <1>13, <1>14 DEF rest, who2, off2, c2, shown2, n, m

(* What Feed lets through is owed, and the rest stays on its way.          *)
LEMMA PendingFed ==
  ASSUME NEW f \in FilterState, NEW unread \in Seq(Character), NEW to, NEW shown \in Seq(Character),
         Pending(f, unread, to, shown), NEW n \in 0..Len(unread)
  PROVE  LET fed == Feed(f, SubSeq(unread, 1, n))
             f2 == [inReasoningTag |-> fed.inReasoningTag, tagBuffer |-> fed.tagBuffer]
         IN /\ f2 \in FilterState
            /\ fed.text \in Seq(Character) /\ IsPrefix(fed.text, shown)
            /\ Pending(f2, SubSeq(unread, n + 1, Len(unread)), to,
                       SubSeq(shown, Len(fed.text) + 1, Len(shown)))
<1> DEFINE t == f.tagBuffer \o unread
           e == Len(f.tagBuffer) + n
           fed == Feed(f, SubSeq(unread, 1, n))
           f2 == [inReasoningTag |-> fed.inReasoningTag, tagBuffer |-> fed.tagBuffer]
           left == SubSeq(unread, n + 1, Len(unread))
<1>1. f.tagBuffer \in Seq(Character)
  BY DEF FilterState
<1>2. /\ t \in Seq(Character) /\ Len(t) = Len(f.tagBuffer) + Len(unread)
      /\ \A i \in 1..Len(unread) : t[Len(f.tagBuffer) + i] = unread[i]
  BY <1>1, JoinFacts
<1>3. PICK who, off, c :
        /\ OnItsWay(f, t, who, off, c, to, shown)
        /\ f.tagBuffer # <<>> => Held(who, off, 1, Len(f.tagBuffer))
  BY DEF Pending
<1>17. Reading(t, who, off, to) /\ Counted(t, who, c, shown)
  BY <1>3 DEF OnItsWay
<1>16. t = f.tagBuffer \o unread
  OBVIOUS
<1> HIDE DEF t
<1>4. PICK h \in 1..e + 1 :
         /\ fed = [inReasoningTag |-> BlockAt(t, who, to, h) # "none",
                   tagBuffer |-> SubSeq(t, h, e), text |-> SubSeq(shown, 1, c[h - 1])]
         /\ Between(t, who, off, h)
         /\ h <= e => Held(who, off, h, e)
  <2>1. \E h \in 1..Len(f.tagBuffer) + n + 1 :
          StopsAt(h, Feed(f, SubSeq(unread, 1, n)), Len(f.tagBuffer) + n,
                  t, who, off, c, to, shown)
    BY <1>3, <1>16, FeedReads
  <2> QED
    BY <2>1 DEF StopsAt
<1> HIDE DEF fed
<1>5. e \in Nat /\ e <= Len(t) /\ h \in 1..Len(t) + 1 /\ Len(t) \in Nat /\ n \in Nat
      /\ Len(f.tagBuffer) \in Nat
  BY <1>1, <1>2
<1> DEFINE rest == SubSeq(t, h, Len(t))
           who2 == [i \in 1..Len(t) + 1 - h |-> who[h - 1 + i]]
           off2 == [i \in 1..Len(t) + 1 - h |-> off[h - 1 + i]]
           c2 == [i \in 0..Len(t) + 1 - h |-> c[h - 1 + i] - c[h - 1]]
           shown2 == SubSeq(shown, c[h - 1] + 1, Len(shown))
<1>6. /\ Reading(rest, who2, off2, to) /\ Counted(rest, who2, c2, shown2)
      /\ c[h - 1] <= Len(shown)
      /\ Between(t, who, off, h) => Between(rest, who2, off2, 1)
      /\ BlockAt(rest, who2, to, 1) = BlockAt(t, who, to, h)
      /\ \A k \in h..Len(t) : Held(who, off, h, k) => Held(who2, off2, 1, k - h + 1)
  BY <1>2, <1>17, <1>5, RestReads
<1>7. c[h - 1] \in Nat
  <2>1. h - 1 \in 0..Len(t)
    BY <1>5
  <2> QED
    BY <1>17, <2>1 DEF Counted
<1>8. /\ fed.text \in Seq(Character) /\ Len(fed.text) = c[h - 1]
      /\ \A i \in 1..c[h - 1] : fed.text[i] = shown[i]
  <2> DEFINE a == c[h - 1]
  <2>1. a \in Nat /\ a <= Len(shown)
    BY <1>6, <1>7
  <2>2. fed.text = SubSeq(shown, 1, a)
    BY <1>4
  <2> HIDE DEF a
  <2>3. /\ SubSeq(shown, 1, a) \in Seq(Character) /\ Len(SubSeq(shown, 1, a)) = a
        /\ \A i \in 1..a : SubSeq(shown, 1, a)[i] = shown[i]
    BY <2>1
  <2> QED
    BY <2>2, <2>3 DEF a
<1>9. IsPrefix(fed.text, shown)
  BY <1>6, <1>8, PrefixFacts
<1>10. /\ fed.tagBuffer = SubSeq(t, h, e) /\ fed.tagBuffer \in Seq(Character)
       /\ Len(fed.tagBuffer) = e - h + 1
       /\ \A i \in 1..e - h + 1 : fed.tagBuffer[i] = t[h + i - 1]
       /\ fed.inReasoningTag = (BlockAt(t, who, to, h) # "none")
       /\ fed.inReasoningTag \in BOOLEAN
  <2>1. fed.tagBuffer = SubSeq(t, h, e) /\ fed.inReasoningTag = (BlockAt(t, who, to, h) # "none")
    BY <1>4
  <2> HIDE DEF e
  <2>2. h \in 1..Len(t) + 1 /\ e \in 0..Len(t) /\ h <= e + 1
    BY <1>4, <1>5
  <2>3. /\ SubSeq(t, h, e) \in Seq(Character) /\ Len(SubSeq(t, h, e)) = e - h + 1
        /\ \A i \in 1..e - h + 1 : SubSeq(t, h, e)[i] = t[h + i - 1]
    BY <1>2, <2>2, PieceFacts
  <2> QED
    BY <2>1, <2>3
<1>11. /\ left \in Seq(Character) /\ Len(left) = Len(unread) - n
       /\ \A i \in 1..Len(unread) - n : left[i] = unread[n + i]
  OBVIOUS
<1> HIDE DEF left
<1>12. fed.tagBuffer \o left = rest
  <2> DEFINE j == fed.tagBuffer \o left
             k == e - h + 1
             b == Len(f.tagBuffer)
  <2>6. /\ k \in Nat /\ h \in Nat /\ h >= 1 /\ b \in Nat /\ b + n = h + k - 1
        /\ Len(t) = b + Len(unread) /\ Len(fed.tagBuffer) = k /\ n \in 0..Len(unread)
    BY <1>2, <1>4, <1>5, <1>10
  <2>7. \A i \in 1..k : fed.tagBuffer[i] = t[h + i - 1]
    BY <1>10
  <2>8. \A i \in 1..Len(unread) : t[b + i] = unread[i]
    BY <1>2
  <2> HIDE DEF k, b
  <2>1. /\ j \in Seq(Character) /\ Len(j) = k + Len(left)
        /\ \A i \in 1..k : j[i] = fed.tagBuffer[i]
        /\ \A i \in 1..Len(left) : j[k + i] = left[i]
    BY <1>10, <1>11, <2>6, JoinFacts
  <2>2. /\ rest \in Seq(Character) /\ Len(rest) = Len(t) - h + 1
        /\ \A i \in 1..Len(t) - h + 1 : rest[i] = t[h + i - 1]
    <3>1. h \in 1..Len(t) + 1 /\ Len(t) \in 0..Len(t) /\ h <= Len(t) + 1
      BY <1>5
    <3> QED
      BY <1>2, <3>1, PieceFacts
  <2> HIDE DEF j, rest
  <2>3. k + Len(left) = Len(t) - h + 1 /\ Len(left) \in Nat
    <3>1. Len(left) = Len(unread) - n /\ Len(unread) \in Nat /\ n \in Nat
      BY <1>11
    <3> QED
      BY <2>6, <3>1
  <2>4. ASSUME NEW i \in 1..Len(j) PROVE j[i] = rest[i]
    <3>1. CASE i <= k
      <4>1. i \in 1..k /\ i \in 1..Len(t) - h + 1
        BY <2>1, <2>3, <3>1
      <4> QED
        BY <2>1, <2>2, <2>7, <4>1
    <3>2. CASE ~(i <= k)
      <4>1. PICK x \in 1..Len(left) : i = k + x
        <5>1. i - k \in 1..Len(left) /\ i = k + (i - k)
          BY <2>1, <2>3, <2>6, <3>2
        <5> QED
          BY <5>1
      <4>2. n + x \in 1..Len(unread) /\ b + (n + x) = h + i - 1
            /\ i \in 1..Len(t) - h + 1 /\ x \in 1..Len(unread) - n
        BY <1>11, <2>1, <2>3, <2>6, <4>1
      <4>3. rest[i] = unread[n + x]
        BY <2>2, <2>8, <4>2
      <4>4. j[i] = unread[n + x]
        BY <1>11, <2>1, <4>1, <4>2
      <4> QED
        BY <4>3, <4>4
    <3> QED
      BY <3>1, <3>2
  <2>5. j = rest
    BY <2>1, <2>2, <2>3, <2>4, SameSeq
  <2> QED
    BY <2>5 DEF j
<1>13. f2.tagBuffer # <<>> => Held(who2, off2, 1, Len(f2.tagBuffer))
  <2> HIDE DEF who2, off2
  <2>1. ASSUME fed.tagBuffer # <<>> PROVE Held(who2, off2, 1, Len(fed.tagBuffer))
    <3>1. h <= e
      BY <1>5, <1>10, <2>1
    <3>2. e \in h..Len(t)
      BY <1>5, <3>1
    <3> QED
      BY <1>4, <1>6, <1>10, <3>1, <3>2
  <2> QED
    BY <2>1
<1>14. Pending(f2, left, to, shown2)
  <2>1. f2.tagBuffer \o left = rest /\ f2.inReasoningTag = (BlockAt(rest, who2, to, 1) # "none")
    BY <1>6, <1>10, <1>12
  <2> HIDE DEF f2, who2, off2, c2, shown2, rest
  <2> QED
    BY <1>4, <1>6, <1>13, <2>1 DEF Pending, OnItsWay
<1>15. f2 \in FilterState
  BY <1>10 DEF FilterState
<1> QED
  BY <1>8, <1>9, <1>14, <1>15 DEF fed, left

(* When all has been read, the filter is where the upstream is, and what   *)
(* it holds back is all that is owed.                                      *)
LEMMA PendingSettled ==
  ASSUME NEW f \in FilterState, NEW to, NEW shown \in Seq(Character),
         Pending(f, <<>>, to, shown)
  PROVE  /\ f.inReasoningTag = (to # "none")
         /\ shown = IF to = "none" THEN f.tagBuffer ELSE <<>>
<1> DEFINE t == f.tagBuffer
           n == Len(t)
<1>1. t \in Seq(Character) /\ t \o <<>> = t /\ n \in Nat
  BY DEF FilterState
<1>2. PICK who, off, c :
        /\ Reading(t, who, off, to) /\ Counted(t, who, c, shown)
        /\ Between(t, who, off, 1)
        /\ f.inReasoningTag = (BlockAt(t, who, to, 1) # "none")
        /\ t # <<>> => Held(who, off, 1, n)
  BY <1>1 DEF Pending, OnItsWay
<1>3. CASE t = <<>>
  <2>1. n = 0 /\ c[n] = Len(shown) /\ c[0] = 0
    BY <1>2, <1>3 DEF Counted
  <2>2. shown = <<>>
    BY <2>1
  <2>3. BlockAt(t, who, to, 1) = to
    BY <2>1 DEF BlockAt
  <2> QED
    BY <1>2, <1>3, <2>2, <2>3
<1>4. CASE t # <<>>
  <2> DEFINE l == who[1]
             k == Len(l.text)
  <2>1. Held(who, off, 1, n) /\ 1 \in 1..n
    BY <1>1, <1>2, <1>4
  <2>2. off[1] = 1 /\ n <= k /\ (l.from # l.to => n < k)
    BY <1>1, <2>1 DEF Held
  <2>3. /\ k \in Nat \ {0} /\ 1 + k - 1 \in 1..n
        /\ BlockAt(t, who, to, 1 + k) = l.to
        /\ \A i \in 1..1 + k - 1 : who[i] = l
    <3>1. /\ Len(who[1].text) \in Nat \ {0} /\ 1 + Len(who[1].text) - 1 \in 1..Len(t)
          /\ BlockAt(t, who, to, 1 + Len(who[1].text)) = who[1].to
          /\ \A i \in 1..1 + Len(who[1].text) - 1 : who[i] = who[1]
      <4> HIDE DEF t
      <4>1. 1 \in 1..Len(t)
        BY <2>1 DEF t
      <4>2. t \in Seq(Character) /\ Reading(t, who, off, to)
        BY <1>1, <1>2
      <4> QED
        BY <2>2, <4>1, <4>2, BehindLexeme
    <3> QED
      BY <3>1
  <2>4. n = k /\ l.from = l.to /\ ~(1 + k <= n) /\ 1 + k - 1 = n
    BY <1>1, <2>2, <2>3
  <2>5. l.to = to /\ BlockAt(t, who, to, 1) = l.from
    BY <2>1, <2>3, <2>4 DEF BlockAt
  <2>6. \A i \in 1..n : who[i] = l
    BY <2>3, <2>4
  <2>7. CASE to = "none"
    <3>1. Shown(l)
      BY <2>4, <2>5, <2>7 DEF Shown
    <3> DEFINE bad == {i \in 0..n : c[i] # i}
    <3>2. ASSUME bad # {} PROVE FALSE
      <4>1. bad \in SUBSET Nat
        BY <1>1
      <4>2. PICK i \in bad : \A j \in bad : i <= j
        BY <3>2, <4>1, LeastNat
      <4>3. i \in 1..n /\ c[i] # i
        BY <1>1, <1>2, <4>2 DEF Counted
      <4>4. i - 1 \in 0..n /\ ~(i <= i - 1)
        BY <1>1, <4>3
      <4>5. c[i - 1] = i - 1
        BY <4>2, <4>4
      <4>6. c[i] = c[i - 1] + 1
        BY <1>2, <2>6, <3>1, <4>3 DEF Counted
      <4> QED
        BY <1>1, <4>3, <4>5, <4>6
    <3>3. \A i \in 0..n : c[i] = i
      BY <3>2
    <3>4. Len(shown) = n
      BY <1>1, <1>2, <3>3 DEF Counted
    <3>5. \A i \in 1..n : shown[i] = t[i]
      <4>1. ASSUME NEW i \in 1..n PROVE shown[i] = t[i]
        <5>1. shown[c[i]] = t[i]
          BY <1>2, <2>6, <3>1 DEF Counted
        <5>2. i \in 0..n
          BY <1>1
        <5> QED
          BY <3>3, <5>1, <5>2
      <4> QED
        BY <4>1
    <3>6. shown = t
      BY <1>1, <3>4, <3>5, SameSeq
    <3> QED
      BY <1>2, <2>4, <2>5, <2>7, <3>6
  <2>8. CASE to # "none"
    <3>1. ~Shown(l)
      BY <2>5, <2>8 DEF Shown
    <3>2. n \in 1 - 1..n /\ \A i \in 1..n : ~Shown(who[i])
      BY <1>1, <2>6, <3>1
    <3>3. c[n] = c[1 - 1]
      BY <1>1, <1>2, <2>1, <3>2, CountStays
    <3>4. Len(shown) = 0
      BY <1>2, <3>3 DEF Counted
    <3>5. shown = <<>>
      BY <3>4
    <3> QED
      BY <1>2, <2>4, <2>5, <2>8, <3>5
  <2> QED
    BY <2>7, <2>8
<1> QED
  BY <1>3, <1>4

(* What is held back outside a block is not what only reasoning says.      *)
LEMMA PendingNoSecret ==
  ASSUME NEW f \in FilterState, NEW unread \in Seq(Character), NEW to, NEW shown,
         Pending(f, unread, to, shown), ~f.inReasoningTag
  PROVE  ~Contains(f.tagBuffer, Secret)
<1> DEFINE b == f.tagBuffer
           t == b \o unread
<1>1. b \in Seq(Character)
  BY DEF FilterState
<1>2. /\ t \in Seq(Character) /\ Len(t) = Len(b) + Len(unread)
      /\ \A i \in 1..Len(b) : t[i] = b[i]
  BY <1>1, JoinFacts
<1>3. PICK who, off, c :
        /\ Reading(t, who, off, to) /\ Counted(t, who, c, shown)
        /\ Between(t, who, off, 1)
        /\ f.inReasoningTag = (BlockAt(t, who, to, 1) # "none")
        /\ f.tagBuffer # <<>> => Held(who, off, 1, Len(f.tagBuffer))
  BY DEF Pending, OnItsWay
<1> HIDE DEF t, b
<1>4. ASSUME NEW i \in 1..Len(b) PROVE b[i] # Secret
  <2>1. Held(who, off, 1, Len(b)) /\ 1 \in 1..Len(t) /\ Len(b) \in Nat /\ 1 <= Len(t)
    BY <1>1, <1>2, <1>3 DEF b
  <2> DEFINE l == who[1]
  <2>2. l \in Lexemes /\ Len(l.text) \in Nat
    BY <1>3, <2>1, LexemeFacts DEF Reading
  <2>3. off[1] = 1 /\ i \in 1..Len(l.text)
    BY <1>1, <2>1, <2>2 DEF Held
  <2>4. t[1 + i - 1] = l.text[i]
    BY <1>2, <1>3, <2>1, <2>3, WholeLexeme
  <2>5. l.from = "none"
    BY <1>3, <2>1 DEF BlockAt
  <2>6. l.text[i] # Secret /\ 1 + i - 1 = i
    BY <2>2, <2>3, <2>5, LexemeFacts
  <2> QED
    BY <1>2, <2>4, <2>6
<1> QED
  BY <1>4 DEF Contains, b

-----------------------------------------------------------------------------
(* Where a pattern is found in a text.                                     *)
Occurs(s, pattern, m) ==
  /\ m + Len(pattern) - 1 <= Len(s)
  /\ \A k \in 1..Len(pattern) : s[m + k - 1] = pattern[k]

(* A pattern that is a prefix of the rest of a text occurs there.          *)
LEMMA OccursThere ==
  ASSUME NEW s \in Seq(Character), NEW pattern \in Seq(Character), NEW m \in 1..Len(s)
  PROVE  IsPrefix(pattern, SubSeq(s, m, Len(s))) <=> Occurs(s, pattern, m)
<1> DEFINE tail == SubSeq(s, m, Len(s))
<1>1. /\ tail \in Seq(Character) /\ Len(tail) = Len(s) - m + 1
      /\ \A k \in 1..Len(s) - m + 1 : tail[k] = s[m + k - 1]
  BY PieceFacts
<1> HIDE DEF tail
<1>2. IsPrefix(pattern, tail)
        <=> Len(pattern) <= Len(tail) /\ \A k \in 1..Len(pattern) : pattern[k] = tail[k]
  BY <1>1, PrefixFacts
<1>3. Len(pattern) <= Len(tail) <=> m + Len(pattern) - 1 <= Len(s)
  BY <1>1
<1>4. ASSUME Len(pattern) <= Len(tail), NEW k \in 1..Len(pattern)
      PROVE  tail[k] = s[m + k - 1]
  <2>1. k \in 1..Len(s) - m + 1
    BY <1>1, <1>4
  <2> QED
    BY <1>1, <2>1
<1>5. IsPrefix(pattern, tail) <=> Occurs(s, pattern, m)
  BY <1>2, <1>3, <1>4 DEF Occurs
<1> QED
  BY <1>5 DEF tail

(* IndexOf finds the first place, if there is one.                         *)
LEMMA IndexFacts ==
  ASSUME NEW s \in Seq(Character), NEW pattern \in Seq(Character)
  PROVE  /\ IndexOf(s, pattern) \in 0..Len(s)
         /\ IndexOf(s, pattern) = 0 => \A m \in 1..Len(s) : ~Occurs(s, pattern, m)
         /\ IndexOf(s, pattern) > 0 =>
              /\ Occurs(s, pattern, IndexOf(s, pattern))
              /\ \A m \in 1..IndexOf(s, pattern) - 1 : ~Occurs(s, pattern, m)
<1> DEFINE places == {n \in DOMAIN s : IsPrefix(pattern, SubSeq(s, n, Len(s)))}
           n == IndexOf(s, pattern)
<1>1. \A m \in 1..Len(s) : m \in places <=> Occurs(s, pattern, m)
  BY OccursThere
<1>2. places \in SUBSET Nat /\ places \subseteq 1..Len(s)
  OBVIOUS
<1>3. n = IF places = {} THEN 0 ELSE CHOOSE i \in places : \A m \in places : i <= m
  BY DEF IndexOf
<1> HIDE DEF places, n
<1>4. CASE places = {}
  BY <1>1, <1>3, <1>4 DEF n
<1>5. CASE places # {}
  <2>1. \E i \in places : \A m \in places : i <= m
    BY <1>2, <1>5, LeastNat
  <2>2. n \in places /\ \A m \in places : n <= m
    BY <1>3, <1>5, <2>1
  <2>3. n \in 1..Len(s) /\ Occurs(s, pattern, n)
    BY <1>1, <1>2, <2>2
  <2>4. ASSUME NEW m \in 1..n - 1 PROVE ~Occurs(s, pattern, m)
    <3>1. m \in 1..Len(s) /\ ~(n <= m)
      BY <2>3
    <3> QED
      BY <1>1, <2>2, <3>1
  <2> QED
    BY <2>3, <2>4 DEF n
<1> QED
  BY <1>4, <1>5

(* The tags of the two kinds.                                              *)
LEMMA PairFacts ==
  ASSUME NEW pair \in TagPairs
  PROVE  /\ pair.open \in openTagNames /\ pair.close \in closeTagNames
         /\ pair.open \in Seq(Character) /\ pair.close \in Seq(Character)
         /\ Len(pair.open) \in 3..4 /\ Len(pair.close) = 5
         /\ pair.open[1] = "<" /\ pair.close[1] = "<"
         /\ BlockOf(pair) \in Blocks /\ BlockOf(pair) # "none"
         /\ pair.open[2] # pair.close[2] \/ pair.open[3] # pair.close[3]
         /\ \A other \in TagPairs : BlockOf(other) = BlockOf(pair) => other = pair
         /\ \A other \in TagPairs : other.open[2] = pair.open[2] => other = pair
<1> DEFINE first == [open |-> <<"<", "t", "k">>, close |-> <<"<", "/", "t", "k", ">">>]
           second == [open |-> <<"<", "|", "t", ">">>, close |-> <<"<", "|", "/", "t", ">">>]
<1>1. TagPairs = {first, second}
  BY DEF TagPairs
<1>2. pair.open \in openTagNames /\ pair.close \in closeTagNames
  BY DEF openTagNames, closeTagNames
<1>3. /\ pair.open \in Seq(Character) /\ pair.close \in Seq(Character)
      /\ Len(pair.open) \in 3..4 /\ Len(pair.close) = 5
      /\ pair.open[1] = "<" /\ pair.close[1] = "<"
  BY <1>2, TagFacts
<1>4. /\ BlockOf(first) = "tag" /\ first.open[2] = "t" /\ first.close[2] = "/"
      /\ BlockOf(second) = "bar" /\ second.open[2] = "|" /\ second.open[3] = "t"
      /\ second.close[3] = "/"
  BY DEF BlockOf, Last
<1> HIDE DEF first, second
<1>5. "t" # "/" /\ "t" # "|" /\ "tag" # "bar" /\ "tag" # "none" /\ "bar" # "none"
  OBVIOUS
<1>6. /\ BlockOf(pair) \in Blocks /\ BlockOf(pair) # "none"
      /\ pair.open[2] # pair.close[2] \/ pair.open[3] # pair.close[3]
      /\ \A other \in TagPairs : BlockOf(other) = BlockOf(pair) => other = pair
      /\ \A other \in TagPairs : other.open[2] = pair.open[2] => other = pair
  BY <1>1, <1>4, <1>5 DEF Blocks
<1> QED
  BY <1>2, <1>3, <1>6

(* Only a lexeme begins with "<".                                          *)
LEMMA LexemeBegins ==
  ASSUME NEW t \in Seq(Character), NEW who, NEW off, NEW to, Reading(t, who, off, to),
         NEW p \in 1..Len(t), t[p] = "<"
  PROVE  off[p] = 1
<1>1. who[p] \in Lexemes /\ off[p] \in Nat \ {0} /\ off[p] <= Len(who[p].text)
      /\ t[p] = who[p].text[off[p]]
  BY DEF Reading
<1>2. Len(who[p].text) \in Nat /\ \A n \in 2..Len(who[p].text) : who[p].text[n] # "<"
  BY <1>1, LexemeFacts
<1> QED
  BY <1>1, <1>2

(* The beginning of a tag has at least three characters.                   *)
LEMMA TagLength ==
  ASSUME NEW tag \in TagBeginnings
  PROVE  tag \in Seq(Character) /\ Len(tag) \in Nat /\ Len(tag) >= 3
<1> DEFINE n == Len(tag)
<1>1. tag \in Seq(Character) /\ n \in 3..4
  BY TagFacts
<1> HIDE DEF n
<1>2. n \in Nat /\ n >= 3
  BY <1>1
<1> QED
  BY <1>1, <1>2 DEF n

(* A text is not taken for a tag wherever it stands.                       *)
LEMMA TextIsNoTag ==
  ASSUME NEW t \in Seq(Character), NEW who, NEW off, NEW to, Reading(t, who, off, to),
         NEW p \in 1..Len(t), off[p] = 1, NeverATag(who[p]),
         NEW tag \in TagBeginnings
  PROVE  ~Occurs(t, tag, p)
<1> DEFINE l == who[p]
           n == p + Len(tag) - 1
           tail == SubSeq(t, p, n)
<1>1. l \in Lexemes /\ l.text \in Seq(Character) /\ Len(l.text) \in Nat \ {0} /\ l.from = l.to
  BY LexemeFacts DEF Reading, NeverATag
<1>2. tag \in Seq(Character) /\ Len(tag) \in Nat /\ Len(tag) >= 3
  BY TagLength
<1>3. SUFFICES ASSUME Occurs(t, tag, p) PROVE FALSE
  OBVIOUS
<1>4. n \in p..Len(t) /\ n - p + 1 = Len(tag) /\ n \in 0..Len(t) /\ p <= n + 1
      /\ p \in 1..Len(t) + 1
  <2>1. n <= Len(t)
    BY <1>3 DEF Occurs
  <2>2. Len(t) \in Nat
    OBVIOUS
  <2> QED
    BY <1>2, <2>1, <2>2
<1>5. \A k \in 1..Len(tag) : t[p + k - 1] = tag[k]
  BY <1>3 DEF Occurs
<1> HIDE DEF n
<1>6. /\ tail \in Seq(Character) /\ Len(tail) = n - p + 1
      /\ \A k \in 1..n - p + 1 : tail[k] = t[p + k - 1]
  BY <1>4, PieceFacts
<1> HIDE DEF tail
<1>7. tail = tag
  BY <1>2, <1>4, <1>5, <1>6, SameSeq
<1>8. IF n - p + 1 <= Len(l.text) THEN IsPrefix(tail, l.text)
      ELSE /\ IsPrefix(l.text, tail)
           /\ \E m \in Lexemes : m.from = l.to /\ IsPrefix(Append(l.text, m.text[1]), tail)
  <2>1. LET here == SubSeq(t, p, n)
        IN IF n - p + 1 <= Len(l.text) THEN IsPrefix(here, l.text)
           ELSE /\ IsPrefix(l.text, here)
                /\ \E m \in Lexemes : /\ m.from = l.to
                                      /\ IsPrefix(Append(l.text, m.text[1]), here)
    BY <1>4, BehindStart
  <2> HIDE DEF l
  <2> QED
    BY <2>1 DEF tail
<1>9. CASE n - p + 1 <= Len(l.text)
  <2> DEFINE ahead == Append(l.text, l.text[1])
  <2>1. ahead \in Seq(Character) /\ Len(ahead) = Len(l.text) + 1
        /\ \A k \in 1..Len(l.text) : ahead[k] = l.text[k]
    BY <1>1
  <2>2. ~IsPrefix(tag, ahead)
    BY <1>1 DEF NeverATag
  <2> HIDE DEF ahead, l
  <2>3. Len(tag) <= Len(l.text) /\ \A k \in 1..Len(tag) : tag[k] = l.text[k]
    BY <1>1, <1>2, <1>7, <1>8, <1>9, PrefixFacts
  <2>4. Len(tag) <= Len(ahead) /\ \A k \in 1..Len(tag) : tag[k] = ahead[k]
    BY <1>1, <1>2, <2>1, <2>3
  <2>5. IsPrefix(tag, ahead)
    BY <1>2, <2>1, <2>4, PrefixFacts
  <2> QED
    BY <2>2, <2>5
<1>10. CASE ~(n - p + 1 <= Len(l.text))
  BY <1>1, <1>7, <1>8, <1>10 DEF NeverATag
<1> QED
  BY <1>9, <1>10

(* What looks like an opening tag is one.                                  *)
LEMMA OpenerFound ==
  ASSUME NEW t \in Seq(Character), NEW who, NEW off, NEW to, Reading(t, who, off, to),
         NEW pair \in TagPairs, NEW p \in 1..Len(t), Occurs(t, pair.open, p)
  PROVE  off[p] = 1 /\ OpeningTag(who[p]) /\ who[p].to = BlockOf(pair)
<1> DEFINE l == who[p]
<1>1. l \in Lexemes /\ l.text \in Seq(Character) /\ Len(l.text) \in Nat \ {0}
  BY LexemeFacts DEF Reading
<1>2. /\ Len(pair.open) \in 3..4 /\ pair.open[1] = "<" /\ pair.open \in openTagNames
      /\ 1 \in 1..Len(pair.open) /\ 2 \in 1..Len(pair.open) /\ 3 \in 1..Len(pair.open)
  BY PairFacts
<1>3. t[p + 1 - 1] = pair.open[1] /\ t[p + 2 - 1] = pair.open[2] /\ t[p + 3 - 1] = pair.open[3]
  BY <1>2 DEF Occurs
<1>4. p + 1 - 1 = p
  OBVIOUS
<1>5. off[p] = 1
  BY <1>2, <1>3, <1>4, LexemeBegins
<1>6. ASSUME NEW k \in 1..Len(l.text) PROVE t[p + k - 1] = l.text[k]
  BY <1>5, WholeLexeme
<1>7. CASE OpeningTag(l)
  <2>1. PICK other \in TagPairs : IsPrefix(other.open, l.text) /\ l.to = BlockOf(other)
    BY <1>7 DEF OpeningTag
  <2>2. other.open \in Seq(Character) /\ 2 \in 1..Len(other.open)
    BY PairFacts
  <2>3. Len(other.open) <= Len(l.text) /\ \A i \in 1..Len(other.open) : other.open[i] = l.text[i]
    BY <1>1, <2>1, <2>2, PrefixFacts
  <2>4. 2 \in 1..Len(l.text) /\ other.open[2] = l.text[2]
    BY <1>1, <2>2, <2>3
  <2>5. other.open[2] = pair.open[2]
    BY <1>3, <1>6, <2>4
  <2>6. other = pair
    BY <2>5, PairFacts
  <2> QED
    BY <1>5, <1>7, <2>1, <2>6
<1>8. CASE ClosingTag(l)
  <2>1. PICK other \in TagPairs : l.text = other.close
    BY <1>8 DEF ClosingTag
  <2>2. other.close[2] # pair.open[2] \/ other.close[3] # pair.open[3]
    <3>1. CASE other = pair
      BY <3>1, PairFacts
    <3>2. CASE other # pair
      <4>1. other.open[2] # pair.open[2]
        BY <3>2, PairFacts
      <4> QED
        BY <4>1 DEF TagPairs
    <3> QED
      BY <3>1, <3>2
  <2>3. 2 \in 1..Len(l.text) /\ 3 \in 1..Len(l.text)
    <3>1. Len(l.text) = 5
      BY <1>1, <1>8, ClosingFacts
    <3> HIDE DEF l
    <3> QED
      BY <3>1
  <2> QED
    BY <1>3, <1>6, <2>1, <2>2, <2>3
<1>9. CASE NeverATag(l)
  BY <1>2, <1>5, <1>9, TextIsNoTag DEF TagBeginnings
<1> QED
  BY <1>1, <1>7, <1>8, <1>9, LexemeFacts

(* And an opening tag that is said is found.                               *)
LEMMA OpenerOccurs ==
  ASSUME NEW t \in Seq(Character), NEW who, NEW off, NEW to, Reading(t, who, off, to),
         NEW pair \in TagPairs, NEW p \in 1..Len(t), off[p] = 1,
         OpeningTag(who[p]), who[p].to = BlockOf(pair)
  PROVE  Occurs(t, pair.open, p)
<1> DEFINE l == who[p]
<1>1. l \in Lexemes /\ l.text \in Seq(Character) /\ Len(l.text) \in Nat \ {0}
  BY LexemeFacts DEF Reading
<1>2. PICK other \in TagPairs : IsPrefix(other.open, l.text) /\ l.to = BlockOf(other)
  BY DEF OpeningTag
<1>3. other = pair /\ pair.open \in Seq(Character) /\ Len(pair.open) \in 3..4
  BY <1>2, PairFacts
<1>4. Len(pair.open) <= Len(l.text) /\ \A i \in 1..Len(pair.open) : pair.open[i] = l.text[i]
  BY <1>1, <1>2, <1>3, PrefixFacts
<1>5. ASSUME NEW k \in 1..Len(pair.open) PROVE t[p + k - 1] = pair.open[k] /\ p + k - 1 <= Len(t)
  <2>1. k \in 1..Len(l.text)
    BY <1>1, <1>4
  <2> QED
    BY <1>4, <2>1, WholeLexeme
<1>6. Len(pair.open) \in 1..Len(pair.open)
  <2> DEFINE n == Len(pair.open)
  <2>1. n \in 3..4
    BY <1>3
  <2> HIDE DEF n
  <2>2. n \in 1..n
    BY <2>1
  <2> QED
    BY <2>2 DEF n
<1> QED
  BY <1>5, <1>6 DEF Occurs

(* What looks like the closing tag of the block it is in is one.           *)
LEMMA CloserFound ==
  ASSUME NEW t \in Seq(Character), NEW who, NEW off, NEW to, Reading(t, who, off, to),
         NEW pair \in TagPairs, NEW p \in 1..Len(t), Occurs(t, pair.close, p),
         who[p].from = BlockOf(pair)
  PROVE  off[p] = 1 /\ ClosingTag(who[p]) /\ Len(who[p].text) = 5
<1> DEFINE l == who[p]
<1>1. l \in Lexemes
  BY DEF Reading
<1>2. /\ Len(pair.close) = 5 /\ pair.close[1] = "<" /\ pair.close \in closeTagNames
      /\ BlockOf(pair) # "none"
  BY PairFacts
<1>3. t[p + 1 - 1] = pair.close[1] /\ p + 1 - 1 = p
  BY <1>2 DEF Occurs
<1>5. off[p] = 1
  BY <1>2, <1>3, LexemeBegins
<1>7. ~OpeningTag(l)
  BY <1>1, <1>2, OpeningFacts
<1>8. ASSUME NeverATag(l) PROVE FALSE
  <2> DEFINE tag == Front(pair.close)
  <2>1. tag \in Seq(Character) /\ Len(tag) = 4 /\ \A i \in 1..4 : tag[i] = pair.close[i]
    BY <1>2, TagFacts
  <2>2. tag \in TagBeginnings
    BY <1>2 DEF TagBeginnings
  <2>3. p + 5 - 1 <= Len(t) /\ \A k \in 1..5 : t[p + k - 1] = pair.close[k]
    BY <1>2 DEF Occurs
  <2> HIDE DEF tag
  <2>4. Occurs(t, tag, p)
    <3>1. p + 4 - 1 <= Len(t)
      BY <2>3
    <3>2. \A k \in 1..4 : k \in 1..5 /\ t[p + k - 1] = tag[k]
      BY <2>1, <2>3
    <3> QED
      BY <2>1, <3>1, <3>2 DEF Occurs
  <2> QED
    BY <1>5, <1>8, <2>2, <2>4, TextIsNoTag
<1>9. ClosingTag(l)
  BY <1>1, <1>7, <1>8, LexemeFacts
<1> QED
  BY <1>1, <1>5, <1>9, ClosingFacts

(* And a closing tag that is said is found.                                *)
LEMMA CloserOccurs ==
  ASSUME NEW t \in Seq(Character), NEW who, NEW off, NEW to, Reading(t, who, off, to),
         NEW pair \in TagPairs, NEW p \in 1..Len(t), off[p] = 1,
         ClosingTag(who[p]), who[p].from = BlockOf(pair)
  PROVE  Occurs(t, pair.close, p)
<1> DEFINE l == who[p]
<1>1. l \in Lexemes
  BY DEF Reading
<1>2. PICK other \in TagPairs : l.text = other.close /\ l.from = BlockOf(other)
  BY DEF ClosingTag
<1>3. other = pair
  BY <1>2, PairFacts
<1>4. l.text = pair.close /\ Len(pair.close) = 5
  BY <1>2, <1>3, PairFacts
<1>5. ASSUME NEW k \in 1..Len(pair.close)
      PROVE  t[p + k - 1] = pair.close[k] /\ p + k - 1 <= Len(t)
  <2>1. k \in 1..Len(who[p].text)
    BY <1>4
  <2>2. /\ p + k - 1 <= Len(t)
        /\ t[p + k - 1] = who[p].text[k]
    BY <2>1, WholeLexeme
  <2> QED
    BY <1>4, <2>2
<1>6. Len(pair.close) \in 1..Len(pair.close)
  BY <1>4
<1> QED
  BY <1>5, <1>6 DEF Occurs

(* How a character goes on from the one in front of it.                    *)
LEMMA StepBack ==
  ASSUME NEW t \in Seq(Character), NEW who, NEW off, NEW to, Reading(t, who, off, to),
         NEW p \in 2..Len(t)
  PROVE  IF off[p] = 1 THEN who[p].from = who[p - 1].to ELSE who[p] = who[p - 1]
<1>1. p - 1 \in 1..Len(t) /\ p - 1 < Len(t) /\ p - 1 + 1 = p
  OBVIOUS
<1>2. off[p - 1] \in Nat \ {0}
  BY <1>1 DEF Reading
<1>3. IF off[p - 1] < Len(who[p - 1].text)
      THEN who[p - 1 + 1] = who[p - 1] /\ off[p - 1 + 1] = off[p - 1] + 1
      ELSE off[p - 1 + 1] = 1 /\ who[p - 1 + 1].from = who[p - 1].to
  BY <1>1 DEF Reading
<1>4. off[p - 1] + 1 # 1
  BY <1>2
<1> QED
  BY <1>1, <1>3, <1>4

(* From an opening tag on, as long as its closing tag does not occur, the  *)
(* text stays in the block.                                                *)
LEMMA InBlock ==
  ASSUME NEW t \in Seq(Character), NEW who, NEW off, NEW to, Reading(t, who, off, to),
         NEW pair \in TagPairs, NEW i \in 1..Len(t), who[i].to = BlockOf(pair),
         NEW q \in i..Len(t) + 1,
         \A m \in i..q - 1 : ~Occurs(t, pair.close, m),
         NEW p \in i..q - 1
  PROVE  who[p].to = BlockOf(pair) /\ ~Shown(who[p])
<1> DEFINE bad == {n \in i..q - 1 : who[n].to # BlockOf(pair)}
<1>1. BlockOf(pair) # "none"
  BY PairFacts
<1>2. ASSUME bad # {} PROVE FALSE
  <2>1. bad \in SUBSET Nat
    OBVIOUS
  <2>2. PICK n \in bad : \A m \in bad : n <= m
    BY <1>2, <2>1, LeastNat
  <2>3. n \in i..q - 1 /\ n # i /\ who[n].to # BlockOf(pair)
    OBVIOUS
  <2>4. n - 1 \in i..q - 1 /\ n \in 2..Len(t) /\ n \in 1..Len(t) /\ ~(n <= n - 1)
    BY <2>3
  <2>5. who[n - 1].to = BlockOf(pair)
    BY <2>2, <2>4
  <2> HIDE DEF bad
  <2>6. off[n] = 1 /\ who[n].from = BlockOf(pair)
    BY <2>3, <2>4, <2>5, StepBack
  <2>7. who[n] \in Lexemes
    BY <2>4 DEF Reading
  <2>8. ClosingTag(who[n])
    BY <1>1, <2>3, <2>6, <2>7, KindOfLexeme
  <2>9. Occurs(t, pair.close, n)
    BY <2>4, <2>6, <2>8, CloserOccurs
  <2> QED
    BY <2>3, <2>9
<1> QED
  BY <1>1, <1>2 DEF Shown

(* What a round of the loop takes out: from an opening tag to behind its   *)
(* closing tag, or to the end.                                             *)
CutOut(t, who, off, to, i, q) ==
  /\ i \in 1..Len(t) /\ q \in i + 1..Len(t) + 1
  /\ off[i] = 1 /\ who[i].from = "none"
  /\ \A p \in i..q - 1 : ~Shown(who[p])
  /\ q <= Len(t) => off[q] = 1 /\ who[q].from = "none"

Without(t, i, q) == SubSeq(t, 1, i - 1) \o SubSeq(t, q, Len(t))

(* A round finds nothing, or cuts out a block.                             *)
LEMMA RoundCuts ==
  ASSUME NEW t \in Seq(Character), NEW who, NEW off, NEW to, Reading(t, who, off, to),
         NEW pair \in TagPairs, IndexOf(t, pair.open) # 0
  PROVE  \E i, q : /\ CutOut(t, who, off, to, i, q)
                   /\ StripBlock(t, pair) = Without(t, i, q)
<1>0. ASSUME NEW p \in 1..Len(t), t[p] = "<" PROVE off[p] = 1
  BY <1>0, LexemeBegins
<1> DEFINE i == IndexOf(t, pair.open)
           behind == SubSeq(t, i, Len(t))
           end == IndexOf(behind, pair.close)
<1>1. /\ pair.open \in Seq(Character) /\ pair.close \in Seq(Character)
      /\ Len(pair.close) = 5 /\ pair.close[1] = "<" /\ BlockOf(pair) # "none"
  BY PairFacts
<1>2. i \in 1..Len(t) /\ Occurs(t, pair.open, i)
  <2>1. i \in 0..Len(t) /\ (i > 0 => Occurs(t, pair.open, i))
    BY <1>1, IndexFacts
  <2> HIDE DEF i
  <2>2. i # 0
    BY DEF i
  <2> QED
    BY <2>1, <2>2
<1>3. StripBlock(t, pair) =
        IF end = 0 THEN SubSeq(t, 1, i - 1)
        ELSE SubSeq(t, 1, i - 1) \o SubSeq(behind, end + Len(pair.close), Len(behind))
  BY DEF StripBlock
<1> HIDE DEF i
<1>4. /\ behind \in Seq(Character) /\ Len(behind) = Len(t) - i + 1
      /\ \A k \in 1..Len(t) - i + 1 : behind[k] = t[i + k - 1]
  <2>1. i \in 1..Len(t) + 1 /\ Len(t) \in 0..Len(t) /\ i <= Len(t) + 1
    BY <1>2
  <2> QED
    BY <2>1, PieceFacts
<1> HIDE DEF behind
<1>5. /\ end \in 0..Len(behind)
      /\ end = 0 => \A m \in 1..Len(behind) : ~Occurs(behind, pair.close, m)
      /\ end > 0 => /\ Occurs(behind, pair.close, end)
                    /\ \A m \in 1..end - 1 : ~Occurs(behind, pair.close, m)
  BY <1>1, <1>4, IndexFacts
<1> HIDE DEF end
<1>6. off[i] = 1 /\ OpeningTag(who[i]) /\ who[i].to = BlockOf(pair) /\ who[i].from = "none"
  <2>1. off[i] = 1 /\ OpeningTag(who[i]) /\ who[i].to = BlockOf(pair)
    BY <1>2, OpenerFound
  <2>2. who[i] \in Lexemes
    BY <1>2 DEF Reading
  <2> QED
    BY <2>1, <2>2, OpeningFacts
<1>7. ASSUME NEW m \in 1..Len(behind)
      PROVE  Occurs(behind, pair.close, m) <=> Occurs(t, pair.close, i + m - 1)
  <2>1. m + Len(pair.close) - 1 <= Len(behind) <=> i + m - 1 + Len(pair.close) - 1 <= Len(t)
    BY <1>1, <1>2, <1>4
  <2>2. ASSUME m + 5 - 1 <= Len(behind), NEW k \in 1..5
        PROVE  behind[m + k - 1] = t[i + m - 1 + k - 1]
    <3>1. m + k - 1 \in 1..Len(t) - i + 1 /\ i + (m + k - 1) - 1 = i + m - 1 + k - 1
      BY <1>2, <1>4, <2>2
    <3>2. behind[m + k - 1] = t[i + (m + k - 1) - 1]
      BY <1>4, <3>1
    <3> QED
      BY <3>1, <3>2
  <2> QED
    BY <1>1, <2>1, <2>2 DEF Occurs
<1>8. CASE end = 0
  <2> DEFINE q == Len(t) + 1
  <2>1. \A m \in i..q - 1 : ~Occurs(t, pair.close, m)
    <3>1. ASSUME NEW m \in i..q - 1 PROVE ~Occurs(t, pair.close, m)
      <4>1. m - i + 1 \in 1..Len(behind) /\ i + (m - i + 1) - 1 = m
        BY <1>2, <1>4
      <4>2. Occurs(behind, pair.close, m - i + 1)
              <=> Occurs(t, pair.close, i + (m - i + 1) - 1)
        BY <1>7, <4>1
      <4> QED
        BY <1>5, <1>8, <4>1, <4>2
    <3> QED
      BY <3>1
  <2>2. q \in i..Len(t) + 1 /\ q \in i + 1..Len(t) + 1 /\ ~(q <= Len(t))
    BY <1>2
  <2> HIDE DEF q
  <2>3. \A p \in i..q - 1 : ~Shown(who[p])
    BY <1>2, <1>6, <2>1, <2>2, InBlock
  <2>4. CutOut(t, who, off, to, i, q)
    BY <1>2, <1>6, <2>2, <2>3 DEF CutOut
  <2>5. SubSeq(t, 1, i - 1) \o SubSeq(t, q, Len(t)) = SubSeq(t, 1, i - 1)
    <3> DEFINE a == SubSeq(t, 1, i - 1)
               b == SubSeq(t, q, Len(t))
    <3>1. a \in Seq(Character)
      <4>1. 1 \in 1..Len(t) + 1 /\ i - 1 \in 0..Len(t) /\ 1 <= i - 1 + 1
        BY <1>2
      <4> QED
        BY <4>1, PieceFacts
    <3>2. b \in Seq(Character) /\ Len(b) = 0
      <4>1. q \in 1..Len(t) + 1 /\ Len(t) \in 0..Len(t) /\ q <= Len(t) + 1 /\ Len(t) - q + 1 = 0
        BY <1>2, <2>2 DEF q
      <4> QED
        BY <4>1, PieceFacts
    <3> HIDE DEF a, b
    <3>3. b = <<>> /\ a \o <<>> = a
      BY <3>1, <3>2
    <3>4. a \o b = a
      BY <3>3
    <3> QED
      BY <3>4 DEF a, b
  <2> QED
    BY <1>3, <1>8, <2>4, <2>5 DEF Without
<1>9. CASE end # 0
  <2> DEFINE j == i + end - 1
             q == j + 5
  <2>1. /\ j \in Nat /\ end \in Nat /\ end > 0 /\ j \in i..Len(t) /\ j \in 1..Len(t) /\ q = j + 5
        /\ Occurs(t, pair.close, j) /\ \A m \in i..j - 1 : ~Occurs(t, pair.close, m)
    <3>1. end > 0 /\ end \in 1..Len(behind)
      BY <1>5, <1>9
    <3>2. j \in i..Len(t) /\ j \in 1..Len(t) /\ j \in Nat
      BY <1>2, <1>4, <3>1
    <3>3. Occurs(t, pair.close, j)
      BY <1>5, <1>7, <3>1
    <3>4. ASSUME NEW m \in i..j - 1 PROVE ~Occurs(t, pair.close, m)
      <4>1. m - i + 1 \in 1..Len(behind) /\ i + (m - i + 1) - 1 = m /\ m - i + 1 \in 1..end - 1
        BY <1>2, <1>4, <3>1
      <4>2. Occurs(behind, pair.close, m - i + 1)
              <=> Occurs(t, pair.close, i + (m - i + 1) - 1)
        BY <1>7, <4>1
      <4> QED
        BY <1>5, <3>1, <4>1, <4>2
    <3> QED
      BY <3>1, <3>2, <3>3, <3>4
  <2>10. SubSeq(behind, end + Len(pair.close), Len(behind)) = SubSeq(t, q, Len(t))
    <3>1. j + 5 - 1 <= Len(t) /\ Len(t) \in Nat
      BY <1>1, <2>1 DEF Occurs
    <3>2. end + 5 \in 1..Len(behind) + 1 /\ Len(behind) \in 0..Len(behind)
          /\ end + 5 <= Len(behind) + 1 /\ Len(behind) - (end + 5) + 1 = Len(t) - q + 1
      BY <1>2, <1>4, <2>1, <3>1
    <3>3. q \in 1..Len(t) + 1 /\ Len(t) \in 0..Len(t) /\ q <= Len(t) + 1
      BY <2>1, <3>1
    <3> DEFINE a == SubSeq(behind, end + 5, Len(behind))
               b == SubSeq(t, q, Len(t))
    <3>4. /\ a \in Seq(Character) /\ Len(a) = Len(behind) - (end + 5) + 1
          /\ \A k \in 1..Len(behind) - (end + 5) + 1 : a[k] = behind[end + 5 + k - 1]
      BY <1>4, <3>2, PieceFacts
    <3>5. /\ b \in Seq(Character) /\ Len(b) = Len(t) - q + 1
          /\ \A k \in 1..Len(t) - q + 1 : b[k] = t[q + k - 1]
      <4> HIDE DEF q
      <4> QED
        BY <3>3, PieceFacts
    <3> HIDE DEF a, b
    <3>6. ASSUME NEW k \in 1..Len(a) PROVE a[k] = b[k]
      <4>1. end + 5 + k - 1 \in 1..Len(t) - i + 1 /\ i + (end + 5 + k - 1) - 1 = q + k - 1
        BY <1>2, <1>4, <2>1, <3>2, <3>4
      <4>2. behind[end + 5 + k - 1] = t[i + (end + 5 + k - 1) - 1]
        BY <1>4, <4>1
      <4>3. a[k] = behind[end + 5 + k - 1] /\ b[k] = t[q + k - 1]
        BY <3>2, <3>4, <3>5
      <4> QED
        BY <4>1, <4>2, <4>3
    <3>7. a = b
      BY <3>2, <3>4, <3>5, <3>6, SameSeq
    <3> QED
      BY <1>1, <3>7 DEF a, b
  <2> HIDE DEF j, q
  <2>2. /\ t[j + 1 - 1] = pair.close[1] /\ j + 1 - 1 = j /\ j + 5 - 1 <= Len(t)
    <3>1. 1 \in 1..Len(pair.close) /\ j + 1 - 1 = j
      BY <1>1, <2>1
    <3>2. /\ j + Len(pair.close) - 1 <= Len(t)
          /\ \A k \in 1..Len(pair.close) : t[j + k - 1] = pair.close[k]
      BY <2>1 DEF Occurs
    <3>3. t[j + 1 - 1] = pair.close[1]
      BY <3>1, <3>2
    <3>4. j + 5 - 1 <= Len(t)
      BY <1>1, <3>2
    <3> QED
      BY <3>1, <3>3, <3>4
  <2>3. off[j] = 1
    <3>1. t[j] = "<"
      BY <1>1, <2>2
    <3> QED
      BY <1>0, <2>1, <3>1
  <2>4. j # i
    <3>1. /\ pair.open[2] # pair.close[2] \/ pair.open[3] # pair.close[3]
          /\ 2 \in 1..Len(pair.open) /\ 3 \in 1..Len(pair.open)
      BY PairFacts
    <3>2. 2 \in 1..Len(pair.close) /\ 3 \in 1..Len(pair.close)
      BY <1>1
    <3> QED
      BY <1>2, <2>1, <3>1, <3>2 DEF Occurs
  <2>5. /\ j \in i..Len(t) + 1 /\ j - 1 \in i..j - 1 /\ j \in 2..Len(t)
    BY <1>2, <2>1, <2>4
  <2>6. ASSUME NEW p \in i..j - 1 PROVE who[p].to = BlockOf(pair) /\ ~Shown(who[p])
    BY <1>2, <1>6, <2>1, <2>5, InBlock
  <2>7. who[j].from = BlockOf(pair)
    BY <2>3, <2>5, <2>6, StepBack
  <2>8. ClosingTag(who[j]) /\ Len(who[j].text) = 5 /\ who[j].to = "none"
    <3>1. ClosingTag(who[j]) /\ Len(who[j].text) = 5
      BY <2>1, <2>7, CloserFound
    <3> QED
      BY <3>1 DEF ClosingTag
  <2>9. /\ q <= Len(t) => off[q] = 1
        /\ BlockAt(t, who, to, q) = "none"
        /\ \A n \in j..j + 5 - 1 : who[n] = who[j]
    <3>1. /\ j + Len(who[j].text) <= Len(t) => off[j + Len(who[j].text)] = 1
          /\ BlockAt(t, who, to, j + Len(who[j].text)) = who[j].to
          /\ \A n \in j..j + Len(who[j].text) - 1 : who[n] = who[j]
      BY <2>1, <2>3, BehindLexeme
    <3> QED
      BY <2>1, <2>8, <3>1
  <2>11. ASSUME NEW p \in i..q - 1 PROVE ~Shown(who[p])
    <3>1. CASE p <= j - 1
      <4>1. p \in i..j - 1
        BY <1>2, <2>1, <3>1
      <4> QED
        BY <2>6, <4>1
    <3>2. CASE ~(p <= j - 1)
      <4>1. p \in j..j + 5 - 1
        BY <1>2, <2>1, <3>2
      <4>2. who[p] = who[j]
        BY <2>9, <4>1
      <4> QED
        BY <1>1, <2>7, <4>2 DEF Shown
    <3> QED
      BY <3>1, <3>2
  <2>12. q \in i + 1..Len(t) + 1
    BY <1>2, <2>1, <2>2
  <2>13. CutOut(t, who, off, to, i, q)
    BY <1>2, <1>6, <2>9, <2>11, <2>12 DEF CutOut, BlockAt
  <2> QED
    BY <1>3, <1>9, <2>10, <2>13 DEF Without
<1> QED
  BY <1>8, <1>9

(* A text that begins outside a block, and how it is read.                 *)
Outside(t, who, off, c, to, shown) ==
  /\ Reading(t, who, off, to) /\ Counted(t, who, c, shown)
  /\ Between(t, who, off, 1) /\ BlockAt(t, who, to, 1) = "none"

StillReads(after, t, who, off, shown) ==
  \E who2, off2, c2, to2 :
    /\ Outside(after, who2, off2, c2, to2, shown)
    /\ \A p \in 1..Len(after) : \E r \in 1..Len(t) : who2[p] = who[r] /\ off2[p] = off[r]

(* What a round leaves is read as it was, and as much of it is visible.    *)
LEMMA CutReading ==
  ASSUME NEW t \in Seq(Character), NEW who, NEW off, NEW c, NEW to, NEW shown \in Seq(Character),
         Outside(t, who, off, c, to, shown), NEW i, NEW q, CutOut(t, who, off, to, i, q)
  PROVE  /\ Without(t, i, q) \in Seq(Character) /\ Len(Without(t, i, q)) < Len(t)
         /\ StillReads(Without(t, i, q), t, who, off, shown)
<1> DEFINE a == SubSeq(t, 1, i - 1)
           b == SubSeq(t, q, Len(t))
           after == a \o b
           n == Len(t)
           d == q - i
           n2 == n - d
           to2 == IF q <= n THEN to ELSE "none"
           who2 == [p \in 1..n2 |-> IF p < i THEN who[p] ELSE who[p + d]]
           off2 == [p \in 1..n2 |-> IF p < i THEN off[p] ELSE off[p + d]]
           c2 == [p \in 0..n2 |-> IF p < i THEN c[p] ELSE c[p + d]]
<1>1. /\ i \in 1..n /\ q \in i + 1..n + 1 /\ off[i] = 1 /\ who[i].from = "none"
      /\ \A p \in i..q - 1 : ~Shown(who[p])
      /\ q <= n => off[q] = 1 /\ who[q].from = "none"
  BY DEF CutOut
<1>2. /\ Reading(t, who, off, to) /\ Counted(t, who, c, shown)
      /\ Between(t, who, off, 1) /\ BlockAt(t, who, to, 1) = "none"
  BY DEF Outside
<1>3. /\ n \in Nat /\ i \in Nat /\ q \in Nat /\ d \in Nat /\ n2 \in Nat /\ n2 + d = n /\ i + d = q
      /\ 1 <= i /\ i < q /\ q <= n + 1 /\ d >= 1 /\ n = Len(t)
  BY <1>1
<1>4. /\ a \in Seq(Character) /\ Len(a) = i - 1 /\ \A p \in 1..i - 1 : a[p] = t[p]
  <2>1. 1 \in 1..Len(t) + 1 /\ i - 1 \in 0..Len(t) /\ 1 <= i - 1 + 1 /\ i - 1 - 1 + 1 = i - 1
    BY <1>3
  <2>2. /\ a \in Seq(Character) /\ Len(a) = i - 1 - 1 + 1
        /\ \A p \in 1..i - 1 - 1 + 1 : a[p] = t[1 + p - 1]
    BY <2>1, PieceFacts
  <2> HIDE DEF a
  <2>3. \A p \in 1..i - 1 : 1 + p - 1 = p
    OBVIOUS
  <2> QED
    BY <2>1, <2>2, <2>3
<1>5. /\ b \in Seq(Character) /\ Len(b) = n - q + 1 /\ \A p \in 1..n - q + 1 : b[p] = t[q + p - 1]
  <2>1. q \in 1..Len(t) + 1 /\ Len(t) \in 0..Len(t) /\ q <= Len(t) + 1
    BY <1>3
  <2> QED
    BY <2>1, PieceFacts
<1> HIDE DEF a, b
<1>6. /\ after \in Seq(Character) /\ Len(after) = Len(a) + Len(b)
      /\ \A p \in 1..Len(a) : after[p] = a[p]
      /\ \A p \in 1..Len(b) : after[Len(a) + p] = b[p]
  BY <1>4, <1>5, JoinFacts
<1> HIDE DEF after, n, d, n2, to2
<1>7. Len(after) = n2
  <2>1. Len(after) = (i - 1) + (n - q + 1)
    BY <1>4, <1>5, <1>6
  <2>2. (i - 1) + (n - q + 1) = n2
    BY <1>3
  <2> QED
    BY <2>1, <2>2
<1>8. ASSUME NEW p \in 1..n2, p < i
      PROVE  /\ p \in 1..n /\ after[p] = t[p] /\ who2[p] = who[p] /\ off2[p] = off[p]
  <2>1. p \in 1..i - 1 /\ p \in 1..n
    BY <1>3, <1>8
  <2> QED
    BY <1>4, <1>6, <1>8, <2>1
<1>9. ASSUME NEW p \in 1..n2, ~(p < i)
      PROVE  /\ p + d \in q..n /\ p + d \in 1..n /\ after[p] = t[p + d]
             /\ who2[p] = who[p + d] /\ off2[p] = off[p + d]
  <2>1. PICK x \in 1..n - q + 1 : p = i - 1 + x
    <3>1. p - (i - 1) \in 1..n - q + 1 /\ p = i - 1 + (p - (i - 1))
      BY <1>3, <1>9
    <3> QED
      BY <3>1
  <2>2. q + x - 1 = p + d /\ p + d \in q..n /\ p + d \in 1..n
    BY <1>3, <2>1
  <2>3. after[i - 1 + x] = b[x] /\ b[x] = t[q + x - 1]
    BY <1>4, <1>5, <1>6, <2>1
  <2>4. who2[p] = who[p + d] /\ off2[p] = off[p + d]
    BY <1>9
  <2> HIDE DEF who2, off2
  <2> QED
    BY <2>1, <2>2, <2>3, <2>4
<1>10. /\ \A p \in 0..n2 : p < i => c2[p] = c[p] /\ p \in 0..n
       /\ \A p \in 0..n2 : ~(p < i) => c2[p] = c[p + d] /\ p + d \in 0..n
  BY <1>3
<1>11. /\ who \in [1..n -> Lexemes] /\ off \in [1..n -> Nat \ {0}]
       /\ c \in [0..n -> Nat] /\ c[0] = 0 /\ c[n] = Len(shown)
  BY <1>2 DEF Reading, Counted, n
<1>12. who2 \in [1..n2 -> Lexemes] /\ off2 \in [1..n2 -> Nat \ {0}]
  <2>1. ASSUME NEW p \in 1..n2
        PROVE  who2[p] \in Lexemes /\ off2[p] \in Nat \ {0}
    BY <1>8, <1>9, <1>11
  <2> QED
    BY <2>1
<1>13. c2 \in [0..n2 -> Nat]
  <2>1. \A p \in 0..n2 : c2[p] \in Nat
    BY <1>10, <1>11
  <2> QED
    BY <2>1
<1> HIDE DEF who2, off2, c2
<1>14. Reading(after, who2, off2, to2)
  <2>1. ASSUME NEW p \in 1..n2
        PROVE  /\ off2[p] <= Len(who2[p].text) /\ after[p] = who2[p].text[off2[p]]
               /\ IF off2[p] < Len(who2[p].text)
                  THEN p < n2 /\ who2[p + 1] = who2[p] /\ off2[p + 1] = off2[p] + 1
                  ELSE IF p < n2 THEN off2[p + 1] = 1 /\ who2[p + 1].from = who2[p].to
                  ELSE who2[p].to = to2
    <3>1. ASSUME NEW r \in 1..n
          PROVE  /\ off[r] <= Len(who[r].text) /\ t[r] = who[r].text[off[r]]
                 /\ IF off[r] < Len(who[r].text)
                    THEN r < n /\ who[r + 1] = who[r] /\ off[r + 1] = off[r] + 1
                    ELSE IF r < n THEN off[r + 1] = 1 /\ who[r + 1].from = who[r].to
                    ELSE who[r].to = to
      BY <1>2 DEF Reading, n
    <3>2. CASE p < i /\ p + 1 < i
      <4>1. p < n2 /\ p < n /\ p + 1 \in 1..n2
        BY <1>3, <3>2
      <4>2. who2[p + 1] = who[p + 1] /\ off2[p + 1] = off[p + 1]
        BY <1>8, <3>2, <4>1
      <4>3. p \in 1..n /\ after[p] = t[p] /\ who2[p] = who[p] /\ off2[p] = off[p]
        BY <1>8, <3>2
      <4> QED
        BY <3>1, <4>1, <4>2, <4>3
    <3>3. CASE p < i /\ ~(p + 1 < i)
      <4>1. p + 1 = i /\ p < n
        BY <1>3, <3>3
      <4>3. p \in 1..n /\ after[p] = t[p] /\ who2[p] = who[p] /\ off2[p] = off[p]
        BY <1>8, <3>3
      <4>4. off[p] \in Nat \ {0} /\ off[p] + 1 # 1
        BY <1>11, <4>3
      <4>5. ~(off[p] < Len(who[p].text)) /\ who[p].to = "none"
        BY <1>1, <3>1, <4>1, <4>3, <4>4
      <4>6. CASE p < n2
        <5>1. i \in 1..n2 /\ ~(i < i) /\ q <= n
          BY <1>3, <4>1, <4>6
        <5>2. who2[i] = who[q] /\ off2[i] = off[q]
          BY <1>3, <1>9, <5>1
        <5> QED
          BY <1>1, <3>1, <4>1, <4>3, <4>5, <4>6, <5>1, <5>2
      <4>7. CASE ~(p < n2)
        <5>1. ~(q <= n)
          BY <1>3, <4>1, <4>7
        <5> QED
          BY <3>1, <4>3, <4>5, <4>7, <5>1 DEF to2
      <4> QED
        BY <4>6, <4>7
    <3>4. CASE ~(p < i)
      <4> DEFINE r == p + d
      <4>1. /\ r \in q..n /\ r \in 1..n /\ after[p] = t[r]
            /\ who2[p] = who[r] /\ off2[p] = off[r]
        BY <1>9, <3>4
      <4>2. r < n <=> p < n2
        BY <1>3
      <4>3. ASSUME p < n2 PROVE who2[p + 1] = who[r + 1] /\ off2[p + 1] = off[r + 1]
        <5>1. p + 1 \in 1..n2 /\ ~(p + 1 < i) /\ p + 1 + d = r + 1
          BY <1>3, <3>4, <4>3
        <5>2. who2[p + 1] = who[p + 1 + d] /\ off2[p + 1] = off[p + 1 + d]
          BY <1>9, <5>1
        <5> QED
          BY <5>1, <5>2
      <4>4. to2 = to
        BY <1>3, <4>1 DEF to2
      <4> HIDE DEF r
      <4> QED
        BY <3>1, <4>1, <4>2, <4>3, <4>4
    <3> QED
      BY <3>2, <3>3, <3>4
  <2> QED
    BY <1>6, <1>7, <1>12, <2>1 DEF Reading
<1>15. c[q - 1] = c[i - 1]
  <2>1. i \in 1..Len(t) /\ q - 1 \in i - 1..Len(t)
    BY <1>3
  <2> QED
    BY <1>1, <1>2, <2>1, CountStays
<1>16. Counted(after, who2, c2, shown)
  <2>1. c2[0] = 0
    BY <1>3, <1>10, <1>11
  <2>2. c2[n2] = Len(shown)
    <3>1. CASE n2 < i
      <4>1. n2 = i - 1 /\ q - 1 = n /\ n2 \in 0..n2
        BY <1>3, <3>1
      <4>2. c2[n2] = c[n2]
        BY <1>10, <3>1, <4>1
      <4> QED
        BY <1>11, <1>15, <4>1, <4>2
    <3>2. CASE ~(n2 < i)
      <4>1. n2 \in 0..n2
        BY <1>3
      <4> QED
        BY <1>3, <1>10, <1>11, <3>2, <4>1
    <3> QED
      BY <3>1, <3>2
  <2>3. ASSUME NEW p \in 1..n2
        PROVE  IF Shown(who2[p]) THEN c2[p] = c2[p - 1] + 1 /\ shown[c2[p]] = after[p]
               ELSE c2[p] = c2[p - 1]
    <3>1. ASSUME NEW r \in 1..n
          PROVE  IF Shown(who[r]) THEN c[r] = c[r - 1] + 1 /\ shown[c[r]] = t[r]
                 ELSE c[r] = c[r - 1]
      BY <1>2 DEF Counted, n
    <3>2. p \in 0..n2 /\ p - 1 \in 0..n2
      BY <1>3
    <3>3. CASE p < i
      <4>1. p - 1 < i
        BY <1>3, <3>3
      <4>2. c2[p] = c[p] /\ c2[p - 1] = c[p - 1]
        BY <1>10, <3>2, <3>3, <4>1
      <4>3. p \in 1..n /\ after[p] = t[p] /\ who2[p] = who[p]
        BY <1>8, <3>3
      <4> QED
        BY <3>1, <4>2, <4>3
    <3>4. CASE ~(p < i)
      <4> DEFINE r == p + d
      <4>1. r \in 1..n /\ after[p] = t[r] /\ who2[p] = who[r]
        BY <1>9, <3>4
      <4>2. c2[p] = c[r]
        BY <1>10, <3>2, <3>4
      <4>3. c2[p - 1] = c[r - 1]
        <5>1. CASE p - 1 < i
          <6>1. p = i /\ r - 1 = q - 1
            BY <1>3, <3>4, <5>1
          <6>2. c2[p - 1] = c[p - 1]
            BY <1>10, <3>2, <5>1
          <6> HIDE DEF r
          <6> QED
            BY <1>15, <6>1, <6>2
        <5>2. CASE ~(p - 1 < i)
          <6>1. c2[p - 1] = c[p - 1 + d] /\ p - 1 + d = r - 1
            BY <1>3, <1>10, <3>2, <5>2
          <6> HIDE DEF r
          <6> QED
            BY <6>1
        <5> QED
          BY <5>1, <5>2
      <4> HIDE DEF r
      <4> QED
        BY <3>1, <4>1, <4>2, <4>3
    <3> QED
      BY <3>3, <3>4
  <2> QED
    BY <1>7, <1>13, <2>1, <2>2, <2>3 DEF Counted
<1>17. Between(after, who2, off2, 1) /\ BlockAt(after, who2, to2, 1) = "none"
  <2>1. CASE 1 < i /\ 1 <= n2
    <3>1. who2[1] = who[1] /\ off2[1] = off[1] /\ 1 <= n
      <4>1. 1 \in 1..n2
        BY <1>3, <2>1
      <4>2. 1 \in 1..n /\ who2[1] = who[1] /\ off2[1] = off[1]
        BY <1>8, <2>1, <4>1
      <4> QED
        BY <1>3, <4>2
    <3> QED
      BY <1>2, <1>7, <2>1, <3>1 DEF Between, BlockAt, n
  <2>2. CASE ~(1 < i) /\ 1 <= n2
    <3>1. 1 \in 1..n2 /\ 1 + d = q /\ q <= n
      BY <1>3, <2>2
    <3>2. who2[1] = who[q] /\ off2[1] = off[q]
      BY <1>9, <2>2, <3>1
    <3> QED
      BY <1>1, <1>7, <2>2, <3>1, <3>2 DEF Between, BlockAt
  <2>3. CASE ~(1 <= n2)
    <3>1. ~(q <= n)
      BY <1>3, <2>3
    <3> QED
      BY <1>7, <2>3, <3>1 DEF Between, BlockAt, to2
  <2> QED
    BY <2>1, <2>2, <2>3
<1>18. \A p \in 1..n2 : \E r \in 1..n : who2[p] = who[r] /\ off2[p] = off[r]
  BY <1>8, <1>9
<1>19. Outside(after, who2, off2, c2, to2, shown)
  BY <1>14, <1>16, <1>17 DEF Outside
<1>20. n2 < n
  BY <1>3
<1>21. StillReads(after, t, who, off, shown) /\ Len(after) < Len(t)
  <2>1. \A p \in 1..Len(after) : \E r \in 1..Len(t) : who2[p] = who[r] /\ off2[p] = off[r]
    BY <1>3, <1>7, <1>18
  <2>2. Len(after) < Len(t)
    BY <1>3, <1>7, <1>20
  <2> QED
    BY <1>19, <2>1, <2>2 DEF StillReads
<1> QED
  BY <1>6, <1>21 DEF after, a, b, Without

-----------------------------------------------------------------------------
(* No opening tag of a kind is left.                                       *)
NoOpener(t, who, off, pair) ==
  \A p \in 1..Len(t) : off[p] = 1 /\ OpeningTag(who[p]) => who[p].to # BlockOf(pair)

(* What has lost the opening tags of some kinds and nothing visible.       *)
Remains(t, gone, shown) ==
  /\ t \in Seq(Character)
  /\ \E who, off, c, to : /\ Outside(t, who, off, c, to, shown)
                          /\ \A pair \in gone : NoOpener(t, who, off, pair)

(* A round takes out a block of its kind, unless there is none.            *)
LEMMA RoundKeeps ==
  ASSUME NEW t, NEW gone \in SUBSET TagPairs, NEW shown \in Seq(Character),
         Remains(t, gone, shown), NEW pair \in TagPairs
  PROVE  /\ Remains(StripBlock(t, pair), gone, shown)
         /\ \/ Len(StripBlock(t, pair)) < Len(t)
            \/ /\ StripBlock(t, pair) = t
               /\ Remains(t, gone \cup {pair}, shown)
<1>1. t \in Seq(Character)
  BY DEF Remains
<1>2. PICK who, off, c, to : /\ Outside(t, who, off, c, to, shown)
                             /\ \A other \in gone : NoOpener(t, who, off, other)
  BY DEF Remains
<1>3. Reading(t, who, off, to) /\ pair.open \in Seq(Character)
  BY <1>2, PairFacts DEF Outside
<1>4. CASE IndexOf(t, pair.open) = 0
  <2>1. StripBlock(t, pair) = t
    BY <1>4 DEF StripBlock
  <2>2. \A m \in 1..Len(t) : ~Occurs(t, pair.open, m)
    BY <1>1, <1>3, <1>4, IndexFacts
  <2>3. NoOpener(t, who, off, pair)
    BY <1>1, <1>3, <2>2, OpenerOccurs DEF NoOpener
  <2>4. Remains(t, gone \cup {pair}, shown)
    BY <1>1, <1>2, <2>3 DEF Remains
  <2> QED
    BY <2>1, <2>4
<1>5. CASE IndexOf(t, pair.open) # 0
  <2> DEFINE after == StripBlock(t, pair)
  <2>1. PICK i, q : CutOut(t, who, off, to, i, q) /\ after = Without(t, i, q)
    BY <1>1, <1>3, <1>5, RoundCuts
  <2> HIDE DEF after
  <2>2. /\ after \in Seq(Character) /\ Len(after) < Len(t)
        /\ StillReads(after, t, who, off, shown)
    BY <1>1, <1>2, <2>1, CutReading
  <2>3. PICK who2, off2, c2, to2 :
             /\ Outside(after, who2, off2, c2, to2, shown)
             /\ \A p \in 1..Len(after) :
                  \E r \in 1..Len(t) : who2[p] = who[r] /\ off2[p] = off[r]
    BY <2>2 DEF StillReads
  <2>4. ASSUME NEW other \in gone PROVE NoOpener(after, who2, off2, other)
    BY <1>2, <2>3 DEF NoOpener
  <2>5. Remains(after, gone, shown)
    BY <2>2, <2>3, <2>4 DEF Remains
  <2> QED
    BY <2>2, <2>5 DEF after
<1> QED
  BY <1>4, <1>5

(* Where no opening tag is left, everything is visible.                    *)
LEMMA NothingToStrip ==
  ASSUME NEW t, NEW shown \in Seq(Character), Remains(t, TagPairs, shown)
  PROVE  t = shown
<1>1. t \in Seq(Character)
  BY DEF Remains
<1>2. PICK who, off, c, to : /\ Outside(t, who, off, c, to, shown)
                             /\ \A pair \in TagPairs : NoOpener(t, who, off, pair)
  BY DEF Remains
<1>3. /\ Reading(t, who, off, to) /\ Counted(t, who, c, shown)
      /\ Between(t, who, off, 1) /\ BlockAt(t, who, to, 1) = "none"
  BY <1>2 DEF Outside
<1> DEFINE n == Len(t)
           Visible(p) == who[p].from = "none" /\ who[p].to = "none"
           bad == {p \in 1..n : ~Visible(p)}
<1>4. n \in Nat
  BY <1>1
<1>5. ASSUME bad # {} PROVE FALSE
  <2>1. bad \in SUBSET Nat
    BY <1>4
  <2>2. PICK p \in bad : \A m \in bad : p <= m
    BY <1>5, <2>1, LeastNat
  <2>3. p \in 1..n /\ ~Visible(p) /\ p \in 1..Len(t) /\ who[p] \in Lexemes
    BY <1>3 DEF Reading
  <2>4. p > 1 => p - 1 \in 1..n /\ ~(p <= p - 1) /\ p \in 2..Len(t)
    BY <1>4, <2>3
  <2>5. p > 1 => Visible(p - 1)
    BY <2>2, <2>4
  <2> HIDE DEF bad
  <2>6. who[p].from = "none" /\ (off[p] = 1 \/ who[p].from = who[p].to)
    <3>1. CASE p > 1
      <4>1. IF off[p] = 1 THEN who[p].from = who[p - 1].to ELSE who[p] = who[p - 1]
        BY <1>1, <1>3, <2>4, <3>1, StepBack
      <4> QED
        BY <2>5, <3>1, <4>1
    <3>2. CASE ~(p > 1)
      <4>1. p = 1 /\ 1 <= Len(t)
        BY <2>3, <3>2
      <4> QED
        BY <1>3, <4>1 DEF Between, BlockAt
    <3> QED
      BY <3>1, <3>2
  <2>7. off[p] = 1 /\ who[p].from # who[p].to
    BY <2>3, <2>6
  <2>8. OpeningTag(who[p])
    BY <2>3, <2>6, <2>7, KindOfLexeme
  <2>9. PICK pair \in TagPairs : who[p].to = BlockOf(pair)
    BY <2>8 DEF OpeningTag
  <2> QED
    BY <1>2, <2>3, <2>7, <2>8, <2>9 DEF NoOpener
<1>6. ASSUME NEW p \in 1..n PROVE Shown(who[p])
  BY <1>5 DEF Shown
<1> HIDE DEF n
<1> DEFINE off_by == {p \in 0..n : c[p] # p}
<1>7. ASSUME off_by # {} PROVE FALSE
  <2>1. off_by \in SUBSET Nat
    BY <1>4
  <2>2. PICK p \in off_by : \A m \in off_by : p <= m
    BY <1>7, <2>1, LeastNat
  <2>3. p \in 0..n /\ c[p] # p
    OBVIOUS
  <2>4. c[0] = 0
    BY <1>3 DEF Counted
  <2>5. p \in 1..n /\ p - 1 \in 0..n /\ ~(p <= p - 1)
    BY <1>4, <2>3, <2>4
  <2>6. c[p - 1] = p - 1
    BY <2>2, <2>5
  <2> HIDE DEF off_by
  <2>7. c[p] = c[p - 1] + 1
    BY <1>3, <1>6, <2>5 DEF Counted, n
  <2>8. p - 1 + 1 = p
    BY <2>5
  <2> QED
    BY <2>3, <2>6, <2>7, <2>8
<1>8. \A p \in 0..n : c[p] = p
  BY <1>7
<1>9. Len(shown) = n
  <2>1. c[n] = Len(shown) /\ n \in 0..n
    BY <1>3, <1>4 DEF Counted, n
  <2> QED
    BY <1>8, <2>1
<1>10. ASSUME NEW p \in 1..n PROVE t[p] = shown[p]
  <2>1. shown[c[p]] = t[p] /\ p \in 0..n
    BY <1>3, <1>6 DEF Counted, n
  <2> QED
    BY <1>8, <2>1
<1> QED
  BY <1>1, <1>9, <1>10, SameSeq DEF n

-----------------------------------------------------------------------------
(* The rounds of the loop, as the function that stripReasoningBlocks       *)
(* chooses.                                                                *)
FirstKind == CHOOSE pair \in TagPairs : Last(pair.open) # ">"
SecondKind == CHOOSE pair \in TagPairs : Last(pair.open) = ">"
KindOf(text, n) == IF n <= Len(text) THEN FirstKind ELSE SecondKind
RoundOf(Strip, text, n) ==
  IF n = 0 THEN text
  ELSE TheOne({StripBlock(before, KindOf(text, n)) : before \in {Strip[n - 1]}})
IsStrip(Strip, text) == Strip = [n \in 0..2 * Len(text) |-> RoundOf(Strip, text, n)]

(* stripReasoningBlocks is the last of these rounds.                       *)
LEMMA StripIsRounds ==
  ASSUME NEW text
  PROVE  stripReasoningBlocks(text) = (CHOOSE Strip : IsStrip(Strip, text))[2 * Len(text)]
BY DEF stripReasoningBlocks, IsStrip, RoundOf, KindOf, FirstKind, SecondKind

(* There are two kinds of tags.                                            *)
LEMMA Kinds == FirstKind \in TagPairs /\ SecondKind \in TagPairs /\ TagPairs = {FirstKind, SecondKind}
<1> DEFINE first == [open |-> <<"<", "t", "k">>, close |-> <<"<", "/", "t", "k", ">">>]
           second == [open |-> <<"<", "|", "t", ">">>, close |-> <<"<", "|", "/", "t", ">">>]
<1>1. TagPairs = {first, second}
  BY DEF TagPairs
<1>2. Last(first.open) # ">" /\ Last(second.open) = ">"
  BY DEF Last
<1> HIDE DEF first, second
<1>3. FirstKind \in TagPairs /\ Last(FirstKind.open) # ">"
  BY <1>1, <1>2 DEF FirstKind
<1>4. SecondKind \in TagPairs /\ Last(SecondKind.open) = ">"
  BY <1>1, <1>2 DEF SecondKind
<1> QED
  BY <1>1, <1>3, <1>4

(* A round is StripBlock of the text of the round before.                  *)
LEMMA RoundIsStrip ==
  ASSUME NEW Strip, NEW text, NEW n, n # 0
  PROVE  RoundOf(Strip, text, n) = StripBlock(Strip[n - 1], KindOf(text, n))
<1> DEFINE x == StripBlock(Strip[n - 1], KindOf(text, n))
<1>1. {StripBlock(before, KindOf(text, n)) : before \in {Strip[n - 1]}} = {x}
  OBVIOUS
<1> HIDE DEF x
<1>2. TheOne({x}) = x
  BY DEF TheOne
<1>3. RoundOf(Strip, text, n) = x
  BY <1>1, <1>2 DEF RoundOf
<1> QED
  BY <1>3 DEF x

(* There is such a function.                                               *)
LEMMA StripExists ==
  ASSUME NEW text \in Seq(Character)
  PROVE  \E Strip : IsStrip(Strip, text)
<1> DEFINE top == 2 * Len(text)
           Part(k, g) == g = [n \in 0..k |-> RoundOf(g, text, n)]
           bad == {k \in 0..top : ~\E g : Part(k, g)}
<1>1. top \in Nat
  OBVIOUS
<1>2. \E g : Part(0, g)
  <2> DEFINE g == [n \in 0..0 |-> text]
  <2>1. \A h : \A n \in 0..0 : RoundOf(h, text, n) = text
    BY DEF RoundOf
  <2>2. Part(0, g)
    BY <2>1
  <2> QED
    BY <2>2
<1>3. ASSUME NEW k \in 0..top, NEW g, Part(k, g) PROVE \E h : Part(k + 1, h)
  <2> DEFINE h == [n \in 0..k + 1 |-> IF n = k + 1 THEN RoundOf(g, text, n) ELSE g[n]]
  <2>1. \A n \in 0..k : g[n] = RoundOf(g, text, n)
    BY <1>3
  <2>2. ASSUME NEW n \in 0..k PROVE h[n] = g[n]
    <3>1. n \in 0..k + 1 /\ n # k + 1
      BY <1>1
    <3> QED
      BY <3>1
  <2>3. k + 1 \in 0..k + 1
    BY <1>1
  <2>4. h[k + 1] = RoundOf(g, text, k + 1)
    BY <2>3
  <2>5. h = [n \in 0..k + 1 |-> h[n]]
    OBVIOUS
  <2> HIDE DEF h
  <2>6. ASSUME NEW n \in 0..k + 1 PROVE h[n] = RoundOf(h, text, n)
    <3>1. h[n] = RoundOf(g, text, n)
      <4>1. n \in 0..k \/ n = k + 1
        BY <1>1
      <4> QED
        BY <2>1, <2>2, <2>4, <4>1
    <3>2. CASE n = 0
      BY <3>1, <3>2 DEF RoundOf
    <3>3. CASE n # 0
      <4>1. n - 1 \in 0..k
        BY <1>1, <3>3
      <4>2. h[n - 1] = g[n - 1]
        BY <2>2, <4>1
      <4> QED
        BY <3>1, <3>3, <4>2, RoundIsStrip
    <3> QED
      BY <3>2, <3>3
  <2>7. Part(k + 1, h)
    BY <2>5, <2>6
  <2> QED
    BY <2>7
<1>4. ASSUME bad # {} PROVE FALSE
  <2>1. bad \in SUBSET Nat
    BY <1>1
  <2> HIDE DEF Part, top
  <2>2. PICK k \in bad : \A m \in bad : k <= m
    BY <1>4, <2>1, LeastNat
  <2>3. k \in 0..top /\ k # 0
    BY <1>1, <1>2, <2>2
  <2>4. k - 1 \in 0..top /\ ~(k <= k - 1) /\ (k - 1) + 1 = k
    BY <1>1, <2>3
  <2>5. PICK g : Part(k - 1, g)
    BY <2>2, <2>4
  <2>6. \E h : Part((k - 1) + 1, h)
    BY <1>3, <2>4, <2>5
  <2> QED
    BY <2>2, <2>4, <2>6
<1>5. PICK g : Part(top, g)
  BY <1>1, <1>4
<1>6. IsStrip(g, text)
  BY <1>5 DEF IsStrip
<1> QED
  BY <1>6

(* What remains without more kinds remains without fewer.                  *)
LEMMA RemainsMore ==
  ASSUME NEW t, NEW gone, NEW more \in SUBSET TagPairs, NEW shown, Remains(t, gone, shown),
         more \subseteq gone \/ Len(t) <= 0
  PROVE  Remains(t, more, shown)
<1>1. t \in Seq(Character)
  BY DEF Remains
<1>2. PICK who, off, c, to : /\ Outside(t, who, off, c, to, shown)
                             /\ \A pair \in gone : NoOpener(t, who, off, pair)
  BY DEF Remains
<1>3. CASE more \subseteq gone
  BY <1>1, <1>2, <1>3 DEF Remains
<1>4. CASE Len(t) <= 0
  <2>1. 1..Len(t) = {}
    BY <1>1, <1>4
  <2>2. \A pair \in more : NoOpener(t, who, off, pair)
    BY <2>1 DEF NoOpener
  <2> QED
    BY <1>1, <1>2, <2>2 DEF Remains
<1> QED
  BY <1>3, <1>4

(* As many rounds of each kind as the text has characters are enough.      *)
LEMMA RoundsAreEnough ==
  ASSUME NEW text \in Seq(Character), NEW shown \in Seq(Character), Remains(text, {}, shown)
  PROVE  stripReasoningBlocks(text) = shown
<1>0. ASSUME NEW t, NEW gone \in SUBSET TagPairs, Remains(t, gone, shown), NEW pair \in TagPairs
      PROVE  /\ Remains(StripBlock(t, pair), gone, shown)
             /\ \/ Len(StripBlock(t, pair)) < Len(t)
                \/ /\ StripBlock(t, pair) = t
                   /\ Remains(t, gone \cup {pair}, shown)
  BY <1>0, RoundKeeps
<1> DEFINE top == Len(text)
           S == CHOOSE Strip : IsStrip(Strip, text)
<1>1. top \in Nat /\ FirstKind \in TagPairs /\ SecondKind \in TagPairs
      /\ TagPairs = {FirstKind, SecondKind}
  BY Kinds
<1>2. stripReasoningBlocks(text) = S[2 * top]
  BY StripIsRounds
<1>3. IsStrip(S, text)
  BY StripExists
<1> HIDE DEF S
<1>4. S[0] = text /\ \A n \in 1..2 * top : S[n] = StripBlock(S[n - 1], KindOf(text, n))
  <2>1. \A n \in 0..2 * top : S[n] = RoundOf(S, text, n)
    BY <1>3 DEF IsStrip
  <2>2. 0 \in 0..2 * top /\ \A n \in 1..2 * top : n \in 0..2 * top /\ n # 0
    BY <1>1
  <2>3. S[0] = text
    BY <2>1, <2>2 DEF RoundOf
  <2> QED
    BY <2>1, <2>2, <2>3, RoundIsStrip
<1>5. ASSUME NEW n \in 1..2 * top
      PROVE  KindOf(text, n) = IF n <= top THEN FirstKind ELSE SecondKind
  BY DEF KindOf
<1> HIDE DEF top
<1> DEFINE Good(n) == /\ Remains(S[n], {}, shown) /\ Len(S[n]) <= top
                      /\ Remains(S[n], {FirstKind}, shown) \/ Len(S[n]) <= top - n
           bad == {n \in 0..top : ~Good(n)}
<1>6. ASSUME bad # {} PROVE FALSE
  <2>1. bad \in SUBSET Nat
    BY <1>1
  <2>2. PICK n \in bad : \A m \in bad : n <= m
    BY <1>6, <2>1, LeastNat
  <2>3. Good(0)
    <3>1. Len(text) <= top /\ Len(text) <= top - 0
      BY <1>1 DEF top
    <3> QED
      BY <1>4, <3>1
  <2>4. n \in 1..top /\ n - 1 \in 0..top /\ ~(n <= n - 1) /\ ~Good(n) /\ n \in 1..2 * top
    BY <1>1, <2>2, <2>3
  <2>5. Good(n - 1)
    BY <2>2, <2>4
  <2> HIDE DEF bad
  <2> DEFINE t == S[n - 1]
  <2>6. S[n] = StripBlock(t, FirstKind)
    BY <1>4, <1>5, <2>4
  <2>7. t \in Seq(Character) /\ Len(t) \in Nat
    BY <2>5 DEF Remains
  <2>8. CASE Remains(t, {FirstKind}, shown)
    <3>1. /\ Remains(S[n], {FirstKind}, shown)
          /\ \/ Len(S[n]) < Len(t)
             \/ S[n] = t
      <4>1. /\ {FirstKind} \in SUBSET TagPairs /\ FirstKind \in TagPairs
            /\ {FirstKind} \cup {FirstKind} = {FirstKind}
        BY <1>1
      <4> HIDE DEF t
      <4> QED
        BY <1>0, <2>6, <2>8, <4>1
    <3>2. S[n] \in Seq(Character) /\ Len(S[n]) \in Nat
      BY <3>1 DEF Remains
    <3>3. Len(S[n]) <= top
      BY <1>1, <2>5, <2>7, <3>1, <3>2
    <3>4. Remains(S[n], {}, shown)
      BY <3>1, RemainsMore
    <3> QED
      BY <2>4, <3>1, <3>3, <3>4
  <2>9. CASE ~Remains(t, {FirstKind}, shown)
    <3>1. Len(t) <= top - (n - 1) /\ Remains(t, {}, shown) /\ Len(t) <= top
      BY <2>5, <2>9
    <3>2. /\ Remains(S[n], {}, shown)
          /\ \/ Len(S[n]) < Len(t)
             \/ S[n] = t /\ Remains(t, {} \cup {FirstKind}, shown)
      <4>1. {} \in SUBSET TagPairs
        OBVIOUS
      <4> HIDE DEF t
      <4> QED
        BY <1>0, <1>1, <2>6, <3>1, <4>1
    <3>3. {} \cup {FirstKind} = {FirstKind}
      OBVIOUS
    <3>4. Len(S[n]) < Len(t)
      BY <2>9, <3>2, <3>3
    <3>5. S[n] \in Seq(Character) /\ Len(S[n]) \in Nat
      BY <3>2 DEF Remains
    <3> DEFINE a == Len(S[n])
               b == Len(t)
    <3>6. a \in Nat /\ b \in Nat /\ a < b /\ b <= top - (n - 1) /\ b <= top
      BY <2>7, <3>1, <3>4, <3>5
    <3> HIDE DEF a, b
    <3>7. a <= top /\ a <= top - n
      BY <1>1, <2>4, <3>6
    <3> QED
      BY <2>4, <3>2, <3>7 DEF a
  <2> QED
    BY <2>8, <2>9
<1>7. Good(top)
  <2> HIDE DEF Good
  <2>1. top \in 0..top
    BY <1>1
  <2> QED
    BY <1>6, <2>1
<1> DEFINE Fine(k) == /\ Remains(S[top + k], {FirstKind}, shown)
                      /\ Remains(S[top + k], TagPairs, shown) \/ Len(S[top + k]) <= top - k
           worse == {k \in 0..top : ~Fine(k)}
<1>8. Fine(0)
  <2>1. top + 0 = top /\ top - top = 0 /\ top - 0 = top
    BY <1>1
  <2>2. Remains(S[top], {FirstKind}, shown)
    BY <1>1, <1>7, <2>1, RemainsMore
  <2> QED
    BY <1>7, <2>1, <2>2
<1> HIDE DEF Good, bad
<1>9. ASSUME worse # {} PROVE FALSE
  <2>1. worse \in SUBSET Nat
    BY <1>1
  <2>2. PICK k \in worse : \A m \in worse : k <= m
    BY <1>9, <2>1, LeastNat
  <2>3. /\ k \in 1..top /\ k - 1 \in 0..top /\ ~(k <= k - 1) /\ ~Fine(k)
        /\ top + k \in 1..2 * top /\ ~(top + k <= top) /\ top + k - 1 = top + (k - 1)
    BY <1>1, <1>8, <2>2
  <2>4. Fine(k - 1)
    BY <2>2, <2>3
  <2> HIDE DEF worse
  <2> DEFINE t == S[top + (k - 1)]
             after == S[top + k]
  <2>5. after = StripBlock(t, SecondKind)
    <3>1. S[top + k] = StripBlock(S[top + k - 1], KindOf(text, top + k))
      <4>1. PICK n \in 1..2 * top : n = top + k
        BY <2>3
      <4>2. S[n] = StripBlock(S[n - 1], KindOf(text, n))
        BY <1>4
      <4>3. n - 1 = top + k - 1
        BY <1>1, <2>3, <4>1
      <4> QED
        BY <4>1, <4>2, <4>3
    <3>2. KindOf(text, top + k) = SecondKind
      BY <1>5, <2>3
    <3>3. S[top + k - 1] = S[top + (k - 1)]
      BY <2>3
    <3> QED
      BY <3>1, <3>2, <3>3
  <2>6. Remains(t, {FirstKind}, shown)
    BY <2>4
  <2> HIDE DEF t, after
  <2>7. t \in Seq(Character) /\ Len(t) \in Nat
    BY <2>6 DEF Remains
  <2>8. {FirstKind} \cup {SecondKind} = TagPairs /\ TagPairs \cup {SecondKind} = TagPairs
    BY <1>1
  <2>9. /\ Remains(after, {FirstKind}, shown)
        /\ \/ Len(after) < Len(t)
           \/ after = t /\ Remains(t, {FirstKind} \cup {SecondKind}, shown)
    BY <1>0, <1>1, <2>5, <2>6
  <2>10. CASE Remains(t, TagPairs, shown)
    <3>1. Remains(after, TagPairs, shown)
      BY <1>0, <1>1, <2>5, <2>10
    <3> QED
      BY <2>3, <2>9, <3>1 DEF after
  <2>11. CASE ~Remains(t, TagPairs, shown)
    <3>1. Len(t) <= top - (k - 1)
      BY <2>4, <2>11 DEF t
    <3>2. Len(after) < Len(t)
      BY <2>8, <2>9, <2>11
    <3>3. after \in Seq(Character) /\ Len(after) \in Nat
      BY <2>9 DEF Remains
    <3> DEFINE a == Len(after)
               b == Len(t)
    <3>4. a \in Nat /\ b \in Nat /\ a < b /\ b <= top - (k - 1)
      BY <2>7, <3>1, <3>2, <3>3
    <3> HIDE DEF a, b
    <3>5. a <= top - k
      BY <1>1, <2>3, <3>4
    <3> QED
      BY <2>3, <2>9, <3>5 DEF a, after
  <2> QED
    BY <2>10, <2>11
<1>10. Fine(top)
  <2> HIDE DEF Fine
  <2>1. top \in 0..top
    BY <1>1
  <2> QED
    BY <1>9, <2>1
<1>11. Remains(S[2 * top], TagPairs, shown)
  <2>1. top + top = 2 * top /\ top - top = 0
    BY <1>1
  <2>2. /\ Remains(S[2 * top], {FirstKind}, shown)
        /\ Remains(S[2 * top], TagPairs, shown) \/ Len(S[2 * top]) <= 0
    BY <1>10, <2>1
  <2> QED
    BY <2>2, RemainsMore
<1> QED
  BY <1>2, <1>11, NothingToStrip

(* From a response that is read as a whole nothing but its blocks is       *)
(* stripped.                                                               *)
LEMMA PendingStripped ==
  ASSUME NEW unread \in Seq(Character), NEW to, NEW shown \in Seq(Character),
         Pending(NewStreamingReasoningFilter, unread, to, shown)
  PROVE  stripReasoningBlocks(unread) = shown
<1> DEFINE f == NewStreamingReasoningFilter
<1>1. f.tagBuffer = <<>> /\ f.inReasoningTag = FALSE
  BY DEF NewStreamingReasoningFilter
<1>2. <<>> \o unread = unread
  OBVIOUS
<1> HIDE DEF f
<1>3. PICK who, off, c : OnItsWay(f, unread, who, off, c, to, shown)
  BY <1>1, <1>2 DEF Pending, f
<1>4. Outside(unread, who, off, c, to, shown)
  BY <1>1, <1>3 DEF OnItsWay, Outside
<1>5. Remains(unread, {}, shown)
  BY <1>4 DEF Remains
<1> QED
  BY <1>5, RoundsAreEnough
=============================================================================
