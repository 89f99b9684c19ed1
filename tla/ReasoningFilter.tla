-------------------------- MODULE ReasoningFilter --------------------------
(***************************************************************************)
(* The two ways in which the proxy takes reasoning blocks out of a         *)
(* model's text: StreamingReasoningFilter (main.go 735-897), which is fed  *)
(* the text in pieces, and the loop of stripCoTNarration (main.go 287-311),*)
(* which is given all of it.  Both are functions of their input and of the *)
(* filter's two fields, and are written as operators.                      *)
(*                                                                         *)
(* A text is a sequence of characters.  The nine tags of the code are of   *)
(* two shapes: "<think" with attributes up to the next ">", and            *)
(* "<|thought|>" which is matched in full.  One tag of each shape is kept, *)
(* over the characters "<", "/", "|", ">", "t" and "k" (a name of two      *)
(* letters, so that it can be cut), "s" (what only reasoning says) and "a" *)
(* (any other character).  The rest matters to whole texts only, where a   *)
(* phrase of the code's lists is one character (OutputText): "m" narrates  *)
(* ("let me"), "g" is a guard phrase, "i" introduces an answer ("the       *)
(* answer is"), "d" is the field name "data: ", and "." ends a sentence.   *)
(* ToLower and the rewriting of model names (sanitizeTextContent) are left *)
(* out.                                                                    *)
(***************************************************************************)
EXTENDS Integers, SequencesExt

CONSTANTS
  OpenReach,    \* an opening tag has its ">" within so many characters (60)
  OpenHold,     \* a possible opening tag is held back while shorter (30)
  CloseReach,   \* a closing tag has its ">" within so many characters (30)
  CloseHold     \* a possible closing tag is held back while shorter (25)

\* The limits, and how they lie relative to the longest tag of the list.
ASSUME LimitsAssumption ==
  /\ {OpenReach, OpenHold, CloseReach, CloseHold} \subseteq Nat
  /\ 5 <= CloseHold /\ CloseHold <= CloseReach
  /\ CloseHold <= OpenHold /\ OpenHold <= OpenReach

Character == {"<", "/", "|", ">", "t", "k", "a", "s", "m", "g", "i", "d", ":", "."}

(* Opening and closing tag of each kind of block.                          *)
TagPairs == { [open |-> <<"<", "t", "k">>,      close |-> <<"<", "/", "t", "k", ">">>],
              [open |-> <<"<", "|", "t", ">">>, close |-> <<"<", "|", "/", "t", ">">>] }
openTagNames == {pair.open : pair \in TagPairs}
closeTagNames == {pair.close : pair \in TagPairs}

(* Length of s up to its first ">", if that is at most limit; 0 otherwise. *)
ToBracket(s, limit) ==
  LET ends == {n \in DOMAIN s : n <= limit /\ s[n] = ">"}
  IN IF ends = {} THEN 0 ELSE CHOOSE n \in ends : \A m \in ends : n <= m

isOpeningReasoningTagPrefix(s) ==
  \E tag \in openTagNames : IsPrefix(s, tag) \/ IsPrefix(tag, s)

(* Length of the opening tag that s starts with, 0 if there is none.       *)
matchOpeningReasoningTag(s) ==
  LET tags == {tag \in openTagNames : IsPrefix(tag, s)}
  IN IF tags = {} THEN 0
     ELSE LET tag == CHOOSE t \in tags : TRUE
          IN IF Last(tag) = ">" THEN Len(tag) ELSE ToBracket(s, OpenReach)

(* Fault: only whole tags are recognised.                                  *)
isClosingReasoningTagPrefixWhole(s) == \E tag \in closeTagNames : IsPrefix(Front(tag), s)

isClosingReasoningTagPrefix(s) ==
  \E tag \in closeTagNames : IsPrefix(s, tag) \/ IsPrefix(Front(tag), s)

matchClosingReasoningTag(s) ==
  IF \E tag \in closeTagNames : IsPrefix(Front(tag), s)
  THEN ToBracket(s, CloseReach) ELSE 0

-----------------------------------------------------------------------------
(* The filter's fields inReasoningTag and tagBuffer.                       *)
FilterState == [inReasoningTag : BOOLEAN, tagBuffer : Seq(Character)]
NewStreamingReasoningFilter == [inReasoningTag |-> FALSE, tagBuffer |-> <<>>]

(* Fault: a tail that may become a tag is never kept.                      *)
VerdictAtOnce(tail, inside) ==
  LET opening == matchOpeningReasoningTag(tail)
      closing == matchClosingReasoningTag(tail)
  IN IF inside /\ closing > 0 THEN [kind |-> "close", length |-> closing]
     ELSE IF ~inside /\ opening > 0 THEN [kind |-> "open", length |-> opening]
     ELSE IF ~inside /\ closing > 0 THEN [kind |-> "stray", length |-> closing]
     ELSE [kind |-> "text", length |-> 1]

(* What Feed does with the tail of its input that starts with "<".  A tag  *)
(* is consumed; a tail that may become one is kept for the next call; a    *)
(* "<" that starts no tag is text outside a block and dropped inside.      *)
Verdict(tail, inside) ==
  LET opening == matchOpeningReasoningTag(tail)
      closing == matchClosingReasoningTag(tail)
      hold == IF inside
              THEN isClosingReasoningTagPrefix(tail) /\ Len(tail) < CloseHold
              ELSE isOpeningReasoningTagPrefix(tail) /\ Len(tail) < OpenHold
  IN IF inside /\ closing > 0 THEN [kind |-> "close", length |-> closing]
     ELSE IF ~inside /\ opening > 0 THEN [kind |-> "open", length |-> opening]
     ELSE IF hold THEN [kind |-> "hold", length |-> Len(tail)]
     ELSE IF ~inside /\ closing > 0 THEN [kind |-> "stray", length |-> closing]
     ELSE [kind |-> "text", length |-> 1]

(* Feed: the loop over the input from position i on.  The result has the   *)
(* filter's fields after it and the text it lets through.                  *)
Feed(f, chunk) ==
  LET input == f.tagBuffer \o chunk
      Scan[i \in 1..Len(input) + 1] == [inside \in BOOLEAN |->
        IF i > Len(input)
        THEN [inReasoningTag |-> inside, tagBuffer |-> <<>>, text |-> <<>>]
        ELSE
          LET tail == SubSeq(input, i, Len(input))
              verdict == IF input[i] = "<" THEN Verdict(tail, inside)
                         ELSE [kind |-> "text", length |-> 1]
              now == verdict.kind = "open" \/ (inside /\ verdict.kind # "close")
          IN IF verdict.kind = "hold"
             THEN [inReasoningTag |-> inside, tagBuffer |-> tail, text |-> <<>>]
             ELSE LET rest == Scan[i + verdict.length][now]
                  IN IF verdict.kind = "text" /\ ~inside
                     THEN [rest EXCEPT !.text = <<input[i]>> \o @]
                     ELSE rest]
      result == Scan[1][f.inReasoningTag]
  IN result

(* Fault: what is held back is thrown away.                                *)
FlushNothing(f) == <<>>

(* Flush: what is still held back is text, unless a block is open.         *)
Flush(f) == IF f.inReasoningTag THEN <<>> ELSE f.tagBuffer

-----------------------------------------------------------------------------
(* Position at which pattern first occurs in s, 0 if it does not.          *)
IndexOf(s, pattern) ==
  LET places == {n \in DOMAIN s : IsPrefix(pattern, SubSeq(s, n, Len(s)))}
  IN IF places = {} THEN 0 ELSE CHOOSE n \in places : \A m \in places : n <= m

(* One round of the loop: a block reaches from an opening tag to the next  *)
(* closing tag, or to the end of the text.                                 *)
StripBlock(text, pair) ==
  LET start == IndexOf(text, pair.open)
      behind == SubSeq(text, start, Len(text))
      end == IndexOf(behind, pair.close)
  IN IF start = 0 THEN text
     ELSE IF end = 0 THEN SubSeq(text, 1, start - 1)
     ELSE SubSeq(text, 1, start - 1)
            \o SubSeq(behind, end + Len(pair.close), Len(behind))

(* The element of a set that has only one.  (A text that is used more than *)
(* once is bound as one, so that it is computed once.)                     *)
TheOne(S) == CHOOSE x \in S : TRUE

(* stripCoTNarration's removal of blocks, of one kind after the other.     *)
(* Every round shortens the text or leaves it, so as many rounds for each  *)
(* as the text has characters are enough.                                  *)
stripReasoningBlocks(text) ==
  LET first == CHOOSE pair \in TagPairs : Last(pair.open) # ">"
      second == CHOOSE pair \in TagPairs : Last(pair.open) = ">"
      Strip[n \in 0..2 * Len(text)] ==
        IF n = 0 THEN text
        ELSE LET pair == IF n <= Len(text) THEN first ELSE second
             IN TheOne({StripBlock(before, pair) : before \in {Strip[n - 1]}})
  IN Strip[2 * Len(text)]

=============================================================================
