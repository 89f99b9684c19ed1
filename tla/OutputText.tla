----------------------------- MODULE OutputText -----------------------------
(***************************************************************************)
(* cleanOutputText (main.go 409-447): what becomes of a text that is given *)
(* to the client as a whole.  Blocks of reasoning are taken out, then      *)
(* sentences of narration, leftovers of tags and guard phrases; the        *)
(* messages handler also cuts the text to max_tokens words (3344-3351).    *)
(*                                                                         *)
(* Every stage keeps some characters of its text and drops the others: it  *)
(* is described by the places it keeps.  Of the lists of phrases in the    *)
(* code one of each is kept, as a character (ReasoningFilter).  White      *)
(* space is not told apart: "." is a sentence end with white space behind  *)
(* it unless it comes last, and every other character is a word.           *)
(***************************************************************************)
EXTENDS ReasoningFilter

CONSTANT MetaReach   \* narration is looked for in so many characters (160)
ASSUME MetaReachAssumption == MetaReach \in Nat

(* The characters of a text at the given places, in their order.           *)
Pick(text, places) ==
  TheOne({[n \in 1..Cardinality(ps) |->
             t[CHOOSE p \in ps : Cardinality({q \in ps : q <= p}) = n]] :
          t \in {text}, ps \in {places}})

(* Fault: the whole text is searched.                                      *)
isMetaAnywhere(s) == \E n \in DOMAIN s : s[n] = "m"

(* Narration is recognised by a phrase near the beginning.                 *)
isMeta(s) == \E n \in DOMAIN s : n <= MetaReach /\ s[n] = "m"

(* A text is split at its sentence ends; they are in no sentence.          *)
Ends(text) == {p \in DOMAIN text : p < Len(text) /\ text[p] = "."}
SentenceOf(text, p) ==
  {q \in DOMAIN text \ Ends(text) : \A e \in Ends(text) : e < p <=> e < q}
Spoken(text) ==
  {p \in DOMAIN text \ Ends(text) : ~isMeta(Pick(text, SentenceOf(text, p)))}

(* What is behind the last colon, and behind the first words that          *)
(* introduce an answer, without the full stops around it.                  *)
BehindColon(text) ==
  {p \in DOMAIN text : /\ \E q \in 1..p - 1 : text[q] = ":"
                       /\ \A q \in p..Len(text) : text[q] # ":"}
BehindIntroduction(text) ==
  LET said == {p \in DOMAIN text : text[p] # "." /\ \E q \in 1..p - 1 : text[q] = "i"}
  IN {p \in DOMAIN text : \E first, last \in said : first <= p /\ p <= last}

(* A text that begins with narration loses every sentence of it, and the   *)
(* ends of all sentences; if there is nothing else, an answer is looked    *)
(* for inside the narration.                                               *)
DropNarration(clean) ==
  LET kept == Pick(clean, Spoken(clean))
      tail == Pick(clean, BehindColon(clean))
  IN IF ~isMeta(clean) THEN clean
     ELSE IF kept # <<>> THEN kept
     ELSE IF tail # <<>> /\ ~isMeta(tail) THEN tail
     ELSE Pick(clean, BehindIntroduction(clean))
stripCoTNarration(text) ==
  TheOne({DropNarration(clean) : clean \in {stripReasoningBlocks(text)}})

(* What tags leave behind, "|>", wherever it stands.                       *)
Leftovers(text) ==
  {p \in DOMAIN text : \E first \in {p - 1, p} \cap DOMAIN text :
     IsPrefix(<<"|", ">">>, SubSeq(text, first, Len(text)))}

(* From the first guard phrase to the next sentence end.                   *)
Guarded(text) ==
  {p \in DOMAIN text : \E first \in 1..p :
     /\ text[first] = "g" /\ \A q \in 1..first - 1 : text[q] # "g"
     /\ \A q \in first..p - 1 : text[q] # "."}

DropLeftovers(text) == Pick(text, DOMAIN text \ Leftovers(text))
DropGuards(text) == Pick(text, DOMAIN text \ Guarded(text))

(* The whole pipeline, but for the rewriting of model names.               *)
cleanOutputText(text) ==
  TheOne({DropGuards(whole) :
    whole \in {DropLeftovers(told) : told \in {stripCoTNarration(text)}}})

(* The first words of a text, each with the sentence end behind it.        *)
Words(text) == {p \in DOMAIN text : text[p] # "."}
CutToWords(text, limit) ==
  Pick(text, {p \in DOMAIN text : Cardinality({q \in Words(text) : q <= p}) <= limit})

=============================================================================
