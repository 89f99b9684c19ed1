-------------------------------- MODULE Relay --------------------------------
(***************************************************************************)
(* The relay of one response by proxyHandler (main.go 2476-2657) and       *)
(* anthropicMessagesHandler (3217-3373): the upstream writes events, the   *)
(* handler reads them one by one through the streaming filter and writes   *)
(* what comes out, or reads them all, or one JSON object, and cleans the   *)
(* whole text.                                                             *)
(*                                                                         *)
(* A text is said in lexemes: pieces the model means as a unit, a tag or a *)
(* stretch of text.  Events cut it anywhere.  The formats of events differ *)
(* in how they wrap a piece of text and are not told apart, nor are those  *)
(* of JSON objects: choices with a message, or the output of /responses.   *)
(* An object that reports an error is one without text.                    *)
(***************************************************************************)
EXTENDS OutputText

CONSTANTS
  Lexemes,     \* what the upstream can say
  Room(_, _)   \* bound: Room(form, text), may so much be on its way?

VARIABLES
  form,        \* form of the response's body
  wire,        \* characters said that the handler has not read
  thought,     \* what the body says apart from that as its reasoning
  block,       \* the block of reasoning the upstream is in
  source,      \* state of the response's body
  filter,      \* reasoningFilter
  outTokenCount,
  answer,      \* the text given to the client as a whole
  owed,        \* visible characters said, of a stream only those not yet given
  garbled,     \* was the client of a stream given anything else?
  leaked       \* was it given reasoning?
saidVars == <<form, thought>>
givenVars == <<filter, outTokenCount, answer, garbled, leaked>>
relayVars == <<saidVars, wire, block, source, owed, givenVars>>

Blocks == {"none", "tag", "bar"}
(* A lexeme leads from one block to another or stays.  It is shown if it   *)
(* is text outside blocks; "s" stands for what only reasoning says.        *)
Lexeme == [text : Seq(Character), from : Blocks, to : Blocks]
Shown(l) == l.from = "none" /\ l.to = "none"
Secret == "s"

(* What is assumed of the upstream: its tags are whole, and their beginnings *)
(* short enough to be held back; its texts are never taken for a tag, in    *)
(* front of whatever it may say next, though they may begin like one.       *)
BlockOf(pair) == IF Last(pair.open) = ">" THEN "bar" ELSE "tag"
OpeningTag(l) ==
  /\ l.from = "none"
  /\ \E pair \in TagPairs : IsPrefix(pair.open, l.text) /\ l.to = BlockOf(pair)
  /\ ToBracket(l.text, OpenHold) = Len(l.text)
ClosingTag(l) ==
  /\ l.to = "none"
  /\ \E pair \in TagPairs : l.text = pair.close /\ l.from = BlockOf(pair)
TagBeginnings == openTagNames \cup {Front(tag) : tag \in closeTagNames}
NeverATag(l) ==
  /\ l.from = l.to
  /\ \A m \in Lexemes : m.from = l.to =>
       LET ahead == Append(l.text, m.text[1])
       IN \A tag \in TagBeginnings : ~IsPrefix(ahead, tag) /\ ~IsPrefix(tag, ahead)
ASSUME LexemesAssumption ==
  /\ Lexemes \subseteq Lexeme
  /\ \A l \in Lexemes :
       /\ l.text # <<>>
       /\ \A n \in 2..Len(l.text) : l.text[n] # "<"
       /\ OpeningTag(l) \/ ClosingTag(l) \/ NeverATag(l)
       /\ l.from = "none" => ~Contains(l.text, Secret)

RelayInit ==
  /\ form = "none" /\ wire = <<>> /\ thought = <<>> /\ block = "none" /\ source = "none"
  /\ filter = NewStreamingReasoningFilter /\ outTokenCount = 0 /\ answer = <<>>
  /\ owed = <<>> /\ garbled = FALSE /\ leaked = FALSE

(* A response with status 200 has arrived.                                 *)
BodyOpens ==
  /\ source' = "open"
  /\ form' \in {"events", "json"}
  /\ UNCHANGED <<wire, thought, block, owed, givenVars>>

(* Everything about the response is forgotten.                             *)
BodyForgotten ==
  /\ form' = "none" /\ wire' = <<>> /\ thought' = <<>> /\ block' = "none" /\ source' = "none"
  /\ filter' = NewStreamingReasoningFilter /\ outTokenCount' = 0 /\ answer' = <<>>
  /\ owed' = <<>> /\ garbled' = FALSE /\ leaked' = FALSE

-----------------------------------------------------------------------------
(* The upstream says something more.                                       *)
UpstreamSays(l) ==
  /\ source = "open" /\ l.from = block
  /\ wire' = wire \o l.text
  /\ block' = l.to
  /\ owed' = IF Shown(l) THEN owed \o l.text ELSE owed
  /\ UNCHANGED <<saidVars, source, givenVars>>

(* It puts reasoning into a field of its own, apart from the text.  (Such  *)
(* fields of events are never read.)                                       *)
UpstreamThinks ==
  /\ source = "open" /\ form = "json"
  /\ wire = <<>> /\ thought = <<>>
  /\ thought' = <<Secret>>
  /\ UNCHANGED <<form, wire, block, source, owed, givenVars>>

(* It has said all: [DONE], or the end of the body.                        *)
UpstreamEnds ==
  /\ source = "open"
  /\ source' = "ended"
  /\ UNCHANGED <<saidVars, wire, block, owed, givenVars>>

(* The connection is lost, the client gone, or the request's context over. *)
BodyBreaks ==
  /\ source \in {"open", "ended"}
  /\ source' = "broken"
  /\ UNCHANGED <<saidVars, wire, block, owed, givenVars>>

-----------------------------------------------------------------------------
(* The client is given text.                                               *)
Give(text) ==
  /\ owed' = IF IsPrefix(text, owed)
             THEN SubSeq(owed, Len(text) + 1, Len(owed)) ELSE owed
  /\ garbled' = (garbled \/ ~IsPrefix(text, owed))
  /\ leaked' = (leaked \/ Contains(text, Secret))

(* The handler reads an event with the next n characters.                  *)
ReadEvent(n) ==
  /\ \E fed \in {Feed(filter, SubSeq(wire, 1, n))} :
       /\ filter' = [inReasoningTag |-> fed.inReasoningTag, tagBuffer |-> fed.tagBuffer]
       /\ Give(fed.text)
  /\ wire' = SubSeq(wire, n + 1, Len(wire))
  /\ UNCHANGED <<saidVars, block, source, answer>>

(* After the loop: what the filter holds back.                             *)
FlushFilter ==
  /\ Give(Flush(filter))
  /\ filter' = [filter EXCEPT !.tagBuffer = <<>>]
  /\ UNCHANGED <<saidVars, wire, block, source, outTokenCount, answer>>

-----------------------------------------------------------------------------
(* Fault: reasoning stands in for a text of which nothing is left.         *)
answerTextOfLeftovers(said) ==
  LET clean == cleanOutputText(said)
  IN IF clean = <<>> /\ form = "json" THEN cleanOutputText(thought) ELSE clean

(* The text of a body that was read: reasoning stands in for a text that   *)
(* is missing.                                                             *)
answerText(said) ==
  cleanOutputText(IF said = <<>> /\ form = "json" THEN thought ELSE said)

(* What the chat handler answers: an object in which "data: " occurs is    *)
(* taken for events, and one that was cut is passed on as it is.           *)
makeAuthenticResponse(said) ==
  IF form = "json" /\ Contains(said, "d") THEN <<>>
  ELSE IF form = "json" /\ source = "broken" THEN thought \o said
  ELSE answerText(said)

(* What the messages handler answers: an object that was cut has no text.  *)
extractOpenAIContent(said) ==
  IF form = "json" /\ source = "broken" THEN <<>> ELSE answerText(said)

=============================================================================
