---------------------------- MODULE MCChatProxy ----------------------------
(* Model checking of ChatProxy on a small instance.                        *)
EXTENDS ChatProxy

Said(text, from, to) == [text |-> text, from |-> from, to |-> to]

MCLexemes == {
  Said(<<"a">>, "none", "none"),
  Said(<<"<", "t">>, "none", "none"),
  Said(<<"<", "t", "k", ">">>, "none", "tag"),
  Said(<<"<", "t", "k", "a", ">">>, "none", "tag"),
  Said(<<"<", "|", "t", ">">>, "none", "bar"),
  Said(<<"s">>, "tag", "tag"),
  Said(<<"<", "/">>, "bar", "bar"),
  Said(<<"<", "/", "t", "k", ">">>, "tag", "none"),
  Said(<<"<", "|", "/", "t", ">">>, "bar", "none"),
  Said(<<"|", ">">>, "none", "none") }
  \cup {Said(<<c>>, "none", "none") : c \in {"m", "g", ".", ":", "i", "d"}}

(* Streams have up to six characters on their way.  Bodies of events have  *)
(* up to two tags and two letters, or five characters with leftovers of    *)
(* tags; JSON objects have no tags and up to three letters, at most two of *)
(* them phrases that the cleaning looks for.                               *)
Phrases == {"m", "g", "i", "d", ":"}
MCRoom(kind, text) ==
  LET Count(chars) == Cardinality({n \in DOMAIN text : text[n] \in chars})
  IN /\ kind = "stream" => Len(text) <= 6 /\ Count(Phrases \cup {"."}) = 0
     /\ kind = "events" => /\ Len(text) <= 11 /\ Count({"<"}) <= 2 /\ Count({">"}) <= 2
                           /\ Count({"a", "s"}) <= 2 /\ Count(Phrases \cup {"."}) = 0
                           /\ Leftovers(text) # {} => Len(text) <= 5
     /\ kind = "json" => Len(text) <= 3 /\ Count({"<"}) = 0 /\ Count(Phrases) <= 2

Turn(len, core) == [system |-> FALSE, len |-> len, core |-> core]
System(len) == [system |-> TRUE, len |-> len, core |-> len]

(* Conversations of up to three turns behind a first message, the prompt.  *)
MCHistories ==
  LET turns == {Turn(1, 1), Turn(8, 8), Turn(21, 21), Turn(40, 40), Turn(40, 9)}
  IN {<<System(s)>> \o h : s \in {2, 30}, h \in UNION {[1..n -> turns] : n \in 0..3}}
       \cup {<<System(40)>>}
=============================================================================
