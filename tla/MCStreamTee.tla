---------------------------- MODULE MCStreamTee ----------------------------
(* Instances of StreamTee for TLC. *)
EXTENDS StreamTee, TLC

Delta(content, tools, finish) ==
  [error |-> FALSE, usage |-> None,
   choices |-> <<[index |-> 0, content |-> content, tools |-> tools, finish |-> finish]>>]
Call(index, name, args) == [index |-> index, name |-> name, args |-> args]

MCChunk ==
  [hi    |-> Delta(<<"hi">>, <<>>, FALSE),
   there |-> Delta(<<"there">>, <<>>, FALSE),
   toolF |-> Delta(<<>>, <<Call(0, "f", <<"x">>)>>, FALSE),
   toolG |-> Delta(<<>>, <<Call(1, "g", <<>>)>>, FALSE),
   argG  |-> Delta(<<>>, <<Call(1, None, <<"y">>)>>, FALSE),
   stop  |-> Delta(<<>>, <<>>, TRUE),
   usage |-> [error |-> FALSE, usage |-> 7, choices |-> <<>>],
   fault |-> [error |-> TRUE, usage |-> None, choices |-> <<>>]]

MCKind ==
  [e \in DOMAIN MCChunk \cup {"done", "junk", "ping"} |->
     CASE e = "done" -> "done" [] e = "junk" -> "bad" [] e = "ping" -> "none"
       [] OTHER -> "data"]

(* Answers, calls, keep-alives and the ways a stream goes wrong.             *)
Lines ==
  {<<"hi", "there", "stop", "usage", "done">>,
   <<"hi", "ping", "stop", "done">>,
   <<"toolF", "toolG", "argG", "stop", "usage", "done">>,
   <<"hi", "stop">>, <<"hi", "stop", "usage">>, <<"hi", "there", "done">>,
   <<"hi", "there">>, <<"hi", "fault", "done">>, <<"hi", "junk", "stop", "done">>,
   <<"usage", "done">>}

Ended(lines, blank, last) ==
  [i \in 1..Len(lines) |->
     [ev |-> lines[i], end |-> IF i = Len(lines) THEN last ELSE blank]]

Answer == <<"hi", "there", "stop", "usage", "done">>
MCScripts ==
  {Ended(l, Unix, Unix) : l \in Lines}
  \cup {Ended(Answer, Dos, Dos), Ended(<<"hi", "ping", "stop", "done">>, Dos, Dos)}
  \cup {Ended(<<"hi", "there", "done">>, Unix, <<>>), Ended(<<"hi", "stop">>, Unix, <<>>)}

OneCall == [choices |-> <<[content |-> <<>>, finished |-> TRUE,
                           tools |-> <<Call(None, "f", <<"x">>)>>]>>, usage |-> 7]
TwoCalls == [OneCall EXCEPT !.choices[1].tools =
               <<Call(None, "f", <<"x">>), Call(None, "g", <<"y">>)>>]
MCPlainBodies == {OneCall, TwoCalls}
=============================================================================
