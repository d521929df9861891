------------------------------ MODULE MCClient ------------------------------
(* Inputs of a client for TLC: all pairs of lines, and longer ones about   *)
(* subscriptions.  One of "a" and "b" may be in the table from the start.  *)
EXTENDS Client

a == <<"a">>
b == <<"b">>
MCKeys == {a, b}
MCInitial == [k \in MCKeys |-> IF k = a THEN 97 ELSE 98]
MCUnknown == <<"x">>
MCOverlong == <<"overlong">>
MCGarbage == <<<<"garbage">>, "garbage">>
MCStaleDigits == {<<>>}

Means(s, name, arguments) == Line("good", Chars(s), Command(name, arguments))
Faulty(class, s) == Line(class, Chars(s), Rejected)

sub == Means("SUBSCRIBE [a]", "SUBSCRIBE", <<a>>)
subb == Means("SUBSCRIBE [b]", "SUBSCRIBE", <<b>>)
unsub == Means("UNSUBSCRIBE [a]", "UNSUBSCRIBE", <<a>>)
delay == Means("DELAY 5", "DELAY", <<<<"5">>>>)
disconnect == Means("DISCONNECT", "DISCONNECT", <<>>)
empty == Means("SUBSCRIBE []", "SUBSCRIBE", <<<<>>>>)

FaultyLines ==
  { Faulty("bad", "SUBSCRIBE a"), Faulty("bad", "SUBSCRIBE ]a["), Faulty("bad", "DISCONNECTS"),
    Faulty("bad", "x"), Faulty("bad", "DELAY 30 x"), Faulty("stale", "UNSUBSCRIBE a"),
    Faulty("greedy", "SUB"), Faulty("greedy", "UNSUBSCRIBE"), Faulty("greedy", "DELAY 30"),
    Faulty("other", "D"), Faulty("other", "DELAY 5 SUBSCRIBE [a]"),
    Faulty("other", "SUBSCRIBE [b] or any other key") }

Blank == Line("good", <<>>, Skipped)

MCScripts ==
  LET lines == {sub, subb, unsub, delay, disconnect, empty, Blank} \cup FaultyLines
  IN  {<<l, m>> : l \in lines, m \in {sub, unsub, disconnect}}
        \cup {<<l, Blank, Blank>> : l \in FaultyLines}
        \cup {<<sub, sub, unsub>>, <<sub, sub, unsub, unsub, disconnect>>}

\* tests/client_tests.txt
TestScripts ==
  {<< Means("DELAY 5000", "DELAY", <<Chars("5000")>>), sub,
      Means("SUBSCRIBE [NONE]", "SUBSCRIBE", <<Chars("NONE")>>),
      Means("DELAY 10000", "DELAY", <<Chars("10000")>>), unsub, disconnect >>}
=============================================================================
