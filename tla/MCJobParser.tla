---------------------------- MODULE MCJobParser ----------------------------
(* Lines of job files for TLC: names of one and two characters, a limit of *)
(* three pairs, of which a command may use two.                            *)
EXTENDS JobParser

a == <<"a">>
b == <<"b">>

MCCommands ==
  { Command("WRITE", <<<<a, b>>>>), Command("WRITE", <<<<a, a \o b>>, <<b, a>>>>),
    Command("READ", <<<<a>>>>), Command("READ", <<<<a \o b>>, <<<<>>>>>>),
    Command("DELETE", <<<<b>>, <<a>>>>), Command("WAIT", <<<<<<"7">>>>>>),
    Command("SHOW", <<>>), Command("BACKUP", <<>>), Command("HELP", <<>>) }

CharsOf(strings) == {Chars(s) : s \in strings}

MCBadLines == CharsOf(
  { "x", "READx[a]", "SHOWS", "READ a]", "READ [ b]", "READ [abc]", "DELETE [a)",
    "READ [a,a,a]", "READ [a,a,a,a]", "WRITE [(a,b)(a,b)(a,b)]", "WRITE [(a,b)]x", "WRITE [(a,b),(a,b)]", "WRITE a", "WAIT x" })

MCGreedyLines == CharsOf(
  { "READ", "DELETE", "WRITE", "WRITE ", "READ ", "WRITE [", "WRITE [(a,b)",
    "WRITE [(a b)]", "WRITE [(abc,b)]", "WAIT 30" })

MCOtherLines == CharsOf({ "W", "SH", "WAIT", "WRITE [(a,b", "READ [a", "WAIT 10 " })

MCStaleDigits == {<<>>, <<"0">>, <<"9">>}
=============================================================================
