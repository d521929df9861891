----------------------------- MODULE MCJobFiles -----------------------------
(* Directories for TLC: what a run of the server leaves beside the jobs,   *)
(* jobs whose names agree up to their first dot, or but for a dot at the   *)
(* beginning, or in what is left of them in bck_name, names that are too   *)
(* long, a file that has the rest of a name that was cut, and enough       *)
(* entries to fill the buffer up to four times.                            *)
EXTENDS JobFiles

job(parts) == Append(parts, "job")
a == job(<<"a">>)
b == job(<<"b">>)
ab == job(<<"a", "b">>)
long == job(<<"long">>)
hidden == job(<<NoText, "a">>)

dot == <<NoText, NoText>>
dotdot == <<NoText, NoText, NoText>>

MCDirectories ==
  { <<a, <<"a", "out">>, b, ab, dot, long, dotdot>>,
    <<dot, b, ab, dotdot, a, hidden>>,
    <<a, <<"b">>, b, job(<<"long", "er">>), dotdot>>,
    <<dot, <<NoText, "job">>, long, dotdot, job(<<"longest">>), job(<<"too long">>), b>> }

MCTooLong == {job(<<"too long">>)}
MCShortened == [stem \in {"long", "longest"} |-> "lon"]
=============================================================================
