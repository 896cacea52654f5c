----------------------------- MODULE MCContract -----------------------------
(* Small words, releases whose names fall together, and the overlays. *)
EXTENDS Contract

MCLower == {"a", "c"} \cup {Hash[w] : w \in Words}

MCToLower == [c \in {"A"} |-> "a"]

\* The second is sanitised and cut; with the sessions "c-a" and "a" the two derive the
\* same name.
MCReleases == {<<"a">>, <<"a", ".", "c", "a">>}

\* Sanitised alike; like the end of a release's name; cut alike; nothing but "_".
MCSessions ==
  { <<"a">>, <<"A">>, <<"c", "-", "a">>, <<"c", "-", "c", "a", "a">>,
    <<"c", "-", "c", "a", "c">>, <<"_">> }

MCAccounts == {<<>>, <<"a">>}

MCWords == MCReleases \cup MCSessions \cup (MCAccounts \ {<<>>})

MCHash == [w \in MCWords |-> ToString(w)]

\* What a chart renders without an overlay.
Rendered ==
  [ runner |-> TRUE, workOrder |-> "secret", secret |-> NoOrder, order |-> NoOrder,
    labels |-> <<>>, args |-> <<>>, mount |-> "workspace", shadowed |-> FALSE,
    restart |-> "Never" ]

MCOverlays ==
  { Rendered,
    [Rendered EXCEPT !.workOrder = "none"],
    [Rendered EXCEPT !.workOrder = "other", !.labels = "instance" :> <<"A">> @@ "extra" :> <<"a">>,
                     !.args = <<Joined(<<"A">>), Flag, Text(<<"A">>)>>,
                     !.mount = "elsewhere", !.shadowed = TRUE, !.restart = "Always"] }
=============================================================================
