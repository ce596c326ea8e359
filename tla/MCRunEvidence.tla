--------------------------- MODULE MCRunEvidence ----------------------------
(* Instances of RunEvidence for TLC: every kind of captured row under every *)
(* setting, left alone; and a few runs with requests and edits.             *)
EXTENDS RunEvidence, TLC

CONSTANTS q1, q2, yes, no

TwoRequests == {q1, q2}
TwoValues   == {yes, no}

CaseOf(id) == [id |-> id, expected |-> yes]

Setting(raw, responses, evaluator, gate) ==
    [raw |-> raw, responses |-> responses, prompts |-> responses, evaluator |-> evaluator,
     gate |-> gate]

Made(setting, ids, baseline, candidate, answer) ==
    [setting |-> setting, dataset |-> [i \in DOMAIN ids |-> CaseOf(ids[i])],
     schema |-> Values,
     captured |-> [v \in Variants |-> IF v = "baseline" THEN baseline ELSE candidate],
     answers |-> [v \in Variants |-> [i \in DOMAIN ids |-> answer]]]

Says(id, v) == Row(id, "ok", v, None, None, {"prompt"})

\* The rows an adapter may return for a case.
Captured(id) ==
    {Says(id, v) : v \in Values \cup {Garbled}}
    \cup {Row(id, "ok", None, v, None, {}) : v \in Values}
    \cup {Row(id, "ok", yes, yes, None, {}), MissingRow(id),
          Row(id, "error", None, None, "echoed", {"response"}),
          Row(id, "error", None, None, "failed", {})}

Answers3 == {"passed", "failed", "error"}

\* One case under every setting, and no edits.
LeftAlone ==
    \E raw, responses \in BOOLEAN, b, c \in Captured("c1"), evaluator \in {None, "program"} :
    \E answer \in IF evaluator = None THEN {"not_applicable"} ELSE Answers3 :
        InitFrom(Made(Setting(raw, responses, evaluator, "release"), <<"c1">>, <<b>>, <<c>>,
                      answer), MaxEdits, <<>>)

\* An authorized run with an external evaluator, and one request.
Authorized ==
    \E kind \in Kinds :
        InitFrom(Made(Setting(TRUE, FALSE, "program", "release"), <<"c1", "c2">>,
                      <<Says("c1", yes), Says("c2", no)>>,
                      <<Says("c1", yes), Says("c2", Garbled)>>, "passed"), 0,
                 [q \in {q1} |-> kind])

\* An advisory run, and two requests that use what the other leaves; those
\* that only meet a deletion see one edit more.
Watched == {<<"open", "list">>, <<"page", "page">>, <<"release_check", "delete">>}
Deleted == {<<"open", "open">>, <<"page", "delete">>, <<"open", "delete">>}

Advisory ==
    \E pair \in Watched \cup Deleted :
        InitFrom(Made(Setting(TRUE, FALSE, None, "advisory"), <<"c1">>, <<Says("c1", yes)>>,
                      <<Says("c1", yes)>>, "not_applicable"),
                 IF pair \in Watched THEN 0 ELSE MaxEdits - 1,
                 [q \in Requests |-> IF q = q1 THEN pair[1] ELSE pair[2]])

Spec == (LeftAlone \/ Authorized \/ Advisory) /\ [][Next]_vars

=============================================================================
