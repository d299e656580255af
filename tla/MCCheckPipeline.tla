--------------------------- MODULE MCCheckPipeline --------------------------
\* Projects of three files for CheckPipeline.  Names are "m" and "n".
EXTENDS CheckPipeline

Blank == [kind |-> "good", rebinds |-> {}, calls |-> <<>>, weight |-> 0,
          reports |-> <<>>, tyFails |-> FALSE, covered |-> {}, named |-> {}]
Call(line, name) == [line |-> line, name |-> name]

Skipped == [Blank EXCEPT !.kind = "skipped"]
Failing == [Blank EXCEPT !.kind = "failing"]
Rebinds == [Blank EXCEPT !.rebinds = {"m"}, !.calls = <<Call(2, "n")>>]
\* Two calls that begin at one place, and one of them for ty.
Chained == [Blank EXCEPT !.calls = <<Call(1, "n"), Call(2, "m")>>, !.weight = 1,
                         !.reports = <<1>>]
\* A directive that only ty's answer uses, and one that nothing does.
Silenced == [Blank EXCEPT !.calls = <<Call(2, "n")>>, !.weight = 2,
                          !.reports = <<1>>, !.covered = {1, 3}, !.named = {1, 3}]
\* A directive before a diagnostic that only suppresses a rebound method.
Stale == [Blank EXCEPT !.calls = <<Call(1, "m"), Call(3, "n")>>, !.covered = {1},
                       !.named = {1}]
FailsTy == [Blank EXCEPT !.weight = 3, !.tyFails = TRUE]

Projects ==
    {<<a, b, c>> : a \in {Chained, Silenced, Skipped, FailsTy},
                   b \in {Stale, Silenced, Failing, Skipped},
                   c \in {Rebinds, Chained, Skipped}}
    \cup {<<Chained, Silenced, a, Rebinds>> : a \in {Chained, FailsTy, Stale}}
=============================================================================
