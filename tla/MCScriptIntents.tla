--------------------------- MODULE MCScriptIntents ---------------------------
(* Instances of ScriptIntents for TLC. *)
EXTENDS ScriptIntents, TLC

Line(kind) == [kind |-> kind, no |-> 0, empty |-> FALSE]
Numbered(n) == [kind |-> "explicit", no |-> n, empty |-> FALSE]

\* Paragraphs 1, 2 and 1 again.
TwiceNumbered ==
  << Line("heading"), Numbered(1), Line("heading"), Numbered(2), Numbered(1) >>
WellNumbered == << Line("heading"), Line("plain"), Line("word"), Numbered(3) >>

Session(script, desktop, workers, failFast, limit) ==
  [script |-> script, desktop |-> desktop, workers |-> workers,
   failFast |-> failFast, limit |-> limit]

Desktop == {Session(s, TRUE, 1, FALSE, 9) : s \in {TwiceNumbered, WellNumbered}}

\* Scripts that are refused: two with issues, one without paragraphs.
RefusedScripts ==
  { TwiceNumbered, << Line("heading") >>,
    << [kind |-> "explicit", no |-> 1, empty |-> TRUE] >> }

CommandLine ==
  {Session(WellNumbered, FALSE, w, f, n) : w \in {1, 2}, f \in BOOLEAN, n \in {2, 9}}
    \cup {Session(s, FALSE, 2, FALSE, 9) : s \in RefusedScripts}

AllSessions == Desktop \cup CommandLine
=============================================================================
