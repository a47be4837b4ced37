----------------------------- MODULE ScriptIntents -----------------------------
(***************************************************************************)
(* From a script to the intents of its paragraphs: the import of a DOCX     *)
(* (ingest_script_docx), the intents made without a model at the import     *)
(* (bootstrap_document), those a model is asked for (extract_document), in   *)
(* the desktop for a saved project and on the command line for a script,    *)
(* and the edits of the operator.                                           *)
(*                                                                         *)
(* The command line asks for several paragraphs at once; the desktop for    *)
(* one after the other, and nothing else of the window runs meanwhile. The   *)
(* results are put together by the number of a paragraph, which two          *)
(* paragraphs of a badly numbered script may share. A text is the line it    *)
(* stands on; an intent is the line it is about and who it comes from.       *)
(***************************************************************************)
EXTENDS Naturals, Sequences, FiniteSets

CONSTANTS
  None, Torn,
  Plans,      \* the sessions to look at
  Attempts,   \* format_retries + 1
  Calls       \* stop_after_attempt of _generate_intent_raw

\* A line is a heading, plain, numbered by Word, or "no. text", maybe with no text.
LineType == [kind : {"heading", "plain", "word", "explicit"}, no : Nat,
             empty : BOOLEAN]

\* desktop: the window, else the command line with its --workers, --fail-fast and
\* --max-paragraphs.
PlanType == [script : Seq(LineType), desktop : BOOLEAN, workers : Nat \ {0},
             failFast : BOOLEAN, limit : Nat \ {0}]

ASSUME PlansAssumption == Plans \subseteq PlanType
ASSUME CountsAssumption == Attempts \in Nat \ {0} /\ Calls \in Nat \ {0}

-----------------------------------------------------------------------------
(* Ingestion.                                                              *)

\* expected_number: one more than the last paragraph's, whatever that was.
Expected(d) == IF d = <<>> THEN 1 ELSE d[Len(d)].no + 1

\* What a line makes of the paragraphs before it. Issues are recorded and the
\* paragraph is kept as it is numbered.
WithLine(d, s, k) ==
  IF s[k].kind = "heading" THEN d
  ELSE Append(d, [no |-> IF s[k].kind = "explicit" THEN s[k].no ELSE Expected(d),
                  text |-> k, by |-> "none", of |-> k])

\* The loop over the lines: the paragraphs after each of them.
Read(s) ==
  LET read[k \in 0..Len(s)] ==
        IF k = 0 THEN <<>> ELSE WithLine(read[k - 1], s, k)
  IN  read

Ingested(s) == Read(s)[Len(s)]

Issues(s) ==
  {k \in 1..Len(s) : /\ s[k].kind = "explicit"
                     /\ s[k].no # Expected(Read(s)[k - 1]) \/ s[k].empty}

\* _finalize_intent completes the words of an intent from the text.
About(r, text, by) == [r EXCEPT !.by = by, !.of = text]

FromText(r) == About(r, r.text, "text")
FromModel(r) == About(r, r.text, "model")

\* bootstrap_document: what has no intent gets one from its text.
Bootstrapped(d) ==
  [p \in DOMAIN d |-> IF d[p].by = "none" THEN FromText(d[p]) ELSE d[p]]

-----------------------------------------------------------------------------
VARIABLES
  plan,      \* constant: the session
  pc,        \* "idle", "ask", "save", and how the command line ends
  doc,       \* the document in memory
  project,   \* project.json, or None
  output,    \* the output of the command line, None or Torn (half written)
  task,      \* where process_one is for each paragraph of doc
  attempt,   \* the answers it has asked for
  call,      \* the calls of the model for the present one
  results    \* the paragraphs whose result was collected, in that order

vars == <<plan, pc, doc, project, output, task, attempt, call, results>>

work == <<task, attempt, call, results>>
files == <<project, output>>

Script == plan.script
Working == {t \in DOMAIN task : task[t] = "asking"}

Init ==
  /\ plan \in Plans
  /\ pc = "idle" /\ doc = <<>> /\ project = None /\ output = None
  /\ task = <<>> /\ attempt = <<>> /\ call = <<>> /\ results = <<>>

-----------------------------------------------------------------------------
(* The desktop.                                                            *)

\* create_project: issues of the numbering do not refuse the import.
OpenScript ==
  /\ plan.desktop /\ pc = "idle" /\ project = None
  /\ project' = Bootstrapped(Ingested(Script))
  /\ UNCHANGED <<plan, pc, doc, output, work>>

FirstNumbered(d, no) ==
  CHOOSE p \in DOMAIN d :
    d[p].no = no /\ \A q \in DOMAIN d : d[q].no = no => p <= q

\* update_paragraph_queries: the first paragraph with the number is edited.
Edit(p) ==
  /\ plan.desktop /\ pc = "idle" /\ project # None
  /\ p \in DOMAIN project
  /\ project' = [project EXCEPT ![FirstNumbered(project, project[p].no)] =
                    About(@, project[p].text, "user")]
  /\ UNCHANGED <<plan, pc, doc, output, work>>

Ask(d) ==
  /\ doc' = d
  /\ task' = [p \in DOMAIN d |-> "queued"]
  /\ attempt' = [p \in DOMAIN d |-> 1]
  /\ call' = [p \in DOMAIN d |-> 1]
  /\ results' = <<>>
  /\ pc' = "ask"

\* enrich_project_intents loads the project; a missing key raises before that.
Enrich ==
  /\ plan.desktop /\ pc = "idle" /\ project # None
  /\ Ask(project)
  /\ UNCHANGED <<plan, files>>

\* An error is shown; the window is back, and what was in memory is dropped.
Back ==
  /\ pc' = "idle" /\ doc' = <<>>
  /\ task' = <<>> /\ attempt' = <<>> /\ call' = <<>> /\ results' = <<>>

-----------------------------------------------------------------------------
(* The command line.                                                       *)

Refused == Issues(Script) # {} \/ Ingested(Script) = <<>>

\* A script with issues is refused, then --max-paragraphs are taken.
Extract ==
  /\ ~plan.desktop /\ pc = "idle" /\ ~Refused
  /\ LET d == Ingested(Script)
     IN  Ask(SubSeq(d, 1, IF plan.limit < Len(d) THEN plan.limit ELSE Len(d)))
  /\ UNCHANGED <<plan, files>>

Refuse ==
  /\ ~plan.desktop /\ pc = "idle" /\ Refused
  /\ pc' = "refused"
  /\ UNCHANGED <<plan, doc, files, work>>

-----------------------------------------------------------------------------
(* extract_document.                                                       *)

\* The pool takes the oldest paragraph; one worker is a plain loop.
Begin(t) ==
  /\ pc = "ask" /\ task[t] = "queued"
  /\ \A u \in DOMAIN task : u < t => task[u] # "queued"
  /\ Cardinality(Working) < plan.workers
  /\ plan.workers = 1 => Len(results) = t - 1
  /\ task' = [task EXCEPT ![t] = "asking"]
  /\ UNCHANGED <<plan, pc, doc, files, attempt, call, results>>

\* The answer is an intent with the queries of its providers.
Answer(t) ==
  /\ task[t] = "asking"
  /\ task' = [task EXCEPT ![t] = "answered"]
  /\ UNCHANGED <<plan, pc, doc, files, attempt, call, results>>

\* It is none: the same prompt is sent again, until the last attempt fails.
BadAnswer(t) ==
  /\ task[t] = "asking"
  /\ IF attempt[t] < Attempts
     THEN /\ attempt' = [attempt EXCEPT ![t] = @ + 1]
          /\ call' = [call EXCEPT ![t] = 1]
          /\ UNCHANGED task
     ELSE task' = [task EXCEPT ![t] = "failed"] /\ UNCHANGED <<attempt, call>>
  /\ UNCHANGED <<plan, pc, doc, files, results>>

\* A transient error of the model is tried again; the last one ends the paragraph.
Transient(t) ==
  /\ task[t] = "asking"
  /\ IF call[t] < Calls
     THEN call' = [call EXCEPT ![t] = @ + 1] /\ UNCHANGED task
     ELSE task' = [task EXCEPT ![t] = "failed"] /\ UNCHANGED call
  /\ UNCHANGED <<plan, pc, doc, files, attempt, results>>

\* Any other error of the model ends the paragraph at once.
CallFails(t) ==
  /\ task[t] = "asking"
  /\ task' = [task EXCEPT ![t] = "failed"]
  /\ UNCHANGED <<plan, pc, doc, files, attempt, call, results>>

Collected == {results[n] : n \in 1..Len(results)}

\* as_completed. process_one returns its error, so that nothing is cancelled here.
Collect(t) ==
  /\ pc = "ask" /\ task[t] \in {"answered", "failed"} /\ t \notin Collected
  /\ results' = Append(results, t)
  /\ UNCHANGED <<plan, pc, doc, files, task, attempt, call>>

BugResult(t) ==
  IF task[t] = "answered" THEN FromModel(doc[t]) ELSE [doc[t] EXCEPT !.by = "none"]

\* The paragraph process_one returns: a copy, with the intent if there was one.
Result(t) == IF task[t] = "answered" THEN FromModel(doc[t]) ELSE doc[t]

\* The last result collected for a number is the one that is kept for it.
Kept(no) ==
  LET n == CHOOSE n \in 1..Len(results) :
             /\ doc[results[n]].no = no
             /\ \A m \in 1..Len(results) : doc[results[m]].no = no => m <= n
  IN  results[n]

\* Only a paragraph that has no intent counts as an error.
InError == {t \in DOMAIN doc : Result(t).by = "none"}

BugRaises == FALSE

Raises == plan.failFast /\ InError # {}

BugAssemble == [p \in DOMAIN doc |-> Result(results[p])]

Assemble == [p \in DOMAIN doc |-> Result(Kept(doc[p].no))]

\* All results are in: the document gets its new paragraphs, or the error is raised.
Apply ==
  /\ pc = "ask" /\ Len(results) = Len(doc)
  /\ IF Raises THEN pc' = "raised" /\ UNCHANGED doc
     ELSE pc' = "save" /\ doc' = Assemble
  /\ UNCHANGED <<plan, files, work>>

\* write_json replaces the file in one piece, or leaves it and removes its own.
SaveProject ==
  /\ plan.desktop /\ pc = "save"
  /\ project' = doc
  /\ Back
  /\ UNCHANGED <<plan, output>>

SaveProjectFails ==
  /\ plan.desktop /\ pc = "save"
  /\ Back
  /\ UNCHANGED <<plan, files>>

\* save_intents_json writes its file in place.
WriteOutput ==
  /\ ~plan.desktop /\ pc = "save"
  /\ output' = doc /\ pc' = "done"
  /\ UNCHANGED <<plan, doc, project, work>>

WriteFails ==
  /\ ~plan.desktop /\ pc = "save"
  /\ output' \in {output, Torn} /\ pc' = "raised"
  /\ UNCHANGED <<plan, doc, project, work>>

Terminated == pc \in {"refused", "raised", "done"} /\ UNCHANGED vars

Paragraph(t) ==
  \/ Begin(t) \/ Answer(t) \/ BadAnswer(t) \/ Transient(t) \/ CallFails(t)
  \/ Collect(t)

Next ==
  \/ OpenScript \/ Enrich \/ Extract \/ Refuse
  \/ project # None /\ \E p \in DOMAIN project : Edit(p)
  \/ \E t \in DOMAIN task : Paragraph(t)
  \/ Apply \/ SaveProject \/ SaveProjectFails \/ WriteOutput \/ WriteFails
  \/ Terminated

Spec == Init /\ [][Next]_vars

-----------------------------------------------------------------------------
(* Properties.                                                             *)

Alone(d, p) == \A q \in DOMAIN d : d[q].no = d[p].no => q = p

\* In whatever order the answers come, what is saved of a project and what the
\* command line writes have every paragraph of the script at its place, with its
\* own text and an intent about that text: always on the command line, and in a
\* project for the paragraphs that share their number with no other.
EveryParagraphItsOwn ==
  LET whole == Ingested(Script)
      inPlace(d, p) == d[p].text = whole[p].text /\ d[p].of = whole[p].text
  IN  /\ project # None =>
           /\ Len(project) = Len(whole)
           /\ \A p \in DOMAIN whole : project[p].no = whole[p].no
           /\ \A p \in DOMAIN whole : Alone(whole, p) => inPlace(project, p)
      /\ output \notin {None, Torn} =>
           \A p \in DOMAIN output : inPlace(output, p) /\ output[p].no = p

\* A paragraph of a project never loses its intent, an enrichment changes only the
\* paragraphs the model answered, and what the operator wrote gives way to the
\* model or to another edit alone.
FailuresKeepIntents ==
  [][project # None =>
       \A p \in DOMAIN project : Alone(project, p) =>
         /\ project'[p].by # "none"
         /\ project'[p] # project[p] /\ pc = "save" => task[p] = "answered"
         /\ project[p].by = "user" => project'[p].by \in {"user", "model"}]_vars

\* With --fail-fast the output has an intent for every paragraph, or it is not
\* touched; and the command line raises for a paragraph without an intent under
\* that option only, or when all was there and the output could not be written.
FailFastIsAllOrNothing ==
  /\ plan.failFast /\ output \notin {None, Torn} =>
       \A p \in DOMAIN output : output[p].by = "model"
  /\ pc = "raised" =>
       \/ plan.failFast /\ output = None /\ \E t \in DOMAIN task : task[t] = "failed"
       \/ \A t \in DOMAIN doc : doc[t].by = "model" <=> task[t] = "answered"

=============================================================================
