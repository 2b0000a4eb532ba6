-------------------------- MODULE IntentAnalysis --------------------------
(***************************************************************************)
(* What a message is taken for (core/intent): patterns found in its text   *)
(* say its intent, and the intent says how much of the memory an answer    *)
(* needs, and of which kinds.  A model that enriches the analysis may      *)
(* replace any part of it.  A text is known by the families of patterns    *)
(* found in it (signs); urgency, tone and the scores are left out.         *)
(***************************************************************************)
EXTENDS Sequences, SequencesExt

\* inferIntentType: the first of these that is found.
Families == <<"correction", "preference", "status_update", "planning", "instruction", "question">>

IntentType(signs) ==
    LET found == {i \in DOMAIN Families : Families[i] \in signs}
    IN IF found = {} THEN "other" ELSE Families[Min(found)]

\* inferMemoryNeed: "cue" is a word about what was before.
MemoryNeed(type, signs) ==
    CASE type = "status_update" -> "deep"
      [] type = "planning" -> IF "cue" \in signs THEN "deep" ELSE "targeted"
      [] type \in {"correction", "preference"} -> "targeted"
      [] type \in {"instruction", "question", "other"} ->
            IF "cue" \in signs THEN "targeted" ELSE IF type = "other" THEN "none" ELSE "light"

\* inferPreferredTypes.
PreferredTypes(type) ==
    CASE type = "preference" -> {"preference", "style", "constraint"}
      [] type = "planning" -> {"project", "task", "decision", "constraint"}
      [] type = "status_update" -> {"project", "decision", "task", "summary", "constraint"}
      [] type = "correction" -> {"decision", "constraint", "fact"}
      [] type = "instruction" -> {"task", "constraint", "decision"}
      [] type = "question" -> {"fact", "summary"}
      [] OTHER -> {"fact"}

\* analyzeIntentHeuristics.
Heuristics(signs) ==
    LET type == IntentType(signs)
    IN [type |-> type, need |-> MemoryNeed(type, signs), types |-> PreferredTypes(type)]

\* parseIntentEnrichment: what of an answer is one of the known values.
Usable(answer) ==
    LET usable(part) ==
          CASE part = "type" -> answer[part] \in ToSet(Families) \cup {"other"}
            [] part = "need" -> answer[part] \in {"none", "light", "targeted", "deep"}
            [] OTHER -> TRUE
    IN [part \in {p \in DOMAIN answer : usable(p)} |-> answer[part]]

\* What the analyzer gives: nothing (there is none, or it is not to be used),
\* an answer, or a failure (it throws, or what it says is empty or no JSON).
Unused == [kind |-> "unused"]
Failed == [kind |-> "failed"]
Answered(parts) == [kind |-> "answered", parts |-> parts]

\* What is usable of an answer replaces that part of the intent.
Enriched(intent, parts) ==
    [part \in DOMAIN intent |-> IF part \in DOMAIN parts THEN parts[part] ELSE intent[part]]

\* Whatever it may give.
Enrichment ==
    {Unused, Failed} \cup
    {Answered(parts) : parts \in UNION {[fields -> STRING \cup SUBSET STRING] :
                                          fields \in SUBSET {"type", "need", "types"}}}

\* analyze: the need and the types of an answer that replaces only the intent
\* stay those of the heuristics.  Without the fallback a failure throws, and
\* nothing is recorded.
Analyzed(signs, enrichment, fallback) ==
    CASE enrichment.kind = "unused" -> {Heuristics(signs)}
      [] enrichment.kind = "failed" -> IF fallback THEN {Heuristics(signs)} ELSE {}
      [] enrichment.kind = "answered" -> {Enriched(Heuristics(signs), Usable(enrichment.parts))}
=============================================================================
