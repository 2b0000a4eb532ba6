---------------------------- MODULE WritePolicy ----------------------------
(***************************************************************************)
(* What a text submitted as a memory becomes (core/policy).  It is cleaned *)
(* of what the engine itself and the host have put around it, and then     *)
(* accepted with a type, a lifecycle and scores, or refused.               *)
(*                                                                         *)
(* A text is known by its length once cleaned (left), by the families of   *)
(* patterns found in it (signs), and by what it says about whom.  With it  *)
(* come, perhaps, a type, a lifecycle, how explicit it is and the kind of  *)
(* its source (given).                                                     *)
(***************************************************************************)
EXTENDS Sequences, SequencesExt

\* sanitizeContent: what is wrapped in the engine's own blocks is nothing.
Stripped(text) == IF text.wrapped THEN [text EXCEPT !.left = "nothing"] ELSE text

\* inferType: the first of these that is found, unless one is given.
TypeFamilies == <<"identity", "preference", "decision", "constraint", "commitment">>

TypeOf(text, given) ==
    LET found == SelectSeq(TypeFamilies, LAMBDA family : family \in text.signs)
    IN IF given.type # "none" THEN given.type ELSE IF found = <<>> THEN "fact" ELSE Head(found)

LifecycleOf(type, given) ==
    IF given.lifecycle # "none" THEN given.lifecycle
    ELSE IF type \in {"identity", "preference", "constraint", "decision"} THEN "semantic"
    ELSE "episodic"

\* resolveScore: without a score of its own a text is explicit enough for the
\* profile; one out of range throws.
Explicitness(given) == IF given.explicitness = "none" THEN "high" ELSE given.explicitness

Verdict(text, given) ==
    CASE text.left = "nothing" -> "empty_content"
      [] text.left = "long" -> "content_too_long"
      [] text.left = "short" \/ (text.left = "fit" /\ "low_value" \in text.signs) -> "low_value_chatter"
      [] OTHER -> IF given.explicitness = "invalid" THEN "throws" ELSE "accepted"

\* evaluateWrite: the decision about a text, if it is accepted.
Decisions(text, given) ==
    LET type == TypeOf(Stripped(text), given)
    IN IF Verdict(Stripped(text), given) # "accepted" THEN {}
       ELSE {[type |-> type, lifecycle |-> LifecycleOf(type, given), explicitness |-> Explicitness(given)]}
=============================================================================
