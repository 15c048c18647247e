------------------------------- MODULE MCScrubber -------------------------------
(* Numbers of every length a recognizer knows, with every choice of at most three
   marks at the places most recognizers look at, and the places of the others. *)
EXTENDS Scrubber, TLC

MCNumbers == {
    <<0, 4, 6, 4, 5, 4, 2, 8, 6>>,          \* a valid SIN
    <<1, 2, 3, 1, 4, 2, 5, 1, 5>>,          \* another
    <<1, 2, 3, 4, 5, 6, 7, 8, 9>>,          \* nine digits that are none
    <<8, 0, 0, 0, 0, 0, 0, 0, 2>>,          \* a valid checksum, but reserved
    <<9, 8, 7, 6, 5, 4, 3, 2, 1, 0>>,       \* a health number
    <<2, 5, 0, 3, 4, 4, 0, 0, 0, 0>>,       \* a phone number
    <<1, 2, 5, 0, 3, 4, 4, 0, 0, 0, 0>>,
    <<7, 5, 0, 1, 0, 3, 1, 2>>,             \* eight digits
    <<2, 1, 4, 3, 0, 6, 0, 0, 1, 2, 5, 0, 0, 0, 0>>}   \* a long folio number

MCCuts == UNION {[at -> {"dash", "space", "dot"}] :
                 at \in {s \in SUBSET {3, 4, 6, 7} : Cardinality(s) <= 3} \cup {{1}, {5}, {2, 5}, {1, 4, 7}}}
MCTexts == {[digits |-> n, cuts |-> c, before |-> 0, after |-> 0] : n \in MCNumbers, c \in MCCuts}
           \cup {[digits |-> n, cuts |-> c, before |-> b, after |-> a] :
                 n \in MCNumbers, b \in {0, 4}, a \in {0, 2},
                 c \in {f \in MCCuts : DOMAIN f = {} \/ DOMAIN f = {3, 6} \/ DOMAIN f = {4}}}
MCFragile == {[digits |-> <<0, 4, 6, 4, 5, 4, 2, 8, 6>>, cuts |-> [i \in {3, 6} |-> "dash"],
               before |-> 0, after |-> 0]}
(* The rule of the repository's file that is about digits, one that is disabled, and one that does not
   compile. *)
MCRules == {
    [enabled |-> TRUE, compiles |-> TRUE, pattern |-> Pattern("FOLIO_NUMBER", 70, 9, {3, 6}, {"dash"})],
    [enabled |-> FALSE, compiles |-> TRUE, pattern |-> Pattern("DISABLED", 70, 8, {}, {})],
    [enabled |-> TRUE, compiles |-> FALSE, pattern |-> Pattern("BROKEN", 70, 9, {}, {})]}
(* In a SIN the French model sees a name; the rest it leaves to the English one. *)
MCFrench(t) == IF t \in MCFragile THEN {[entity |-> "PERSON", score |-> 85]} ELSE {}

(* Payloads as requests have them: the text alone, as a key, as a number if it is
   one, and at several depths. *)
IsNumeral(t) == t.cuts = <<>> /\ t.before = 0 /\ t.after = 0 /\ t.digits[1] # 0
MCPayloadsOf(t) ==
    {<<>> :> String(t), <<>> :> Object(<<t>>) @@ <<1>> :> Scalar(null)}
    \cup {<<>> :> Object(<<null>>) @@ <<1>> :> Scalar(u) : u \in {v \in {t} : IsNumeral(v)}}
    \cup {<<>> :> Object(<<null, null>>)
            @@ <<1>> :> String(t)
            @@ <<2>> :> List(2)
               @@ <<2, 1>> :> Object(<<null, null>>)
                  @@ <<2, 1, 1>> :> Scalar(null)
                  @@ <<2, 1, 2>> :> String(t)
               @@ <<2, 2>> :> List(2)
                  @@ <<2, 2, 1>> :> String(t)
                  @@ <<2, 2, 2>> :> List(1)
                     @@ <<2, 2, 2, 1>> :> String(t)}
MCPayloads == UNION {MCPayloadsOf(t) : t \in MCTexts}
================================================================================
