-------------------------------- MODULE Scrubber --------------------------------
(***************************************************************************)
(* What _scrub_payload of gateway/main.py does to a JSON payload, with the *)
(* recognizers of gateway/scrubber.py that look for numbers.               *)
(*                                                                         *)
(* A text is one number that somebody wrote: its digits, and the marks     *)
(* between them.  What the recognizers for postal codes, addresses, case   *)
(* numbers, names and e-mail find is not modelled, nor are numbers inside  *)
(* of longer ones and the score a word of context may add.  Of the         *)
(* findings of one text Presidio replaces the one that contains the        *)
(* others, and of several with one span that with the highest score.       *)
(*                                                                         *)
(* The module is made to be extended beside GatewayProxy, whose handler    *)
(* calls this code.                                                        *)
(***************************************************************************)
EXTENDS Integers, FiniteSets, Sequences, Functions

CONSTANTS Payloads,    \* JSON values to walk
          Fragile,     \* texts on which the analyzer may raise an exception
          scrubbing_rules, \* the rules of scrubbing_rules.yaml
          French(_),   \* French(t): what the French model finds in t, {} if disabled
          null         \* any key or scalar that tells nothing

VARIABLES payload,     \* the JSON value
          mode,        \* SCRUBBER_FAILURE_MODE
          failing,     \* texts on which the analyzer does raise one
          todo,        \* parts of it _walk is still to be called on, the next one first
          cleaned,     \* what has been built of the cleaned value
          raised,      \* HTTPException 503 was raised
          detections   \* how many

walkVars == <<payload, mode, failing, todo, cleaned, raised, detections>>

(* A text: digits, cuts[i] the mark after digit i, letters that stand right
   before or after the digits. *)
IsText(t) ==
    /\ t = [digits |-> t.digits, cuts |-> t.cuts, before |-> t.before, after |-> t.after]
    /\ t.digits \in Seq(0..9)
    /\ DOMAIN t.cuts \subseteq 1..(Len(t.digits) - 1)
    /\ t.before \in Nat /\ t.after \in Nat

(* A JSON value is a function from paths to nodes: the root is at <<>>, and the
   i-th item of the list or object at p is at Append(p, i). *)
String(t) == [kind |-> "string", text |-> t]
Scalar(t) == [kind |-> "scalar", text |-> t]
List(n) == [kind |-> "list", items |-> n]
Object(keys) == [kind |-> "object", items |-> Len(keys), keys |-> keys]

Items(node) == IF node.kind \in {"list", "object"} THEN node.items ELSE 0

IsNode(node) ==
    \/ node.kind = "string" /\ node = String(node.text) /\ IsText(node.text)
    \/ node.kind = "scalar" /\ node = Scalar(node.text)
    \/ node.kind = "list"   /\ node = List(node.items) /\ node.items \in Nat
    \/ node.kind = "object" /\ node = Object(node.keys) /\ node.items \in Nat

IsTree(obj) ==
    /\ DOMAIN obj \subseteq Seq(Nat) /\ <<>> \in DOMAIN obj
    /\ \A p \in DOMAIN obj :
          /\ IsNode(obj[p])
          /\ \A i \in 1..Items(obj[p]) : Append(p, i) \in DOMAIN obj
          /\ \A n \in 1..Len(p) : LET above == SubSeq(p, 1, n - 1)
                                 IN  above \in DOMAIN obj /\ p[n] \in 1..Items(obj[above])

StringsOf(obj) == {p \in DOMAIN obj : obj[p].kind = "string"}

ASSUME PayloadAssumption == \A obj \in Payloads : IsTree(obj)
(* _load_custom_rules makes every rule a Pattern of score 0.7. *)
ASSUME RulesAssumption == \A rule \in scrubbing_rules : rule.pattern.score = 70
(* In French only the named entities of the language model are found, at 0.85;
   the full score is for what a recognizer has validated. *)
ASSUME FrenchAssumption ==
    \A obj \in Payloads : \A p \in StringsOf(obj) : \A f \in French(obj[p].text) : f.score \in 0..99

-------------------------------------------------------------------------------
(* Faulty variant: two digits above nine are not added up. *)
Doubled_Plain(n) == 2 * n

Doubled(n) == IF 2 * n > 9 THEN 2 * n - 9 ELSE 2 * n

(* Every second digit is doubled, counted from the right. *)
Weighted(digits) ==
    LET n == Len(digits)
    IN  [i \in 1..n |-> IF (n - i) % 2 = 1 THEN Doubled(digits[i]) ELSE digits[i]]

_luhn_valid(digits) == SumFunction(Weighted(digits)) % 10 = 0

(* A pattern: how many digits, after which of them a mark must (or may) stand,
   which marks, what the first digit may be, how many letters may stand right
   before and after: none where the expression has a word boundary. *)
Pattern(entity, score, digits, at, marks) ==
    [entity |-> entity, score |-> score, digits |-> digits, at |-> at, marks |-> marks,
     optional |-> FALSE, first |-> 0..9, before |-> {0}, after |-> {0}]

SinPatterns == {Pattern("CA_SIN", 60, 9, {3, 6}, {mark}) : mark \in {"dash", "space"}}
BcPhnPatterns ==
    {[Pattern("CA_BC_PHN", 60, 10, {4, 7}, {"dash", "space"}) EXCEPT !.optional = TRUE, !.first = {9}]}
AlbertaPhnPatterns == {Pattern("CA_AB_PHN", 30, 9, {}, {})}
OntarioPatterns == {[Pattern("CA_ON_OHIP", 40, 10, {}, {}) EXCEPT !.after = {0, 2}]}
QuebecPatterns ==
    {[Pattern("CA_QC_RAMQ", 40, 8, {4}, {"space"}) EXCEPT !.optional = TRUE, !.before = {4}]}
ParcelPatterns == {Pattern("CA_PID", 40, 9, {3, 6}, {"dash"})}
FolioPatterns ==
    {Pattern("CA_FOLIO", 40, 10, {4, 7}, {"dash"}), Pattern("CA_FOLIO", 40, 8, {5}, {"dash"}),
     [Pattern("CA_FOLIO", 40, 15, {2, 5, 8, 11}, {"dash", "dot"}) EXCEPT !.optional = TRUE]}
PhonePatterns ==
    {[Pattern("CA_PHONE_NUMBER", 50, 10, {3, 6}, {"dash", "dot", "space"})
        EXCEPT !.optional = TRUE, !.before = Nat, !.after = Nat],
     [Pattern("CA_PHONE_NUMBER", 50, 11, {1, 4, 7}, {"dash", "dot", "space"})
        EXCEPT !.optional = TRUE, !.first = {1}, !.before = Nat, !.after = Nat]}

(* _load_custom_rules: those that are enabled and compile. *)
CustomPatterns == {rule.pattern : rule \in {r \in scrubbing_rules : r.enabled /\ r.compiles}}

Patterns == UNION {SinPatterns, BcPhnPatterns, AlbertaPhnPatterns, OntarioPatterns,
                   QuebecPatterns, ParcelPatterns, FolioPatterns, PhonePatterns,
                   CustomPatterns}

Matches(p, t) ==
    /\ Len(t.digits) = p.digits /\ t.digits[1] \in p.first
    /\ t.before \in p.before /\ t.after \in p.after
    /\ IF p.optional THEN DOMAIN t.cuts \subseteq p.at ELSE DOMAIN t.cuts = p.at
    /\ \A i \in DOMAIN t.cuts : t.cuts[i] \in p.marks

(* SinRecognizer.validate_result: a SIN that is none scores nothing, a valid one
   the full score.  The other recognizers have no such check. *)
Score(p, t) ==
    IF p \notin SinPatterns THEN p.score
    ELSE IF t.digits[1] # 8 /\ _luhn_valid(t.digits) THEN 100 ELSE 0

(* Faulty variant: a score must exceed the threshold. *)
Findings_Above(t) ==
    {[entity |-> p.entity, score |-> Score(p, t)] :
        p \in {q \in Patterns : Matches(q, t) /\ Score(q, t) > 30}}

(* score_threshold = 0.3. *)
Findings(t) ==
    {[entity |-> p.entity, score |-> Score(p, t)] :
        p \in {q \in Patterns : Matches(q, t) /\ Score(q, t) >= 30}}

(* The findings of both languages; of one span and type only the English one. *)
Results(t) ==
    Findings(t) \cup {f \in French(t) : \A g \in Findings(t) : g.entity # f.entity}

(* All findings take in the letters beside the digits, except that a phone number
   ends where the digits do. *)
Widest(t) ==
    LET wide == {f \in Results(t) : f.entity # "CA_PHONE_NUMBER"}
    IN  IF t.before + t.after > 0 /\ wide # {} THEN wide ELSE Results(t)

(* The text scrub returns: a placeholder, or the text itself. *)
scrub(t) ==
    IF Results(t) = {} THEN t
    ELSE [placeholder |-> (CHOOSE f \in Widest(t) :
                              \A g \in Widest(t) : g.score <= f.score).entity]

-------------------------------------------------------------------------------
(* The next call of _walk, and what it returns or begins to build. *)
At == Head(todo)
Visits(kind) == todo # <<>> /\ payload[At].kind = kind
Put(node) == cleaned' = [p \in DOMAIN cleaned \cup {At} |-> IF p = At THEN node ELSE cleaned[p]]
WalkOnly == UNCHANGED <<payload, mode, failing>>

WalkInit ==
    /\ payload \in Payloads
    /\ mode \in {"fail_closed", "fail_open"}
    /\ failing \in SUBSET Fragile
    /\ todo = << <<>> >> /\ cleaned = <<>> /\ raised = FALSE /\ detections = 0

WalkString ==
    /\ Visits("string") /\ payload[At].text \notin failing
    /\ Put(String(scrub(payload[At].text)))
    /\ detections' = detections + Cardinality(Results(payload[At].text))
    /\ todo' = Tail(todo)
    /\ WalkOnly /\ UNCHANGED raised

(* The analyzer raises an exception: the string stays, or the walk ends. *)
WalkFails ==
    /\ Visits("string") /\ payload[At].text \in failing
    /\ IF mode = "fail_open"
       THEN Put(payload[At]) /\ todo' = Tail(todo) /\ UNCHANGED raised
       ELSE raised' = TRUE /\ todo' = <<>> /\ UNCHANGED cleaned
    /\ WalkOnly /\ UNCHANGED detections

(* Faulty variant: what is in a list is taken to be text already. *)
Parts_SkipsLists(p) ==
    [i \in 1..(IF payload[p].kind = "list" THEN 0 ELSE Items(payload[p])) |-> Append(p, i)]

Parts(p) == [i \in 1..Items(payload[p]) |-> Append(p, i)]

(* A list or an object: its keys stay, its items are walked in turn. *)
WalkItems ==
    /\ Visits("list") \/ Visits("object")
    /\ Put(payload[At])
    /\ todo' = Parts(At) \o Tail(todo)
    /\ WalkOnly /\ UNCHANGED <<raised, detections>>

WalkScalar ==
    /\ Visits("scalar")
    /\ Put(payload[At])
    /\ todo' = Tail(todo)
    /\ WalkOnly /\ UNCHANGED <<raised, detections>>

WalkNext == WalkString \/ WalkFails \/ WalkItems \/ WalkScalar

WalkSpec == WalkInit /\ [][WalkNext]_walkVars

-------------------------------------------------------------------------------
(* _scrub_payload returns. *)
Returned == todo = <<>> /\ ~raised

(* The mistakes of copying: one wrong digit, or two neighbours that change places;
   no Luhn checksum tells 09 from 90. *)
Slips(s) == (UNION {{[s EXCEPT ![i] = d] : d \in 0..9} : i \in DOMAIN s})
            \cup {[s EXCEPT ![i] = s[i + 1], ![i + 1] = s[i]] :
                      i \in {j \in 1..(Len(s) - 1) : {s[j], s[j + 1]} # {0, 9}}}

(* A SIN copied wrongly is not taken for one, in whatever form it is written. *)
LuhnCatchesErrors ==
    Returned => \A p \in StringsOf(payload) :
        LET t == payload[p].text
        IN  _luhn_valid(t.digits) => \A s \in Slips(t.digits) \ {t.digits} :
                [entity |-> "CA_SIN", score |-> 100] \notin Findings([t EXCEPT !.digits = s])

(* A valid SIN that stands alone, with dashes, with blanks or in one piece. *)
Marks(t) == {t.cuts[i] : i \in DOMAIN t.cuts}
IsSin(t) ==
    /\ Len(t.digits) = 9 /\ t.digits[1] # 8 /\ _luhn_valid(t.digits)
    /\ t.before = 0 /\ t.after = 0
    /\ DOMAIN t.cuts \in {{}, {3, 6}} /\ Marks(t) \in {{}, {"dash"}, {"space"}}

(* A SIN is replaced wherever in the payload it is a string, though each form is
   found by other recognizers and at another score; with marks it is called one. *)
SinIsRemoved ==
    Returned => \A p \in StringsOf(payload) :
        LET t == payload[p].text
        IN  IsSin(t) /\ t \notin failing =>
                /\ p \in StringsOf(cleaned) /\ cleaned[p].text # t
                /\ Marks(t) # {} => cleaned[p].text = [placeholder |-> "CA_SIN"]

(* The walk reaches every string at any depth and leaves keys, scalars and the
   shape alone; a failing analyzer lets a text through only in fail_open, and
   only that text, and otherwise nothing is returned at all. *)
WalkIsThorough ==
    /\ Returned => cleaned =
        [p \in DOMAIN payload |->
            IF p \notin StringsOf(payload) \/ payload[p].text \in failing
            THEN payload[p] ELSE String(scrub(payload[p].text))]
    /\ mode # "fail_open" => (Returned => \A p \in StringsOf(payload) : payload[p].text \notin failing)
    /\ raised => mode # "fail_open" /\ \E p \in StringsOf(payload) : payload[p].text \in failing

(* README.md:305: "A random sequence like 123-456-789 is correctly ignored because
   it fails the checksum."  It is replaced as a parcel's or a folio's number. *)
IgnoredUnlessValid ==
    Returned => \A p \in StringsOf(payload) :
        LET t == payload[p].text
        IN  Len(t.digits) = 9 /\ t.cuts = [i \in {3, 6} |-> "dash"] /\ ~_luhn_valid(t.digits)
            => cleaned[p].text = t

(* README.md:23: personal information "is detected and removed before any request
   leaves your network".  Not from keys and numbers. *)
KeysAreScrubbed ==
    Returned => \A p \in DOMAIN cleaned :
        \A t \in CASE cleaned[p].kind = "scalar" -> {cleaned[p].text}
                 [] cleaned[p].kind = "object" -> Range(cleaned[p].keys)
                 [] OTHER -> {} :
            t \notin failing \cup {null} => scrub(t) = t

(* README.md:303: "how many PII items were found". *)
CountedOnce == Returned => detections <= Cardinality(StringsOf(payload))

================================================================================
