------------------------------- MODULE EvalRules -------------------------------
(***************************************************************************)
(* The rules a check is judged by: domain/benchmark/parser.go (which rules *)
(* are accepted), eval.go (three-valued evaluation), selftest.go, and the  *)
(* adapter of cmd/rosshield-server/scanexec.go through which a scan        *)
(* evaluates them.  An output keeps what the operators look at: the text,  *)
(* its leading number if it has one, the final newline, and the exit code, *)
(* which no operator reads (nor do they read the standard error).          *)
(***************************************************************************)
EXTENDS Integers, Sequences

VARIABLES
    rule,            \* a rule of a check, as the pack holds it
    output,          \* what the command printed
    fixture          \* the cases of its self-test: none, or one

rulesVars == <<rule, output, fixture>>

Statuses == {"PASS", "FAIL", "INDETERMINATE"}
Blank == [text |-> "", num |-> {}, has |-> {}]
\* Texts a command prints (bound): a word, a number alone, a number with more after it.
Texts == { [text |-> "ok", num |-> {}, has |-> {"ok"}], [text |-> "5", num |-> {5}, has |-> {}],
           [text |-> "7 ok", num |-> {7}, has |-> {"ok"}] }
Outputs == [out : Texts \cup {Blank}, newline : BOOLEAN, exit : {0, 1}]
\* Leaves (bound), the last three not well formed: bad pattern, no prompt, unknown operator.
RuleLeaves == { [op |-> "equals", value |-> "ok"], [op |-> "not_equals", value |-> "ok"],
                [op |-> "contains", value |-> "ok"],
                [op |-> "regex", value |-> "ok", whole |-> FALSE, ok |-> TRUE],
                [op |-> "regex", value |-> "ok", whole |-> TRUE, ok |-> TRUE],
                [op |-> "empty"], [op |-> "not_empty"], [op |-> "gt", bound |-> 5],
                [op |-> "gte", bound |-> 5], [op |-> "lt", bound |-> 7], [op |-> "lte", bound |-> 5],
                [op |-> "manual", prompt |-> TRUE, verdict |-> "INDETERMINATE"],
                [op |-> "regex", value |-> "ok", whole |-> FALSE, ok |-> FALSE],
                [op |-> "manual", prompt |-> FALSE, verdict |-> "PASS"], [op |-> "xor"] }

\* Rules up to depth two: a leaf, its negation, and pairs of those.
Negated == [op : {"not"}, arg : RuleLeaves]
Rules == RuleLeaves \cup Negated
             \cup [op : {"and", "or"}, args : RuleLeaves \X RuleLeaves]
             \cup [op : {"and", "or"}, args : {<< >>}]

\* parseNode: an operator of the list, an argument where one is needed.
RECURSIVE Parses(_)
Parses(r) ==
    CASE r.op \in {"equals", "not_equals", "contains", "empty", "not_empty", "gt", "gte", "lt", "lte"} -> TRUE
      [] r.op = "regex"          -> r.ok      \* not empty, at most 256 bytes, compiles
      [] r.op = "manual"         -> r.prompt
      [] r.op = "not"            -> Parses(r.arg)
      [] r.op \in {"and", "or"}  -> r.args # << >> /\ \A i \in DOMAIN r.args : Parses(r.args[i])
      [] OTHER                   -> FALSE

Judge(b) == IF b THEN "PASS" ELSE "FAIL"
Compare(o, good) == IF o.out.num = {} THEN "INDETERMINATE" ELSE Judge(good)
\* Leaves look at the standard output only; equals drops the trailing newlines, a pattern
\* anchored at the end (whole) sees them.
Leaf(r, o) ==
    CASE r.op = "equals"    -> Judge(o.out.text = r.value)
      [] r.op = "not_equals" -> Judge(o.out.text # r.value)
      [] r.op = "contains"  -> Judge(r.value \in o.out.has)
      [] r.op = "regex"     -> Judge(IF r.whole THEN o.out.text = r.value /\ ~o.newline ELSE r.value \in o.out.has)
      [] r.op = "empty"     -> Judge(o.out.text = "")
      [] r.op = "not_empty" -> Judge(o.out.text # "")
      [] r.op = "gt"        -> Compare(o, \A n \in o.out.num : n > r.bound)
      [] r.op = "gte"       -> Compare(o, \A n \in o.out.num : n >= r.bound)
      [] r.op = "lt"        -> Compare(o, \A n \in o.out.num : n < r.bound)
      [] r.op = "lte"       -> Compare(o, \A n \in o.out.num : n <= r.bound)
      [] r.op = "manual"    -> r.verdict

\* AndNode: the first argument that does not pass decides.
AllOf(ss) == IF \A i \in DOMAIN ss : ss[i] = "PASS" THEN "PASS"
             ELSE ss[CHOOSE i \in DOMAIN ss : ss[i] # "PASS" /\ \A j \in 1..i - 1 : ss[j] = "PASS"]
\* Bug: the first verdict that is not FAIL decides.
AnyOf_First(ss) == IF \A i \in DOMAIN ss : ss[i] = "FAIL" THEN "FAIL"
                   ELSE ss[CHOOSE i \in DOMAIN ss : ss[i] # "FAIL" /\ \A j \in 1..i - 1 : ss[j] = "FAIL"]
\* OrNode: one PASS is enough; else an INDETERMINATE outweighs the FAILs.
AnyOf(ss) == IF \E i \in DOMAIN ss : ss[i] = "PASS" THEN "PASS"
             ELSE IF \E i \in DOMAIN ss : ss[i] = "INDETERMINATE" THEN "INDETERMINATE" ELSE "FAIL"
\* Bug: what is not a PASS becomes one.
Opposite_Strict(s) == IF s = "PASS" THEN "FAIL" ELSE "PASS"
Opposite(s) == CASE s = "PASS" -> "FAIL" [] s = "FAIL" -> "PASS" [] OTHER -> s

RECURSIVE Eval(_, _)
Eval(r, o) ==
    CASE r.op = "and" -> AllOf([i \in DOMAIN r.args |-> Eval(r.args[i], o)])
      [] r.op = "or"  -> AnyOf([i \in DOMAIN r.args |-> Eval(r.args[i], o)])
      [] r.op = "not" -> Opposite(Eval(r.arg, o))
      [] OTHER        -> Leaf(r, o)

\* Bug: a command that failed is judged as one that printed nothing.
Evaluate_Exit(r, o) ==
    IF ~Parses(r) THEN "error" ELSE Eval(r, IF o.exit = 0 THEN o ELSE [o EXCEPT !.out = Blank])
\* benchmarkEvaluatorAdapter.Evaluate: the rule is parsed anew at every check of a scan;
\* one that does not parse gives the outcome "error".
Evaluate(r, o) == IF ~Parses(r) THEN "error" ELSE Eval(r, o)

\* RunCheckSelfTest: no case leaves the check degraded; a rule that does not parse is an error.
SelfTest(r, cases) ==
    IF cases = {} THEN "degraded"
    ELSE IF ~Parses(r) THEN "error"
    ELSE IF \A c \in cases : Eval(r, c.input) = c.expected THEN "passed" ELSE "failed"

RulesInit ==
    /\ rule \in Rules /\ output \in Outputs
    /\ fixture \in {{}} \cup {{[input |-> [output EXCEPT !.exit = 0, !.newline = FALSE], expected |-> s]} :
                                 s \in Statuses}
RulesNext == UNCHANGED rulesVars

\* Some pattern of the rule is anchored at the end of the output.
RECURSIVE Anchored(_)
Anchored(r) ==
    \/ r.op = "regex" /\ r.whole
    \/ r.op = "not" /\ Anchored(r.arg)
    \/ r.op \in {"and", "or"} /\ \E i \in DOMAIN r.args : Anchored(r.args[i])
\* A self-test that passed says what a scan will say: the same text gives the expected
\* verdict, whatever final newline and exit code the fixture left out.
\* Not so for a pattern anchored at the end: the newline a command prints makes it fail.
SelfTestPredictsTheScan ==
    (SelfTest(rule, fixture) = "passed" /\ ~Anchored(rule))
        => \A c \in fixture : Evaluate(rule, output) = c.expected

Swapped(r) == [r EXCEPT !.args = <<r.args[2], r.args[1]>>]
\* The order of a rule's arguments never makes a check pass, and the order of the
\* alternatives of an "or" never changes the verdict at all.
OrderMakesNoPass ==
    (rule.op \in {"and", "or"} /\ Parses(rule)) =>
        /\ Eval(rule, output) = "PASS" <=> Eval(Swapped(rule), output) = "PASS"
        /\ rule.op = "or" => Eval(rule, output) = Eval(Swapped(rule), output)

\* What cannot be judged stays so: a rule one of whose parts is undecided, alone or under
\* "not", is not turned into a PASS by negation.
NegationDecidesNothing ==
    (rule.op = "not" /\ Parses(rule) /\ Eval(rule.arg, output) = "INDETERMINATE")
        => Evaluate(rule, output) = "INDETERMINATE"

\* The self test predicts the scan, order makes no pass, and negation never turns
\* an undecided rule into a verdict.
RulesAreSound ==
    /\ SelfTestPredictsTheScan
    /\ OrderMakesNoPass
    /\ NegationDecidesNothing
================================================================================
