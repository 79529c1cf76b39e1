------------------------------- MODULE Converter -------------------------------
(***************************************************************************)
(* How pack-tools turns a baseline's pass_logic into one shell condition:  *)
(* cmd/pack-tools/converter/passlogic.go, condition.go and ros2.go.        *)
(*                                                                         *)
(* A shell list is a sequence of elements joined by && or ||, which the    *)
(* shell runs from left to right with equal precedence; an element is a    *)
(* test or a list in braces, with a ! before it or not.                    *)
(***************************************************************************)
EXTENDS Integers, Sequences, SequencesExt, FiniteSets

VARIABLES
    logic,           \* the pass_logic of an item
    conditions       \* its conditions: id -> operator and what its command prints

passLogicVars == <<logic, conditions>>

Ids == {"C1", "C2"}
Leaf1 == [op : {"leaf"}, id : Ids \cup {"C3"}]
OneDeep == [op : {"AND", "OR"}, args : UNION {[1..n -> Leaf1] : n \in 1..2}] \cup [op : {"NOT"}, args : [1..1 -> Leaf1]]
Shallow == Leaf1 \cup {t \in OneDeep : \A i \in DOMAIN t.args : t.args[i].id \in Ids}
\* Trees of pass_logic (bound): two levels of operators over two conditions and an unknown one.
Trees == Leaf1 \cup OneDeep \cup [op : {"AND", "OR"}, args : Shallow \X Shallow]
               \cup [op : {"NOT"}, args : [1..1 -> Shallow]]
Operators == {"empty", "contains", "gt"}
Prints == {"", "x"}

\* ConditionToBashTest: numeric operators and extraction are not translated.
Translatable(c) == c.operator \notin {"gt", "gte", "lt", "lte"}
TestHolds(c) ==
    CASE c.operator = "empty"     -> c.out = ""
      [] c.operator = "not_empty" -> c.out # ""
      [] c.operator = "contains"  -> c.out = "x"

RECURSIVE IdsOf(_)
IdsOf(t) == IF t.op = "leaf" THEN {t.id} ELSE UNION {IdsOf(t.args[i]) : i \in DOMAIN t.args}
\* A reference to a condition that is not there, or cannot be translated, fails the translation.
Translates(t) == \A id \in IdsOf(t) : id \in DOMAIN conditions /\ Translatable(conditions[id])

Element(joint, neg, list) == [joint |-> joint, neg |-> neg, list |-> list]
Test(id) == <<[joint |-> "first", neg |-> FALSE, test |-> id]>>
\* Bug: the children are joined as they are, without braces.
Join_Bare(lists, joint) ==
    FlattenSeq([i \in DOMAIN lists |-> IF i = 1 THEN lists[1] ELSE <<[lists[i][1] EXCEPT !.joint = joint]>> \o Tail(lists[i])])
\* joinPassLogicChildren: every child in braces of its own.
Join(lists, joint) == [i \in DOMAIN lists |-> Element(IF i = 1 THEN "first" ELSE joint, FALSE, lists[i])]

\* Bug: the ! is put before the first test of the child.
NotList_Bare(list) == <<[list[1] EXCEPT !.neg = ~@]>> \o Tail(list)
NotList(list) == <<Element("first", TRUE, list)>>
RECURSIVE PassLogicToBash(_)
PassLogicToBash(t) ==
    CASE t.op = "leaf" -> Test(t.id)
      [] t.op = "NOT"  -> NotList(PassLogicToBash(t.args[1]))
      [] OTHER         -> Join([i \in DOMAIN t.args |-> PassLogicToBash(t.args[i])], IF t.op = "AND" THEN "&&" ELSE "||")

\* What the shell makes of a list: an element is skipped when the result so far settles it.
RECURSIVE Runs(_)
Runs(list) ==
    LET Value(e) == LET v == IF "test" \in DOMAIN e THEN TestHolds(conditions[e.test]) ELSE Runs(e.list)
                    IN IF e.neg THEN ~v ELSE v
    IN FoldLeft(LAMBDA acc, e : CASE e.joint = "first" -> Value(e)
                                  [] e.joint = "&&"    -> acc /\ Value(e)
                                  [] e.joint = "||"    -> acc \/ Value(e), TRUE, list)

\* What the pass_logic says.
RECURSIVE Meaning(_)
Meaning(t) ==
    CASE t.op = "leaf" -> TestHolds(conditions[t.id])
      [] t.op = "NOT"  -> ~Meaning(t.args[1])
      [] t.op = "AND"  -> \A i \in DOMAIN t.args : Meaning(t.args[i])
      [] t.op = "OR"   -> \E i \in DOMAIN t.args : Meaning(t.args[i])

\* convertROS2Item: an item whose logic does not translate is degraded: it prints nothing and
\* its rule looks for a marker nothing prints.
ConvertROS2Item == IF Translates(logic) THEN [auto |-> TRUE, passes |-> Runs(PassLogicToBash(logic))]
                   ELSE [auto |-> FALSE, passes |-> FALSE]

PassLogicInit ==
    /\ logic \in Trees
    /\ conditions \in [Ids -> [operator : Operators, out : Prints]]
PassLogicNext == UNCHANGED passLogicVars

\* The shell condition says what the pass_logic says, however the operators are nested: the
\* shell gives && and || the same precedence, so that only the braces keep them apart.
ShellSaysTheSame == Translates(logic) => ConvertROS2Item.passes = Meaning(logic)

--------------------------------------------------------------------------------
(***************************************************************************)
(* How pack-tools makes a command with a verdict out of the audit text of  *)
(* a CIS item: cmd/pack-tools/converter/cis.go and its cis_*.go.  A text   *)
(* is a sequence of lines, each of a class the patterns tell apart; the    *)
(* output of a command is a sequence of lines, and empty when the command  *)
(* could not run (its errors go to /dev/null).  There is no behaviour: a   *)
(* state is one sample of one of the algorithms.                           *)
(***************************************************************************)

VARIABLES
    what,            \* the algorithm the sample is for
    sample           \* its input

cisVars == <<what, sample>>

(* --------------------- verdicts on what a command printed --------------------- *)
Lines == [num : BOOLEAN, v : 0..3]                            \* a number, or a word, of four (bound)
Printed == UNION {[1..n -> Lines] : n \in 0..2}
Word(v) == [num |-> FALSE, v |-> v]
Lo == 1
Hi == 2                                                       \* the bounds the audit text names
Kinds == {"empty", "nonEmpty", "exact", "option", "atMost", "between", "uint32", "sudoTimeout", "allOf",
          "anyOf", "optional", "noneLike", "emits", "noWarning", "counts", "everyGrep"}

\* Bug: a listing without a line keeps every bound.
EveryLine_Vacuous(out, lo, hi) == \A i \in DOMAIN out : out[i].num /\ out[i].v \in lo..hi
\* synthesizeExpectSSHDNumeric and -Range: some line, every line a number within the bounds.
EveryLine(out, lo, hi) == out # <<>> /\ \A i \in DOMAIN out : out[i].num /\ out[i].v \in lo..hi
\* A value that must be the only line, up to white space (option, exact root, boolean).
OneLine(out, l) == Len(out) = 1 /\ out[1] = l
\* gsettings: what follows "uint32 " is a number of at most the text's.
Uint32(out) == Len(out) = 1 /\ out[1].num /\ out[1].v <= Hi
\* sudo: the first value found, the default when there is none; no negative one and no word.
SudoTimeout(out) == out = <<>> \/ (out[1].num /\ out[1].v <= Hi)
\* Every expected line is part of the output (nft hooks and tables, grub, iptables, dpkg, ufw).
AllWords(out) == \A v \in {1, 2} : Contains(out, Word(v))
\* One of the alternatives is (sshd, passwd status, ufw default).
AnyWord(out) == \E v \in {1, 2} : Contains(out, Word(v))
\* A file that may be missing: nothing, or all of what is expected of it.
Optional(out) == out = <<>> \/ AllWords(out)
\* No line of the kind that counts (pending updates, firewall rules, a package).
NoneLike(out) == ~Contains(out, Word(1))
\* The script's own word for success (PASSED, Audit Passed, is not enabled, No change).
Emits(out) == Contains(out, Word(3))
NoWarning(out) == ~Contains(out, Word(2))
\* apparmor: some profile loaded, none unconfined, in the strict mode none complaining; a count
\* that is not printed is zero.
Count(out, i) == IF i \in DOMAIN out /\ out[i].num THEN out[i].v ELSE 0
Counts(out) == Count(out, 1) > 0 /\ Count(out, 2) = 0
\* Every one of several greps found something: two of them here, one line each.
EveryGrep(out) == Len(out) = 2

ShellPasses(kind, out) ==
    CASE kind = "empty"       -> out = <<>>
      [] kind = "nonEmpty"    -> out # <<>>
      [] kind = "exact"       -> OneLine(out, Word(1))
      [] kind = "option"      -> OneLine(out, Word(2))
      [] kind = "atMost"      -> EveryLine(out, 0, Hi)
      [] kind = "between"     -> EveryLine(out, Lo, Hi)
      [] kind = "uint32"      -> Uint32(out)
      [] kind = "sudoTimeout" -> SudoTimeout(out)
      [] kind = "allOf"       -> AllWords(out)
      [] kind = "anyOf"       -> AnyWord(out)
      [] kind = "optional"    -> Optional(out)
      [] kind = "noneLike"    -> NoneLike(out)
      [] kind = "emits"       -> Emits(out)
      [] kind = "noWarning"   -> NoWarning(out)
      [] kind = "counts"      -> Counts(out)
      [] kind = "everyGrep"   -> EveryGrep(out)

(* ------------------------------ permissions ------------------------------ *)
Modes == [1..3 -> {0, 4, 6}]                                  \* owner, group, others (bound)
Octal(m) == 64 * m[1] + 8 * m[2] + m[3]
\* How many characters stat prints of a mode: no leading zeroes, except the one of %#a.
PrintedDigits(mode, alternate) ==
    (IF mode[1] # 0 THEN 3 ELSE IF mode[2] # 0 THEN 2 ELSE 1) + (IF alternate /\ Octal(mode) # 0 THEN 1 ELSE 0)
\* synthesizeExpectStatPerm: of three or four digits, compared as numbers.
StatPerm(mode, alternate, expected, root) ==
    PrintedDigits(mode, alternate) \in 3..4 /\ Octal(mode) <= Octal(expected) /\ root
Bits(d) == {b \in {1, 2, 4} : (d \div b) % 2 = 1}

(* ------------------------------ audit rules ------------------------------ *)
\* A rule of auditd: its system calls in the order they are written, how key and auid are
\* spelled, the least uid it watches.
Calls == {<<1>>, <<2>>, <<1, 2>>, <<2, 1>>}
Spellings == [calls : Calls, key : {"-k", "key="}, auid : {"none", "-1", "4294967295", "unset"}, min : {"1000", "500"}]
FoundRules == [calls : Calls \cup {<<2, 1, 2>>}, key : {"-k", "key="}, auid : {"none", "-1", "4294967295", "unset"}, min : {"1000", "500"}]
Unset(auid) == IF auid = "none" THEN "none" ELSE "unset"
\* Bug: the system calls are compared in the order they are written.
NormalizeAuditctlRule_AsWritten(r) == [calls |-> r.calls, key |-> "key=", auid |-> Unset(r.auid)]
\* normalizeAuditctlRule, of a rule of the audit text: sorted by bytes; the least uid becomes a
\* placeholder.
NormalizeAuditctlRule(r) == [calls |-> SortSeq(r.calls, <), key |-> "key=", auid |-> Unset(r.auid)]
\* normalize_fn of the script, of a line of the robot; sort -u also drops repetitions, and sorts as
\* the robot's locale has it: by bytes in the C locale, else perhaps the other way.
NormalizeFn(r, bytewise) ==
    [calls |-> SetToSortSeq(ToSet(r.calls), LAMBDA a, b : IF bytewise THEN a < b ELSE a > b),
     key |-> "key=", auid |-> Unset(r.auid)]
\* The placeholder becomes the script's UID_MIN: nothing sets that, so it is 1000.
ScriptUidMin == "1000"
Matches(expected, found, bytewise) ==
    NormalizeAuditctlRule(expected) = NormalizeFn(found, bytewise) /\ found.min = ScriptUidMin
\* What a rule says however it is spelled.
Says(r) == [calls |-> ToSet(r.calls), auid |-> r.auid # "none"]

(* ------------------- what the audit text expects of a command ------------------- *)
Wants == {"w1", "w2", "w3"}
Classes == Wants \cup {"blank", "phrase", "sep", "nothing", "hash", "note", "prose"}
\* By extractor: lines skipped, lines that end the list, lines taken, whether a blank line ends
\* a list that has begun, how many there must be.
Extractors ==
    [dpkg    |-> [skip |-> {"phrase", "note"}, stop |-> {"hash"}, take |-> Wants \cup {"prose", "sep", "nothing"},
                  blankEnds |-> TRUE, least |-> 1],
     statOpt |-> [skip |-> {"sep"}, stop |-> {"hash", "nothing"}, take |-> Wants \cup {"phrase", "note", "prose"},
                  blankEnds |-> TRUE, least |-> 1],
     chain   |-> [skip |-> {}, stop |-> Classes \ (Wants \cup {"blank"}), take |-> Wants, blankEnds |-> FALSE, least |-> 3],
     verbose |-> [skip |-> {"sep", "nothing", "prose"}, stop |-> {"hash", "phrase", "note"}, take |-> Wants,
                  blankEnds |-> FALSE, least |-> 1],
     passwd  |-> [skip |-> {"sep", "phrase", "prose", "nothing"}, stop |-> {"hash", "note"}, take |-> Wants,
                  blankEnds |-> FALSE, least |-> 2],
     sshd    |-> [skip |-> {"sep", "hash"}, stop |-> {"note"}, take |-> Wants \cup {"phrase", "prose", "nothing"},
                  blankEnds |-> TRUE, least |-> 2]]
\* Bug: a blank line ends the list before it has begun.
Step_BlankEnds(x, acc, line) ==
    IF acc.done \/ line \in x.stop \/ (line = "blank" /\ x.blankEnds) THEN [acc EXCEPT !.done = TRUE]
    ELSE IF line \in x.take THEN [acc EXCEPT !.got = Append(@, line)] ELSE acc
Step(x, acc, line) ==
    IF acc.done \/ line \in x.stop \/ (line = "blank" /\ x.blankEnds /\ acc.got # <<>>) THEN [acc EXCEPT !.done = TRUE]
    ELSE IF line \in x.take THEN [acc EXCEPT !.got = Append(@, line)] ELSE acc
\* The lines after the command that the output is compared with; too few and the item is left
\* to the next pattern.
Extract(x, text) ==
    LET got == FoldLeft(LAMBDA acc, line : Step(x, acc, line), [done |-> FALSE, got |-> <<>>], text).got
    IN IF Len(got) >= x.least THEN got ELSE <<>>

(* -------------------------- a command cut into lines -------------------------- *)
\* A line: how it begins, which quote marks are in it an odd number of times, whether it ends in
\* an option, a pipe or a hyphen that waits for more.
Line(b, s, d, e) == [begins |-> b, single |-> s, double |-> d, dangling |-> e]
Pieces == {Line(b, s, d, e) : b \in {"word", "dash"}, s, d \in 0..1, e \in BOOLEAN}
Boundary == {Line(b, 0, 0, FALSE) : b \in {"hash", "dash", "prose"}}
BlankLine == Line("blank", 0, 0, FALSE)
MaxAbsorbed == 2                                              \* 8 in the code (bound)
Odd(cmd, mark) == FoldLeft(LAMBDA n, p : n + p[mark], 0, cmd) % 2 = 1
\* quotedContext and isCISCmdComplete: the two kinds are counted apart.
QuotedContext(cmd) == Odd(cmd, "single") \/ Odd(cmd, "double")
\* Bug: they are counted together.
IsCISCmdComplete_Together(cmd) ==
    FoldLeft(LAMBDA n, p : n + p.single + p.double, 0, cmd) % 2 = 0 /\ ~cmd[Len(cmd)].dangling
IsCISCmdComplete(cmd) == ~QuotedContext(cmd) /\ ~cmd[Len(cmd)].dangling
\* absorbCISContinuation: lines are taken until the command is complete, enough have been taken,
\* or a line begins with a # or a - or as prose, be it inside of quotes; blank ones are skipped.
AbsorbCISContinuation(first, after) ==
    FoldLeft(LAMBDA acc, p :
               IF acc.done \/ IsCISCmdComplete(acc.cmd) \/ Len(acc.cmd) > MaxAbsorbed \/ p.begins \notin {"word", "blank"}
               THEN [acc EXCEPT !.done = TRUE]
               ELSE IF p = BlankLine THEN acc ELSE [acc EXCEPT !.cmd = Append(@, p)],
             [done |-> FALSE, cmd |-> <<first>>], after).cmd

(* ------------------------ from a baseline to checks ------------------------ *)
\* What is tried on an item, in this order, after the marker and the assertions of
\* ShellPasses: each pattern recognises audit texts and makes a command of some of them.
FirstPatterns ==
    <<"nftHook", "sudoTimestamp", "aptNoUpdates", "ipv6Disabled", "iptablesEmpty", "augenrules", "allOK",
      "iptablesVerbose", "ufwLoopback", "ufwDefault", "passFailEmit", "braceBlock", "auditResult", "nftInclude">>
LastPatterns ==
    <<"grubCfg", "passwdAwk", "apparmor", "statOpt", "dpkg", "dpkgEmpty", "iptablesChain", "nftTables",
      "sshdOr", "multiGrep", "gsettingsBool", "gsettingsUint32", "auditctl">>
Patterns == FirstPatterns \o LastPatterns
\* Items marked Manual that are converted all the same.
TriedAlthoughManual == {"aptNoUpdates", "ipv6Disabled", "iptablesEmpty", "augenrules"}

\* What tells items apart: the PASS marker in the text, a script in it, whether an assertion can be
\* made, the patterns that recognise it and those that make a command, and whether the text
\* asks for an empty output or for one that is not.
ItemTexts == [id : {"", "k1", "k2"}, manual : BOOLEAN, marker : BOOLEAN, script : BOOLEAN, assertion : BOOLEAN,
          is : SUBSET {"aptNoUpdates", "dpkg", "auditctl"}, makes : SUBSET {"aptNoUpdates", "dpkg", "auditctl"},
          asks : SUBSET {"empty", "nonEmpty"}]                \* three patterns, two ids (bound)

Auto(id, by) == [id |-> id, command |-> by, rule |-> "** PASS **", reason |-> "none"]
Degraded(id, why) == [id |-> id, command |-> "true", rule |-> "degraded", reason |-> why]

\* The script of an item without a marker: silence, or anything but.
BodyVerdict(it) ==
    IF it.script /\ it.asks # {}
    THEN Auto(it.id, IF "empty" \in it.asks THEN "empty" ELSE "nonEmpty") ELSE Degraded(it.id, "NoMarker")
\* Bug: a Manual item falls through to the patterns.
ConvertCISItem_AnyManual(it) ==
    LET made == SelectSeq(Patterns, LAMBDA p : p \in it.is \cap it.makes)
    IN IF it.marker THEN (IF it.script THEN Auto(it.id, "script") ELSE Degraded(it.id, "NoMarker"))
       ELSE IF it.assertion THEN Auto(it.id, "assertion")
       ELSE IF made # <<>> THEN Auto(it.id, made[1])
       ELSE BodyVerdict(it)
ConvertCISItem(it) ==
    LET made == SelectSeq(Patterns, LAMBDA p : p \in it.is \cap it.makes)
    IN IF it.manual /\ it.is \cap TriedAlthoughManual = {} THEN Degraded(it.id, "Manual")
       ELSE IF it.marker THEN (IF it.script THEN Auto(it.id, "script") ELSE Degraded(it.id, "NoMarker"))
       ELSE IF it.assertion THEN Auto(it.id, "assertion")
       ELSE IF made # <<>> THEN Auto(it.id, made[1])
       ELSE BodyVerdict(it)

NoChecks(error) == [error |-> error, checks |-> <<>>]
\* ConvertROS2, and ConvertCIS with items of its own: an item without an id is left out, an id
\* that comes twice fails the whole.
Ided(doc) == SelectSeq(doc, LAMBDA it : it.id # "")
Convert(doc, checks) ==
    IF doc = <<>> THEN NoChecks("noItems")
    ELSE IF \E i, j \in DOMAIN Ided(doc) : i # j /\ Ided(doc)[i].id = Ided(doc)[j].id THEN NoChecks("duplicate")
    ELSE [error |-> "none", checks |-> checks]
CISChecks(doc) == [i \in DOMAIN Ided(doc) |-> ConvertCISItem(Ided(doc)[i])]
ConvertCIS(doc) == Convert(doc, CISChecks(doc))
\* Its report.
ReportOf(checks) ==
    LET HowMany(why) == Cardinality({i \in DOMAIN checks : checks[i].reason = why})
    IN [converted |-> HowMany("none"), manual |-> HowMany("Manual"), noMarker |-> HowMany("NoMarker")]

\* ListCISDegraded, for the guide of those who write fixtures: it reads the baseline again.
ListCISDegraded(doc) == SelectSeq(CISChecks(doc), LAMBDA c : c.reason # "none")
\* runDocs and its headings: Manual, and everything else.
GuideOf(doc) ==
    LET listed == ListCISDegraded(doc)
        manual == SelectSeq(listed, LAMBDA c : c.reason = "Manual")
    IN [manual |-> manual, noMarker |-> SelectSeq(listed, LAMBDA c : c.reason # "Manual")]

\* classifyEvalRule and GenerateSelfTestSkeletons: two cases for a check that prints a marker.
SelfTestOf(check) ==
    IF check.rule = "** PASS **"
    THEN {[out |-> "** PASS **", outcome |-> "PASS"], [out |-> "** FAIL **", outcome |-> "FAIL"]} ELSE {}
Outcome(check, out) == IF out = check.rule THEN "PASS" ELSE "FAIL"

(* ------------------------------ the samples ------------------------------ *)
\* ItemTexts as the benchmark writes them for a pattern: a phrase before the expectations, separators
\* between them, and what follows them.
ProseOf(pattern) ==
    {pre \o mid \o post :
       pre \in {<<>>, <<"blank">>} \cup (IF pattern \in {"dpkg", "passwd"} THEN {<<"phrase">>, <<"phrase", "blank">>} ELSE {}),
       mid \in {<<"w1">>, <<"w1", "w2">>, <<"w1", "w2", "w3">>}
              \cup (IF pattern \in {"statOpt", "passwd", "sshd"} THEN {<<"w1", "sep", "w2">>} ELSE {}),
       post \in {<<>>, <<"blank", "prose">>, <<"blank", "note">>, <<"blank", "hash", "prose">>}
              \cup (IF pattern = "statOpt" THEN {<<"sep", "nothing">>} ELSE {})}
\* A command as its author wrote it: every quote closed, nothing awaited; and one that the page cut
\* where it was not whole yet.
Whole(cmd) ==
    /\ \A mark \in {"single", "double"} : Cardinality({i \in DOMAIN cmd : cmd[i][mark] = 1}) % 2 = 0
    /\ ~cmd[Len(cmd)].dangling
CutCommands ==
    {cmd \in UNION {[1..n -> Pieces] : n \in 1..3} :
        cmd[1].begins = "word" /\ Whole(cmd) /\ \A n \in 1..(Len(cmd) - 1) : ~Whole(SubSeq(cmd, 1, n))}
\* The lines that follow its first: the rest of it, with or without a blank one before each, and
\* what comes after it.
LinesAfter(s) == FlattenSeq([i \in 1..(Len(s.cmd) - 1) |-> IF s.gap THEN <<BlankLine, s.cmd[i + 1]>> ELSE <<s.cmd[i + 1]>>]) \o s.rest
\* Items of every outcome, by how they are converted.
Plain(id) == [id |-> id, manual |-> FALSE, marker |-> FALSE, script |-> FALSE, assertion |-> FALSE,
              is |-> {}, makes |-> {}, asks |-> {}]
ItemsOf(id) == {Plain(id), [Plain(id) EXCEPT !.manual = TRUE], [Plain(id) EXCEPT !.assertion = TRUE],
                [Plain(id) EXCEPT !.manual = TRUE, !.is = {"aptNoUpdates"}, !.makes = {"aptNoUpdates"}],
                [Plain(id) EXCEPT !.manual = TRUE, !.is = {"aptNoUpdates"}]}
Documents == UNION {[1..n -> UNION {ItemsOf(id) : id \in {"", "k1", "k2"}}] : n \in 0..2}

CisInit ==
    \/ what = "output" /\ sample \in [kind : Kinds, out : Printed]
    \/ what = "mode" /\ sample \in [mode : Modes, alternate : BOOLEAN, expected : {<<6, 4, 0>>, <<6, 4, 4>>, <<0, 0, 0>>}, root : BOOLEAN]
    \/ what = "rule" /\ sample \in [expected : {s \in Spellings : s.min = "1000"}, found : FoundRules,
                                  bytewise : BOOLEAN]
    \/ what = "text" /\ \E p \in DOMAIN Extractors : sample \in [pattern : {p}, text : ProseOf(p)]
    \/ what = "item" /\ sample \in {it \in ItemTexts : it.id = "k1" /\ it.makes \subseteq it.is}
    \/ what = "document" /\ sample \in Documents
    \/ what = "lines" /\ sample \in [cmd : CutCommands, gap : BOOLEAN, rest : UNION {[1..n -> Boundary] : n \in 0..1}]
CisNext == UNCHANGED cisVars

(* ------------------------------ properties ------------------------------ *)
\* The verdicts that take silence for success, each because its audit text asks for nothing to
\* be there.
AskForNothing == {"empty", "optional", "noneLike", "noWarning", "sudoTimeout"}
\* A command that could not run, or printed nothing, passes a robot only where the text asks
\* for nothing: no bound, count or comparison holds of an empty listing.
SilenceNeverPasses ==
    (what = "output" /\ sample.out = <<>> /\ ShellPasses(sample.kind, sample.out)) => sample.kind \in AskForNothing

\* An audit rule of the text is found on the robot exactly if the robot has a rule that says
\* the same, however both are spelled: calls in another order or repeated, the short form of
\* the key, the numeric forms of an unset auid.  So it is where the robot's sort goes by bytes
\* as the converter's does.
SpellingsCompareEqual ==
    (what = "rule" /\ sample.found.min = "1000" /\ sample.bytewise)
        => (Matches(sample.expected, sample.found, TRUE) <=> Says(sample.expected) = Says(sample.found))

\* cis_auditctl.go:152: calls that come in another order are covered.  Not where the locale of
\* the robot sorts "_" elsewhere than C does.
AnyLocaleComparesEqual ==
    (what = "rule" /\ sample.found.min = "1000" /\ Says(sample.expected) = Says(sample.found))
        => Matches(sample.expected, sample.found, sample.bytewise)

\* What a pattern compares the output with are the expectations of the text, all of them and
\* nothing else, wherever phrases, separators, blank lines and other text stand around them; or
\* the pattern leaves the item alone.
ExpectationsAreTheTexts ==
    what = "text" =>
        LET x == Extractors[sample.pattern]
            asked == SelectSeq(sample.text, LAMBDA l : l \in Wants)
        IN Extract(x, sample.text) = IF Len(asked) >= x.least THEN asked ELSE <<>>

\* A command that the page cut inside a quoted pattern or after a token that waits for more is
\* put together whole, over blank lines as well, and no line of what follows goes into it;
\* unless one of its own lines begins like the end of it.
CutCommandIsWhole ==
    (what = "lines" /\ \A i \in DOMAIN sample.cmd : sample.cmd[i].begins = "word")
        => AbsorbCISContinuation(sample.cmd[1], LinesAfter(sample)) = sample.cmd

\* cis.go:607-610: lines are taken until the quotes close, so that no argument is lost.  Of a
\* quoted pattern that the page cut before a - or a # the rest is lost.
EveryCutCommandIsWhole ==
    what = "lines" => AbsorbCISContinuation(sample.cmd[1], LinesAfter(sample)) = sample.cmd

\* What the baseline leaves to a person gets no verdict from a machine, except a text of one of
\* the four kinds that were written for although Manual; a script without a verdict of its own is
\* run only if nothing else fits and its item says whether silence is good; a check left to a
\* person fails whatever its command prints, and each self-test tells its check's outcome.
MachinesJudgeWhatTheyMay ==
    what = "item" =>
        LET c == ConvertCISItem(sample)
        IN /\ sample.manual /\ c.reason = "none" => sample.is \cap TriedAlthoughManual # {}
           /\ c.command \in {"empty", "nonEmpty"} =>
                /\ sample.script /\ ~sample.marker /\ ~sample.assertion
                /\ c.command \in sample.asks /\ sample.is \cap sample.makes = {}
           /\ \A t \in SelfTestOf(c) : Outcome(c, t.out) = t.outcome
           /\ c.reason # "none" => Outcome(c, "** PASS **") = "FAIL" /\ SelfTestOf(c) = {}

\* cis.go:161-163: such a Manual item reaches the pattern written for its kind.  The assertions of
\* a general form come first (cis.go:195), and the two commands of CIS 4.3.3 are judged by the
\* silence of the second alone.
ManualIsJudgedByItsPattern ==
    what = "item" =>
        LET c == ConvertCISItem(sample)
        IN sample.manual /\ c.reason = "none" => c.command \in TriedAlthoughManual

\* A baseline is converted whole or not at all: every item with an id becomes a check, in order
\* and counted under one heading, and the guide lists those that need a fixture, each under the
\* heading it was counted for, though it reads the baseline anew.
BaselineConvertsWhole ==
    what = "document" =>
        LET c == ConvertCIS(sample)
            r == ReportOf(c.checks)
            g == GuideOf(sample)
        IN c.error = "none" =>
             /\ [i \in DOMAIN c.checks |-> c.checks[i].id] = SelectSeq([i \in DOMAIN sample |-> sample[i].id], LAMBDA id : id # "")
             /\ IsInjective([i \in DOMAIN c.checks |-> c.checks[i].id])
             /\ r.converted + r.manual + r.noMarker = Len(c.checks)
             /\ r.manual = Len(g.manual) /\ r.noMarker = Len(g.noMarker)
             /\ ToSet(g.manual \o g.noMarker) = {x \in ToSet(c.checks) : x.rule = "degraded"}

\* cis.go:941-942: a mode passes that is the expected one or more restrictive.  As numbers 0606
\* is less than 0640, and gives others what 0640 does not.
PermIsMoreRestrictive ==
    (what = "mode" /\ StatPerm(sample.mode, sample.alternate, sample.expected, sample.root))
        => \A i \in 1..3 : Bits(sample.mode[i]) \subseteq Bits(sample.expected[i])

\* Nor does every mode that is more restrictive pass: of 0004 too few digits are printed.
MoreRestrictivePasses ==
    (what = "mode" /\ sample.root /\ \A i \in 1..3 : Bits(sample.mode[i]) \subseteq Bits(sample.expected[i]))
        => StatPerm(sample.mode, sample.alternate, sample.expected, sample.root)

\* cis_auditctl.go:154: a robot whose UID_MIN is not 1000 does not fail for it.  It does, when
\* its rules watch from its own UID_MIN.
RobotsUidMinIsUsed ==
    (what = "rule" /\ Says(sample.expected) = Says(sample.found)) => Matches(sample.expected, sample.found, TRUE)

\* What the synthesized checks accept: silence passes nowhere, spellings of one
\* expectation compare equal on a robot that sorts by bytes, the text's own
\* expectation decides, a command that was cut is put together, what is left to a
\* person stays so, and a baseline is converted whole.
VerdictsAreHonest ==
    /\ SilenceNeverPasses
    /\ SpellingsCompareEqual
    /\ ExpectationsAreTheTexts
    /\ CutCommandIsWhole
    /\ MachinesJudgeWhatTheyMay
    /\ BaselineConvertsWhole

--------------------------------------------------------------------------------
(***************************************************************************)
(* The offline tool that makes packs: cmd/pack-tools/main.go (convert with *)
(* the operator's manual fixtures kept, archive, keygen) over converter/   *)
(* converter.go (WriteToDir) and archive.go (BuildArchive).  Every step    *)
(* that touches the disk may fail, and the tool may be killed between two. *)
(*                                                                         *)
(* A file of a pack directory is [dir, id]: dir is "checks" or "manual";   *)
(* the self-tests go along with their checks.                              *)
(***************************************************************************)

CONSTANTS
    CheckIds,        \* checks of the baseline
    ManualIds,       \* those that need a manual fixture
    MaxKeyPairs      \* bound: key pairs generated

ASSUME PackToolsAssumption == ManualIds \subseteq CheckIds /\ MaxKeyPairs \in Nat

VARIABLES
    packDir,         \* the pack directory: {} when there is none, else its files
    written,         \* ids whose fixture the operator has written by hand
    backup,          \* the temporary copy of the manual fixtures
    converting,      \* the step convert is at, "idle" when none runs
    before,          \* the fixtures that were there when the last convert began
    unseen,          \* history: their directory could not be looked at, which counts as absent
    exit,            \* how it ended: "none" before, 0 for success, 1 otherwise
    archived,        \* the archives built: sets of [key, files]
    keyFile,         \* the signer's key file: the number of its pair, 0 when there is none
    pubFile,         \* the public key file
    pairs            \* key pairs generated

toolVars == <<packDir, written, backup, converting, before, unseen, exit, archived, keyFile, pubFile, pairs>>

Check(i) == [dir |-> "checks", id |-> i]
Fixture(i) == [dir |-> "manual", id |-> i]
FixturesIn(files) == {f \in files : f.dir = "manual"}

ToolInit ==
    /\ packDir = {} /\ written = {} /\ backup = {} /\ converting = "idle" /\ before = {} /\ unseen = FALSE
    /\ exit = "none"
    /\ archived = {} /\ keyFile = 0 /\ pubFile = 0 /\ pairs = 0

\* The operator writes a fixture for a check that was degraded, in place of the generated one or
\* beside it.
WriteFixture(i) ==
    /\ converting = "idle" /\ Check(i) \in packDir /\ i \in ManualIds \ written
    /\ \E instead \in BOOLEAN :
         packDir' = (packDir \cup {Fixture(i)}) \ (IF instead THEN {Check(i)} ELSE {})
    /\ written' = written \cup {i}
    /\ UNCHANGED <<backup, converting, before, unseen, exit, archived, keyFile, pubFile, pairs>>

\* A failure ends the run; the deferred RemoveAll takes the copy away.
Fails == converting' = "idle" /\ backup' = {} /\ exit' = "failed"

\* backupManualFixtures: a copy, when there are fixtures.  Any error of looking for their
\* directory is taken for its absence.
BackupManualFixtures ==
    /\ converting = "idle" /\ before' = FixturesIn(packDir)
    /\ \/ backup' = FixturesIn(packDir) /\ unseen' = FALSE /\ converting' = "backedUp" /\ exit' = "none"
       \/ FixturesIn(packDir) # {} /\ backup' = {} /\ unseen' = TRUE /\ converting' = "backedUp" /\ exit' = "none"
       \/ Fails /\ unseen' = FALSE
    /\ UNCHANGED <<packDir, written, archived, keyFile, pubFile, pairs>>
\* RemoveAll of the directory: it may stop halfway.
RemoveOutput ==
    /\ converting = "backedUp"
    /\ \/ packDir' = {} /\ converting' = "removed" /\ UNCHANGED <<backup, exit>>
       \/ \E left \in SUBSET packDir : packDir' = left /\ Fails
    /\ UNCHANGED <<written, before, unseen, archived, keyFile, pubFile, pairs>>
\* WriteToDir: a check for every item, degraded ones among them.
WriteToDir ==
    /\ converting = "removed"
    /\ \/ packDir' = {Check(i) : i \in CheckIds} /\ converting' = "written" /\ UNCHANGED <<backup, exit>>
       \/ \E some \in SUBSET CheckIds : packDir' = {Check(i) : i \in some} /\ Fails
    /\ UNCHANGED <<written, before, unseen, archived, keyFile, pubFile, pairs>>
Restored == converting' = "idle" /\ backup' = {} /\ exit' = "ok"
\* Bug: a fixture is put back only where no check was generated.
RestoreManualFixtures_Missing ==
    /\ converting = "written"
    /\ packDir' = packDir \cup {f \in backup : Check(f.id) \notin packDir} /\ Restored
    /\ UNCHANGED <<written, before, unseen, archived, keyFile, pubFile, pairs>>
\* restoreManualFixtures: the fixtures go back beside the generated checks, unless the copy cannot
\* be looked at either; then the copy goes.
RestoreManualFixtures ==
    /\ converting = "written"
    /\ \/ packDir' = packDir \cup backup /\ Restored /\ UNCHANGED unseen
       \/ backup # {} /\ unseen' = TRUE /\ Restored /\ UNCHANGED packDir
       \/ \E some \in SUBSET backup : some # backup /\ packDir' = packDir \cup some /\ Fails /\ UNCHANGED unseen
    /\ UNCHANGED <<written, before, archived, keyFile, pubFile, pairs>>
\* runConvertROS2: it keeps no fixtures, and WriteToDir refuses a directory that is there.
RunConvertROS2 ==
    /\ converting = "idle" /\ before' = FixturesIn(packDir) /\ unseen' = FALSE
    /\ \/ packDir # {} /\ Fails /\ UNCHANGED packDir
       \/ packDir = {} /\ packDir' = {Check(i) : i \in CheckIds} /\ exit' = "ok" /\ UNCHANGED <<backup, converting>>
       \/ packDir = {} /\ \E some \in SUBSET CheckIds : packDir' = {Check(i) : i \in some} /\ Fails
    /\ UNCHANGED <<written, archived, keyFile, pubFile, pairs>>
\* The tool is killed: what is on the disk stays, the copy under a name nobody kept.
Killed ==
    /\ converting # "idle" /\ Fails
    /\ UNCHANGED <<packDir, written, before, unseen, archived, keyFile, pubFile, pairs>>

\* Bug: the manual directory is not walked.
CollectPackFiles_Flat == {f \in packDir : f.dir = "checks"}
CollectPackFiles == packDir
\* BuildArchive: whatever is in the directory, with a manifest signed by the key file's key.
BuildArchive ==
    /\ converting = "idle" /\ keyFile # 0 /\ packDir # {}
    /\ archived' = {[key |-> keyFile, files |-> CollectPackFiles, dir |-> packDir]}
    /\ UNCHANGED <<packDir, written, backup, converting, before, unseen, exit, keyFile, pubFile, pairs>>

\* runKeygen: refused over an existing private key without -force; the public file is written
\* second, over whatever is there, and only if that succeeds the two belong together.
\* Bug: the public key is written first, whether or not the private key may be replaced.
Keygen_PublicFirst(force) ==
    /\ pairs < MaxKeyPairs /\ pairs' = pairs + 1 /\ pubFile' = pairs'
    /\ keyFile' = IF force \/ keyFile = 0 THEN pairs' ELSE keyFile
    /\ UNCHANGED <<packDir, written, backup, converting, before, unseen, exit, archived>>
Keygen(force) ==
    /\ pairs < MaxKeyPairs /\ (force \/ keyFile = 0)
    /\ pairs' = pairs + 1 /\ keyFile' = pairs'
    /\ pubFile' \in {pubFile, pairs'}
    /\ UNCHANGED <<packDir, written, backup, converting, before, unseen, exit, archived>>

ToolNext ==
    \/ \E i \in CheckIds : WriteFixture(i)
    \/ BackupManualFixtures \/ RemoveOutput \/ WriteToDir \/ RestoreManualFixtures
    \/ RunConvertROS2 \/ Killed
    \/ BuildArchive \/ \E force \in BOOLEAN : Keygen(force)

(* ------------------------------ properties ------------------------------ *)
\* What the loader asks of an archive besides its signature: no check id twice.
LoadsAt(a) == \A i \in CheckIds : ~({Check(i), Fixture(i)} \subseteq a.files)

\* A conversion that reports success has kept every fixture the operator had written, though
\* the directory they were in is removed and written anew; what it lost it says it failed on,
\* unless it lost it because it could not see that it was there.
ConversionKeepsFixtures == exit = "ok" /\ ~unseen => before \subseteq packDir

\* main.go:173-177: a conversion that succeeds has kept the fixtures.  An error of stat that is
\* not absence is passed over (main.go:226, 240, 260), and with it they go.
SuccessKeepsFixtures == exit = "ok" => before \subseteq packDir

\* What is signed is all of the directory: every fixture the operator wrote and left there is
\* in the archive the server will judge robots by.
ArchiveIsTheDirectory == \A a \in archived : a.files = a.dir

\* A public key that was written after a private one is that one's: the server is never given
\* a public key for which there was no private key file.
PublicFollowsPrivate == [][pubFile' # pubFile => pubFile' = keyFile']_toolVars

\* main.go:173-177: manual fixtures are kept by backing them up and restoring them.  Not when
\* a step fails after the directory was removed: the copy is deleted with the run.
FixturesAreKept ==
    converting = "idle" => \A i \in written : Fixture(i) \in packDir

\* archive.go:5: the loader takes the archive as it is.  Not when a conversion put the generated
\* check of a fixture's id back beside it.
ArchivesLoad == \A a \in archived : LoadsAt(a)

\* Converting again keeps the fixtures, the archive is the directory, and the
\* public key follows the private one.
ToolsAreSound ==
    /\ [](ConversionKeepsFixtures /\ ArchiveIsTheDirectory)
    /\ PublicFollowsPrivate
================================================================================
