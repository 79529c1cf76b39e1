------------------------------ MODULE AdvisorAsk ------------------------------
(***************************************************************************)
(* The advisor of one tenant: internal/app/advisorrun over                 *)
(* internal/domain/advisor/sqliterepo, an llm adapter and the licence's    *)
(* daily token quota.  One Ask is one transaction with the calls to the    *)
(* model inside it: on SQLite's one connection nothing else runs until it  *)
(* ends, on PostgreSQL others commit meanwhile.  That a tool reads another *)
(* domain is left out but for its error; conflicts over the audit chain    *)
(* are AuditChain's subject.                                               *)
(***************************************************************************)
EXTENDS Integers, FiniteSets, FiniteSetsExt, Sequences

CONSTANTS
    Askers,          \* requests that may be under way
    Providers,       \* adapters the server may be configured with
    DefaultMaxToolCalls, \* rounds of tool calls in one Ask, unless its caller says otherwise (5)
    MostToolCalls,   \* bound: the MaxToolCalls a caller asks for, which the code does not cap
    TokenLimit,      \* llm_tokens_per_day
    CallTokens,      \* bound: tokens a call reports
    MaxConversations,\* bound: conversations
    MaxTurns         \* bound: rows of advisor_turns

ASSUME AdvisorAssumption ==
    /\ IsFiniteSet(Askers)
    /\ MostToolCalls \in Nat /\ DefaultMaxToolCalls \in 1..MostToolCalls
    /\ TokenLimit \in Nat \ {0} /\ CallTokens \in Nat \ {0}

VARIABLES
    advisorDb, provider,
    conversations,  \* rows of advisor_conversations
    turns,          \* rows of advisor_turns, in commit order
    audited,        \* committed audit entries, counted by action
    ask             \* ask[q]: a request

advisorVars == <<advisorDb, provider, conversations, turns, audited, ask>>

NotAsking == [at |-> "idle"]
NoAudit == [started |-> 0, toolCalled |-> 0, responded |-> 0]
\* Every token of every turn.
UsedToday == Cardinality(UNION {{i} \X (1..turns[i].tokens) : i \in DOMAIN turns})

AdvisorInit ==
    /\ advisorDb \in {"sqlite", "postgres"} /\ provider \in Providers
    /\ conversations = {} /\ turns = <<>> /\ audited = NoAudit
    /\ ask = [q \in Askers |-> NotAsking]

--------------------------------------------------------------------------------
(* The adapters: what a reply of the provider's endpoint becomes. *)

Failed == [ok |-> FALSE, content |-> FALSE, tokens |-> 0]
Answered(content, tokens) == [ok |-> TRUE, content |-> content, tokens |-> tokens]
\* One JSON document: a body cut short does not parse; no text block is an empty answer.
AnthropicComplete(reply) ==
    CASE reply = "answer" -> Answered(TRUE, CallTokens)
      [] reply = "empty" -> Answered(FALSE, CallTokens)
      [] OTHER -> Failed
\* An empty list of choices is an error here.
VllmComplete(reply) == IF reply = "answer" THEN Answered(TRUE, CallTokens) ELSE Failed
\* NDJSON: a stream that ends before its last line is taken for the whole answer, and the
\* counts, which are on that line, for zero.
OllamaComplete(reply) ==
    CASE reply = "answer" -> Answered(TRUE, CallTokens)
      [] reply = "empty" -> Answered(FALSE, CallTokens)
      [] reply = "cut" -> Answered(TRUE, 0)
      [] OTHER -> Failed
NoopComplete(reply) == Failed
Replies == {"answer", "empty", "cut", "refused"}
Complete(reply) ==
    CASE provider = "anthropic" -> AnthropicComplete(reply)
      [] provider = "vllm" -> VllmComplete(reply)
      [] provider = "ollama" -> OllamaComplete(reply)
      [] OTHER -> NoopComplete(reply)

--------------------------------------------------------------------------------
(* AppendTurn. *)

\* Bug: the turns this transaction has written are not counted.
NextSequence_Committed(c, own) == Cardinality({j \in DOMAIN turns : turns[j].conv = c})
\* MAX(sequence) + 1 of the rows this transaction sees.
NextSequence(c, own) ==
    LET seen == {turns[i].seq : i \in {j \in DOMAIN turns : turns[j].conv = c}}
                \cup {own[i].seq : i \in DOMAIN own}
    IN IF seen = {} THEN 0 ELSE Max(seen) + 1
Turn(c, own, role, content, calls, tokens) ==
    [conv |-> c, seq |-> NextSequence(c, own), role |-> role, content |-> content,
     calls |-> calls, tokens |-> tokens]
\* Bug: a round of tools is audited as one call.
Written_Once(call, role, content, calls, tokens) ==
    [call EXCEPT !.rows = Append(call.rows, Turn(call.conv, call.rows, role, content, calls, tokens)),
                 !.trail = [call.trail EXCEPT !.toolCalled = call.trail.toolCalled + (IF calls > 0 THEN 1 ELSE 0),
                            !.responded = call.trail.responded + (IF role = "assistant" /\ content THEN 1 ELSE 0)]]
Written(call, role, content, calls, tokens) ==
    [call EXCEPT !.rows = Append(call.rows, Turn(call.conv, call.rows, role, content, calls, tokens)),
                 !.trail = [call.trail EXCEPT !.toolCalled = call.trail.toolCalled + calls,
                            !.responded = call.trail.responded + (IF role = "assistant" /\ content THEN 1 ELSE 0)]]

\* The transaction ends: its rows and audit entries, or none of them.
Commit(q, call) ==
    /\ turns' = turns \o call.rows
    /\ conversations' = conversations \cup {call.conv}
    /\ audited' = [a \in DOMAIN audited |-> audited[a] + call.trail[a]]
    /\ ask' = [ask EXCEPT ![q] = NotAsking]
\* Bug: what was written before the failure stays.
Rollback_Keep(q) == Commit(q, ask[q])
Rollback(q) ==
    /\ ask' = [ask EXCEPT ![q] = NotAsking]
    /\ UNCHANGED <<turns, conversations, audited>>

--------------------------------------------------------------------------------
(* One request. *)

NoAsk == \A q \in Askers : ask[q].at \notin {"model"}
\* Ids are never given twice, whether or not their transaction commits.
Started == {ask[q].conv : q \in {p \in Askers : ask[p].at = "model" /\ ask[p].new}}
NewConversation == Max(conversations \cup Started \cup {0}) + 1

\* Bug: the limit is compared with this request's estimate alone.
CheckLLMTokens_One(used) == 1 <= TokenLimit
\* CheckLLMTokens(1): the tokens of the answer are not known yet.
CheckLLMTokens(used) == used + 1 <= TokenLimit

\* AskAdvisor: the quota is read in a transaction of its own.
CheckQuota(q) ==
    /\ ask[q] = NotAsking
    /\ advisorDb = "sqlite" => NoAsk
    /\ CheckLLMTokens(UsedToday)
    /\ ask' = [ask EXCEPT ![q] = [at |-> "admitted"]]
    /\ UNCHANGED <<advisorDb, provider, conversations, turns, audited>>

\* The body of the request names the rounds of tool calls it allows, or leaves it to the default.
MaxCalls(asked) == IF asked <= 0 THEN DefaultMaxToolCalls ELSE asked

\* Ask begins: the conversation, if it is new, and the user's turn.
BeginAsk(q) ==
    /\ ask[q].at = "admitted"
    /\ advisorDb = "sqlite" => NoAsk
    /\ Len(turns) < MaxTurns
    /\ \E asked \in 0..MostToolCalls :
       \/ \E c \in conversations :
            ask' = [ask EXCEPT ![q] = Written([at |-> "model", conv |-> c, new |-> FALSE, rounds |-> 0,
                                               limit |-> MaxCalls(asked), rows |-> <<>>, trail |-> NoAudit], "user", TRUE, 0, 0)]
       \/ /\ NewConversation <= MaxConversations
          /\ ask' = [ask EXCEPT ![q] = Written([at |-> "model", conv |-> NewConversation, new |-> TRUE, rounds |-> 0,
                                                limit |-> MaxCalls(asked), rows |-> <<>>, trail |-> [NoAudit EXCEPT !.started = 1]], "user", TRUE, 0, 0)]
    /\ UNCHANGED <<advisorDb, provider, conversations, turns, audited>>

\* Any error of the adapter is ErrAdvisorDisabled to the caller, and rolls all back.
ModelFails(q) ==
    /\ ask[q].at = "model"
    /\ \E reply \in Replies : ~Complete(reply).ok
    /\ Rollback(q)
    /\ UNCHANGED <<advisorDb, provider>>

ModelAnswers(q) ==
    /\ ask[q].at = "model"
    /\ \E reply \in Replies :
         /\ Complete(reply).ok
         /\ Commit(q, Written(ask[q], "assistant", Complete(reply).content, 0, Complete(reply).tokens))
    /\ UNCHANGED <<advisorDb, provider>>

\* LLMClientAdapter parses no tool calls yet (its answers carry none); the loop is there.
\* Tools are called and their results, errors included, are the next message; their turn
\* is written after the last of them.
ModelCallsTools(q) ==
    /\ ask[q].at = "model" /\ ask[q].rounds < ask[q].limit
    /\ \E calls \in 1..2, content \in BOOLEAN :
         ask' = [ask EXCEPT ![q] = [Written(ask[q], "assistant", content, calls, CallTokens)
                                      EXCEPT !.rounds = ask[q].rounds + 1]]
    /\ UNCHANGED <<advisorDb, provider, conversations, turns, audited>>

\* Past the last round: the partial answer goes to the caller and into no row.
ToolLimit(q) ==
    /\ ask[q].at = "model" /\ ask[q].rounds >= ask[q].limit
    /\ Commit(q, ask[q])
    /\ UNCHANGED <<advisorDb, provider>>

AskStep(q) ==
    CheckQuota(q) \/ BeginAsk(q) \/ ModelFails(q) \/ ModelAnswers(q) \/ ModelCallsTools(q) \/ ToolLimit(q)
AdvisorNext == \E q \in Askers : AskStep(q)
AdvisorSpec == AdvisorInit /\ [][AdvisorNext]_advisorVars

--------------------------------------------------------------------------------
(* Properties. *)

Of(c) == {i \in DOMAIN turns : turns[i].conv = c}

\* A conversation is read back in the order of its sequence numbers, so with SQLite's one
\* connection no two of its turns share one and they count from 0 without a gap.  On
\* PostgreSQL two asks in one conversation take the same numbers: no index forbids it.
TurnsAreNumbered ==
    advisorDb = "sqlite" => \A c \in conversations : {turns[i].seq : i \in Of(c)} = 0..(Cardinality(Of(c)) - 1)

\* The audit trail and the rows tell the same story whatever becomes of an Ask: an entry
\* for each conversation begun, each tool called and each answer given.
AuditTellsAsks ==
    /\ audited.started = Cardinality(conversations)
    /\ audited.toolCalled = Cardinality(UNION {{i} \X (1..turns[i].calls) : i \in DOMAIN turns})
    /\ audited.responded = Cardinality({i \in DOMAIN turns : turns[i].role = "assistant" /\ turns[i].content})

\* The quota is charged after the answer, so it may be passed, but only by requests that
\* were admitted below it: one Ask's tokens for each of them at most.  How many rounds an
\* Ask has is its caller's to say.
OvershootIsBounded ==
    UsedToday <= TokenLimit - 1 + Cardinality(Askers) * (MostToolCalls + 1) * CallTokens

\* The statement of DefaultMaxToolCalls, the limit of the tool calls of one Ask that guards
\* its cost: not so for a caller that asks for more.
DefaultGuardsTheCost ==
    UsedToday <= TokenLimit - 1 + Cardinality(Askers) * (DefaultMaxToolCalls + 1) * CallTokens

\* A question is on record with its answer: as many answers as questions, unless an Ask
\* used up its tool calls, one at least (advisor.go promises an audited partial answer
\* there, and nothing is written).
QuestionsHaveAnswers ==
    \A c \in conversations :
        LET asked == Cardinality({i \in Of(c) : turns[i].role = "user"})
            final == Cardinality({i \in Of(c) : turns[i].role = "assistant" /\ turns[i].calls = 0})
            rounds == Cardinality({i \in Of(c) : turns[i].calls > 0})
        IN final <= asked /\ asked - final <= rounds

\* Every Ask leaves an answer in its conversation, the partial one included.
PartialAnswersAreAudited ==
    \A c \in conversations :
        Cardinality({i \in Of(c) : turns[i].role = "user"})
          <= Cardinality({i \in Of(c) : turns[i].role = "assistant" /\ turns[i].calls = 0})

\* Turns are numbered, every ask is in the audit chain, the budget is overrun by
\* the asks in flight at most, and a question that is kept has its answer.
AdvisorIsSound ==
    /\ TurnsAreNumbered
    /\ AuditTellsAsks
    /\ OvershootIsBounded
    /\ QuestionsHaveAnswers
================================================================================
