---------------------------- MODULE SessionMemory ----------------------------
(* What a session remembers: the answers to the runtime's questions, the   *)
(* decisions they and the user make, and the session log, each in a JSON   *)
(* file of its own that a request reads, changes and writes again; and the *)
(* context of decisions that plans are generated in.                       *)
(*                                                                         *)
(* The server has no lock: requests interleave at every await. `overlap`   *)
(* says which may: none, all, or only such that one request at a time      *)
(* writes decisions. Reads and writes may fail, and the process may be     *)
(* killed and started again.                                               *)
(*                                                                         *)
(* Abstracted: of a statement, its category and what the code looks for in *)
(* its text; of a log entry, which answer it records, if any. The database *)
(* stands for the four names the code gives it (database, base de datos,   *)
(* prisma, migraciones).                                                   *)
EXTENDS Naturals, Sequences, SequencesExt

CONSTANTS
    Handlers,       \* requests the server may be working on at a time
    Questions,      \* identifiers of questions clients answer
    Chosen,         \* the answers they give, by the kind of the question
    Statements,     \* the statements users add themselves
    MaxCalls,       \* bound on the requests made one after another
    MaxOverlaps,    \* bound on the requests where they may overlap
    MaxCrashes      \* bound on the times the server is killed

Kinds == {"scope", "permission", "workspace", "architecture", "security", "verification"}
Categories == {"scope", "permission", "workspace", "architecture", "security", "workflow",
               "coding_style"}
Words == {"backend", "frontend", "package.json", "database"}
Scopes == Words \cup {"prisma", "migrations"}
Modes == {"local_snapshot", "local_patchless", "git_diff", "git_branch_pr"}

\* RuntimeQuestionEngine: the answers a question offers
Options(kind) ==
    CASE kind = "scope"        -> {"frontend", "backend", "fullstack"}
      [] kind = "permission"   -> {"allow_package_json", "block_package_json"}
      [] kind = "workspace"    -> Modes
      [] kind = "architecture" -> {"database_readonly", "database_with_approval", "database_allowed"}
      [] kind = "security"     -> {"security_strict", "security_normal"}
      [] kind = "verification" -> {"typecheck", "lint", "test", "build"}
AnyAnswer == {"none"} \cup UNION {Options(k) : k \in Kinds}

\* An identifier: the kind of the question and the millisecond it was asked in
Identifier == [kind : Kinds, at : Nat]
NoQuestion == [kind |-> "scope", at |-> 0]

Statement ==
    [category : Categories, words : SUBSET Words, forbids : BOOLEAN, permits : BOOLEAN,
     mode : Modes \cup {"none"}]
Decision == [of : Identifier, answer : AnyAnswer, statement : Statement]
Answered == [of : Identifier, answer : AnyAnswer]
Entry == [kind : {"action", "message", "decision"}, of : Identifier, answer : AnyAnswer]

ASSUME BoundsAssumption == MaxCalls \in Nat /\ MaxOverlaps \in Nat /\ MaxCrashes \in Nat
ASSUME ClientsAssumption ==
    /\ Questions \subseteq Identifier /\ NoQuestion \notin Questions
    /\ Chosen \in [Kinds -> SUBSET AnyAnswer]
    /\ \A k \in Kinds : Chosen[k] \subseteq Options(k)
    /\ Statements \subseteq Statement

(* --------------- from an answer to a decision, to a context ------------ *)

Saying(category, words, forbids, permits) ==
    [category |-> category, words |-> words, forbids |-> forbids, permits |-> permits, mode |-> "none"]

\* RuntimeQuestionDecisionMapper.map, for a question of a category
Mapped(category, kind, a) ==
    CASE category = "scope" /\ a \in {"frontend", "backend"} ->
            Saying("scope", {"backend", "frontend"}, TRUE, FALSE)
      [] category = "scope" /\ a = "fullstack" -> Saying("scope", {}, FALSE, TRUE)
      [] category = "workspace" -> [Saying("workspace", {}, FALSE, FALSE) EXCEPT !.mode = a]
      [] category = "architecture" ->
            Saying("architecture", {"database"}, a = "database_readonly", a # "database_readonly")
      [] category = "permission" /\ kind = "permission" ->
            Saying("permission", {"package.json"}, a = "block_package_json", a = "allow_package_json")
      [] category = "security" -> Saying("security", {}, FALSE, FALSE)
      [] category = "verification" -> Saying("workflow", {}, FALSE, FALSE)
      \* Any other answer is quoted, with the identifier of its question.
      [] OTHER -> Saying(category, {"database"}, a = "database_readonly", a = "database_allowed")

\* createFallbackRuntimeQuestion: the category read off identifier and answer.
\* The identifier of the architecture question says `database`.
Inferred(kind, a) ==
    IF kind # "architecture" THEN kind
    ELSE IF a = "database_with_approval" THEN "permission" ELSE "scope"

Decided(id, a, found) ==
    [of |-> id, answer |-> a,
     statement |-> Mapped(IF found THEN id.kind ELSE Inferred(id.kind, a), id.kind, a)]

\* DecisionApplier.apply
Database == {"database", "prisma", "migrations"}
BlockedBy(s) ==
    CASE ~s.forbids -> {}
      [] s.category = "scope" -> s.words \cap {"backend", "frontend"}
      [] s.category = "permission" -> s.words \cap {"package.json", "database"}
      [] s.category = "architecture" /\ "database" \in s.words -> Database
      [] OTHER -> {}
AllowedBy(s) ==
    CASE ~s.permits -> {}
      [] s.category = "scope" -> s.words \cap {"backend", "frontend"}
      [] s.category = "architecture" -> s.words \cap {"database"}
      [] OTHER -> {}

Allowed(l) == UNION {AllowedBy(l[i].statement) : i \in DOMAIN l}
\* Mutant: what is allowed is not blocked.
BlockedUnlessAllowed(l) == (UNION {BlockedBy(l[i].statement) : i \in DOMAIN l}) \ Allowed(l)

Blocked(l) == UNION {BlockedBy(l[i].statement) : i \in DOMAIN l}

\* The last decision about the workspace mode holds.
Mode(l) ==
    LET Named == {i \in DOMAIN l : l[i].statement.category = "workspace"
                                   /\ l[i].statement.mode # "none"}
    IN  IF Named = {} THEN "none"
        ELSE l[CHOOSE i \in Named : \A j \in Named : j <= i].statement.mode

Contexts == [blocked : SUBSET Scopes, allowed : SUBSET Words, mode : Modes \cup {"none"}]
Context(l) == [blocked |-> Blocked(l), allowed |-> Allowed(l), mode |-> Mode(l)]

(* -------------------------------- the state ---------------------------- *)

VARIABLES
    files,      \* answers.json, decisions.json and session-state.json
    local,      \* each request: where it is, what it asks and what it holds
    plan,       \* the plan saved last: its context, and what was settled before
                \* it was asked for
    settled,    \* history: the scopes that acknowledged requests blocked
    open,       \* history: questions whose last answer was not acknowledged
    overlap,    \* which requests may overlap
    calls,      \* the requests begun
    crashes     \* the times the server was killed

vars == <<files, local, plan, settled, open, overlap, calls, crashes>>

Stores == {"answers", "decisions", "log"}

\* A file that was truncated is empty until it is written; one two requests
\* wrote over each other may hold the end of a longer text.
Holding(l) == [kind |-> "whole", list |-> l]
NoFile     == [kind |-> "absent", list |-> <<>>]
EmptyFile  == [kind |-> "empty", list |-> <<>>]
TornFile   == [kind |-> "torn", list |-> <<>>]
Kept == [answers |-> Answered, decisions |-> Decision, log |-> Entry]
File(f) == {NoFile, EmptyFile, TornFile} \cup {Holding(l) : l \in Seq(Kept[f])}

Asks ==
    {[op |-> "answer", id |-> q, answer |-> a] : q \in Questions, a \in AnyAnswer}
    \cup [op : {"decide"}, statement : Statements]
    \cup [op : {"plan", "note", "say"}]
\* Clients answer a question with one of the chosen answers.
Posed == {k \in Asks : k.op = "answer" => k.answer \in Chosen[k.id.kind]}

NoDecision == [of |-> NoQuestion, answer |-> "none", statement |-> Saying("workflow", {}, FALSE, FALSE)]

Request ==
    [pc : {"idle", "early", "load", "work", "open", "write", "done"}, on : Stores, ask : Asks, own : Decision,
     list : Seq(Answered) \cup Seq(Decision) \cup Seq(Entry), context : Contexts, due : SUBSET Scopes]
Idle ==
    [pc |-> "idle", on |-> "log", ask |-> [op |-> "note"], own |-> NoDecision,
     list |-> <<>>, context |-> Context(<<>>), due |-> {}]

Init ==
    /\ files = [f \in Stores |-> IF f = "log" THEN Holding(<<>>) ELSE NoFile]
    /\ local = [h \in Handlers |-> Idle]
    /\ plan = [context |-> Context(<<>>), due |-> {}]
    /\ settled = {} /\ open = {}
    /\ overlap \in {"none", "one decides", "all"}
    /\ calls = 0 /\ crashes = 0

At(h, l) == local[h].pc = l
Become(h, r) == local' = [local EXCEPT ![h] = r]
Decides(k) == k.op \in {"answer", "decide"}

(* ------------------------------ the requests --------------------------- *)

\* An answer and a user's decision go to the stores first; the others, and an
\* answer to see which questions there are, load the session log first.
Begin(h) ==
    /\ At(h, "idle")
    /\ calls < (IF overlap = "none" THEN MaxCalls ELSE MaxOverlaps)
    /\ calls' = calls + 1
    /\ \E k \in Posed :
        /\ \A g \in Handlers :
            ~At(g, "idle") => \/ overlap = "all"
                              \/ overlap = "one decides" /\ ~(Decides(k) /\ Decides(local[g].ask))
        /\ Become(h,
            IF k.op = "decide"
            THEN [Idle EXCEPT !.pc = "load", !.on = "decisions", !.ask = k, !.due = settled,
                    !.own = [NoDecision EXCEPT !.statement = k.statement]]
            ELSE [Idle EXCEPT !.pc = "early", !.ask = k, !.due = settled])
        /\ open' = IF k.op = "answer" THEN open \cup {k.id} ELSE open
    /\ UNCHANGED <<files, plan, settled, overlap, crashes>>

\* The request rejects.
Reject(h) == Become(h, Idle)
Save(h, f, l) == Become(h, [local[h] EXCEPT !.pc = "open", !.on = f, !.list = l])
Loads(h, f) == Become(h, [local[h] EXCEPT !.pc = "load", !.on = f])

ActionEntry  == [kind |-> "action", of |-> NoQuestion, answer |-> "none"]
MessageEntry == [kind |-> "message", of |-> NoQuestion, answer |-> "none"]
DecisionEntry(d) == [kind |-> "decision", of |-> d.of, answer |-> d.answer]

\* QuestionAnswerStore.addAnswer: the answers to other questions are kept.
Others(l, id) ==
    LET kept[i \in 0..Len(l)] ==
            IF i = 0 THEN <<>>
            ELSE IF l[i].of = id THEN kept[i - 1]
            ELSE Append(kept[i - 1], l[i])
    IN  kept[Len(l)]
OthersAnd(l, r) == Append(Others(l, r.of), r)

\* Mutant: an answer is kept beside the ones given before.
ProceedAppending(h, l) ==
    LET k == local[h].ask
    IN  \/ /\ local[h].on = "answers"
           /\ Save(h, "answers", Append(l, [of |-> k.id, answer |-> k.answer]))
        \/ /\ local[h].on = "decisions" /\ Decides(k)
           /\ Save(h, "decisions", Append(l, local[h].own))
        \/ /\ local[h].on = "decisions" /\ k.op = "plan"
           /\ Become(h, [local[h] EXCEPT !.pc = "work", !.on = "log", !.context = Context(l)])
        \/ /\ local[h].on = "log"
           /\ Save(h, "log", Append(l, DecisionEntry(local[h].own)))

\* What follows a load of the store the request is at: an answer replaces the
\* ones given before to its question; a decision, and the entry about it, are
\* added; a plan takes the context.
Proceed(h, l) ==
    LET k == local[h].ask
    IN  \/ /\ local[h].on = "answers"
           /\ Save(h, "answers", OthersAnd(l, [of |-> k.id, answer |-> k.answer]))
        \/ /\ local[h].on = "decisions" /\ Decides(k)
           /\ Save(h, "decisions", Append(l, local[h].own))
        \/ /\ local[h].on = "decisions" /\ k.op = "plan"
           /\ Become(h, [local[h] EXCEPT !.pc = "work", !.on = "log", !.context = Context(l)])
        \/ /\ local[h].on = "log"
           /\ Save(h, "log", Append(l, DecisionEntry(local[h].own)))

Unchanged == UNCHANGED <<settled, open, overlap, calls, crashes>>

\* session.load, before anything else
LoadEarly(h) ==
    /\ At(h, "early")
    /\ LET l == files["log"].list
           k == local[h].ask
       IN  \/ files["log"].kind # "whole" /\ Reject(h)
           \/ /\ files["log"].kind = "whole"
              /\ \/ k.op = "answer" /\ Loads(h, "answers")
                 \/ k.op = "plan" /\ Become(h, [local[h] EXCEPT !.pc = "load", !.on = "decisions", !.list = l])
                 \/ k.op = "note" /\ Become(h, [local[h] EXCEPT !.pc = "work", !.list = l])
                 \/ k.op = "say" /\ Save(h, "log", Append(l, MessageEntry))
    /\ UNCHANGED <<files, plan>> /\ Unchanged

\* Mutant: a file that does not parse holds nothing.
LoadForgives(h) ==
    /\ At(h, "load")
    /\ LET f == local[h].on
       IN  \/ files[f].kind = "absent" /\ f = "log" /\ Reject(h)
           \/ (files[f].kind # "absent" \/ f # "log") /\ Proceed(h, files[f].list)
    /\ UNCHANGED <<files, plan>> /\ Unchanged

\* Answers and decisions that are missing are none yet; a file that does not
\* parse, or a log that is missing, rejects the request.
Load(h) ==
    /\ At(h, "load")
    /\ LET f == local[h].on
       IN  \/ files[f].kind = "whole" /\ Proceed(h, files[f].list)
           \/ files[f].kind = "absent" /\ f # "log" /\ Proceed(h, <<>>)
           \/ files[f].kind = "absent" /\ f = "log" /\ Reject(h)
           \/ files[f].kind \in {"empty", "torn"} /\ Reject(h)
    /\ UNCHANGED <<files, plan>> /\ Unchanged

\* What a handler does between loading the log and adding to it: a plan is
\* generated, by the provider or the runtime, and saved.
Work(h) ==
    /\ At(h, "work")
    /\ plan' = IF local[h].ask.op = "plan"
               THEN [context |-> local[h].context, due |-> local[h].due]
               ELSE plan
    /\ Save(h, "log", Append(local[h].list, ActionEntry))
    /\ UNCHANGED files /\ Unchanged

\* writeFile truncates the file,
Open(h) ==
    /\ At(h, "open")
    /\ files' = [files EXCEPT ![local[h].on] = EmptyFile]
    /\ Become(h, [local[h] EXCEPT !.pc = "write"])
    /\ UNCHANGED plan /\ Unchanged

\* and writes the text from its beginning, over what another request has
\* written there since.
WriteText(h) ==
    LET f == local[h].on
    IN  \E new \in IF files[f].kind = "empty" THEN {Holding(local[h].list)}
                   ELSE {Holding(local[h].list), TornFile} :
            files' = [files EXCEPT ![f] = new]

\* `find`: the first answer to the question in the list that was saved
FirstAnswer(l, id) ==
    l[CHOOSE i \in DOMAIN l : l[i].of = id /\ \A j \in DOMAIN l : l[j].of = id => i <= j].answer

\* An answer was saved: it is mapped to a decision. A question is found again
\* only in the millisecond it was asked in.
AnswerWritten(h) ==
    /\ At(h, "write") /\ local[h].on = "answers"
    /\ WriteText(h)
    /\ \E found \in BOOLEAN :
        LET id == local[h].ask.id
        IN  Become(h, [local[h] EXCEPT !.pc = "load", !.on = "decisions",
                        !.own = Decided(id, FirstAnswer(local[h].list, id), found)])
    /\ UNCHANGED plan /\ Unchanged

\* Mutant: the session log is given the list of the decision store.
DecisionWrittenTwice(h) ==
    /\ At(h, "write") /\ local[h].on = "decisions"
    /\ WriteText(h)
    /\ Save(h, "log", local[h].list)
    /\ UNCHANGED plan /\ Unchanged

DecisionWritten(h) ==
    /\ At(h, "write") /\ local[h].on = "decisions"
    /\ WriteText(h)
    /\ Loads(h, "log")
    /\ UNCHANGED plan /\ Unchanged

\* Mutant: the action is added to the log as it was before the message.
MessageWrittenStale(h) ==
    /\ At(h, "write") /\ local[h].on = "log" /\ Last(local[h].list) = MessageEntry
    /\ WriteText(h)
    /\ Save(h, "log", Append(Front(local[h].list), ActionEntry))
    /\ UNCHANGED plan /\ Unchanged

\* A message is followed by an action, in a save of its own.
MessageWritten(h) ==
    /\ At(h, "write") /\ local[h].on = "log" /\ Last(local[h].list) = MessageEntry
    /\ WriteText(h)
    /\ Save(h, "log", Append(local[h].list, ActionEntry))
    /\ UNCHANGED plan /\ Unchanged

LogWritten(h) ==
    /\ At(h, "write") /\ local[h].on = "log" /\ Last(local[h].list) # MessageEntry
    /\ WriteText(h)
    /\ Become(h, [local[h] EXCEPT !.pc = "done"])
    /\ UNCHANGED plan /\ Unchanged

\* The request is answered.
Acknowledge(h) ==
    /\ At(h, "done")
    /\ settled' = settled \cup BlockedBy(local[h].own.statement)
    /\ open' = IF local[h].ask.op = "answer" THEN open \ {local[h].ask.id} ELSE open
    /\ Reject(h)
    /\ UNCHANGED <<files, plan, overlap, calls, crashes>>

\* A read or a write fails; a failed write leaves the file empty or torn.
Fails(h) ==
    /\ ~At(h, "idle")
    /\ \E new \in IF At(h, "write") THEN {files[local[h].on], TornFile} ELSE {files[local[h].on]} :
        files' = [files EXCEPT ![local[h].on] = new]
    /\ Reject(h)
    /\ UNCHANGED plan /\ Unchanged

Crash ==
    /\ crashes < MaxCrashes
    /\ crashes' = crashes + 1
    /\ \E Lost \in SUBSET {local[h].on : h \in {g \in Handlers : At(g, "write")}} :
        files' = [f \in Stores |-> IF f \in Lost THEN TornFile ELSE files[f]]
    /\ local' = [h \in Handlers |-> Idle]
    /\ UNCHANGED <<plan, settled, open, overlap, calls>>

Step(h) ==
    \/ Begin(h) \/ LoadEarly(h) \/ Load(h) \/ Work(h) \/ Open(h) \/ AnswerWritten(h)
    \/ DecisionWritten(h) \/ MessageWritten(h) \/ LogWritten(h) \/ Acknowledge(h) \/ Fails(h)

Next == Crash \/ \E h \in Handlers : Step(h)

Spec == Init /\ [][Next]_vars

(* -------------------------------- properties --------------------------- *)

\* Every variable keeps its type.
TypeOK ==
    /\ \A f \in Stores : files[f].kind \in {"absent", "empty", "torn", "whole"} /\ files[f].list \in Seq(Kept[f])
    /\ \A h \in Handlers : local[h] \in Request /\ (local[h].pc \in {"open", "write"} => local[h].list \in Seq(Kept[local[h].on]))
    /\ plan \in [context : Contexts, due : SUBSET Scopes]
    /\ settled \subseteq Scopes /\ open \subseteq Questions
    /\ overlap \in {"none", "one decides", "all"}
    /\ calls \in Nat /\ crashes \in 0..MaxCrashes

Readable(f) == files[f].kind \in {"absent", "whole"}

\* Unless requests that decide overlap, whatever else overlaps, fails or is
\* cut short: what an acknowledged decision blocked stays blocked, whatever is
\* decided after it.
BlockedIsPreserved ==
    overlap # "all" /\ Readable("decisions") => settled \subseteq Blocked(files["decisions"].list)

\* Nor is a plan saved that does not heed a decision that was acknowledged
\* before the plan was asked for.
PlanHeedsDecisions == overlap # "all" => plan.due \subseteq plan.context.blocked

Latest(l, id) ==
    LET About == {i \in DOMAIN l : l[i].of = id}
    IN  IF About = {} THEN "none" ELSE l[CHOOSE i \in About : \A j \in About : j <= i].answer

\* While requests do not overlap, whatever failed: the answer, the last
\* decision and the last log entry of a question agree, but for a question
\* whose last answer was not acknowledged.
RecordsAgree ==
    overlap = "none" /\ (\A f \in Stores : Readable(f)) =>
        \A id \in Questions \ open :
            /\ Latest(files["answers"].list, id) = Latest(files["decisions"].list, id)
            /\ Latest(files["decisions"].list, id) = Latest(files["log"].list, id)

\* The log the file stands for: the one being written, or the one it holds.
WritingLog == {h \in Handlers : At(h, "write") /\ local[h].on = "log"}
Log == IF WritingLog # {} THEN local[CHOOSE h \in WritingLog : TRUE].list ELSE files["log"].list
LogDamaged == WritingLog = {} /\ ~Readable("log")

\* While requests do not overlap: nothing leaves the log, until it is damaged.
LogOnlyGrows == [][overlap = "none" => LogDamaged' \/ IsPrefix(Log, Log')]_vars
=============================================================================
