-------------------------- MODULE MCRepairAttempt --------------------------
(* Instances of RepairAttempt for TLC: one attempt that may be asked       *)
(* anything, and a plain one that shares its report file.                  *)
EXTENDS RepairAttempt, TLC

CONSTANTS any, plain, target, other, oss, mini, opus, sonnet

\* oss carries ":free", mini both "gpt-4" and "mini"; sonnet is premium to the agent only.
AgentsPremium == {mini, opus, sonnet}
TierOfNames == oss :> "free" @@ mini :> "cheap" @@ opus :> "premium" @@ sonnet :> "free"

Fake == [caller |-> "user", provider |-> "fake-llm", model |-> NoModel, completion |-> 0,
         allowReal |-> FALSE, allowPremium |-> FALSE, premiumApproved |-> FALSE,
         targets |-> {target}]
Bare == [enabled |-> FALSE, valid |-> FALSE, model |-> NoModel]

\* Flags and estimates matter only where a remote model is asked for, and an estimate
\* only where the model is one that may be used.
RemoteAsks ==
    {q \in [caller : {"user", "agent"}, provider : {"openrouter"},
            model : {mini, opus, sonnet, NoModel}, completion : {0, 3000, 9000},
            allowReal : BOOLEAN, allowPremium : BOOLEAN, premiumApproved : BOOLEAN,
            targets : {{target}}] :
        /\ q.completion > 0 => q.model = mini /\ q.premiumApproved
        /\ q.premiumApproved => q.allowPremium
        /\ ~q.allowReal => q.premiumApproved}

RemoteEnvironments ==
    {Bare, [enabled |-> TRUE, valid |-> FALSE, model |-> NoModel]}
    \cup [enabled : {TRUE}, valid : {TRUE}, model : {NoModel, oss, opus}]

AnyCalls ==
    [ask : RemoteAsks, env : RemoteEnvironments]
    \cup [ask : {Fake, [Fake EXCEPT !.targets = {}], [Fake EXCEPT !.provider = "static"]},
          env : {Bare}]

CallsOf == any :> AnyCalls @@ plain :> [ask : {[Fake EXCEPT !.provider = "static", !.targets = Files]}, env : {Bare}]

Replace(f) == [kind |-> "replace_file", file |-> f]
SomeReplies ==
    {[operations |-> {Replace(target)}, flagged |-> FALSE],
     [operations |-> {Replace(target)}, flagged |-> TRUE],
     [operations |-> {Replace(target), Replace(other)}, flagged |-> FALSE],
     [operations |-> {[kind |-> "delete_file", file |-> target]}, flagged |-> FALSE]}

\* On both sides of the limit.
SomePrompts == {8000, 9000}
=============================================================================
