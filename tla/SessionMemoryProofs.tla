------------------------- MODULE SessionMemoryProofs -------------------------
(* Theorems about SessionMemory, for any handlers, questions, answers,     *)
(* statements and bounds.                                                  *)
(*                                                                         *)
(* A list of the log, of answers or of decisions is followed from the file *)
(* it was read from, through the request that holds it, to the file it is  *)
(* saved to. TypeInv says what is held where; HeedInv, that what is        *)
(* blocked is in the list about to be saved or in the file; SerialInv,     *)
(* that without overlap the three stores move together.                    *)
EXTENDS SessionMemory, FiniteSetTheorems, WellFoundedInduction, TLAPS

(* ------------------------- induction on lists -------------------------- *)

\* A set of numbers has a least one: among the intervals below its members,
\* one contains no other.
LEMMA Least ==
    ASSUME NEW T \in SUBSET Nat, T # {}
    PROVE  \E x \in T : \A y \in T : x <= y
<1> DEFINE Below(n) == {k \in Nat : k < n}
           Sets == {Below(n) : n \in T}
<1>1. \A n \in Nat : Below(n) \in FiniteSubsetsOf(Nat)
  <2> TAKE n \in Nat
  <2>1. IsFiniteSet(Below(n))
    BY FS_BoundedSetOfNaturals
  <2> QED BY <2>1 DEF FiniteSubsetsOf
<1>2. Sets \subseteq FiniteSubsetsOf(Nat) /\ Sets # {}
  BY <1>1
<1>3. \E X \in Sets : \A Y \in Sets : ~ (<<Y, X>> \in StrictSubsetOrdering(Nat))
  <2> HIDE DEF Sets
  <2> QED BY <1>2, FS_StrictSubsetOrderingWellFounded, WFMin
<1>4. PICK n \in T : \A m \in T : ~ (<<Below(m), Below(n)>> \in StrictSubsetOrdering(Nat))
  BY <1>3
<1>5. \A m \in T : n <= m
  <2> SUFFICES ASSUME NEW m \in T, m < n PROVE FALSE
    OBVIOUS
  <2>1. Below(m) \subseteq Below(n) /\ m \in Below(n) /\ m \notin Below(m)
    OBVIOUS
  <2>2. <<Below(m), Below(n)>> \in (SUBSET Nat) \X (SUBSET Nat)
    OBVIOUS
  <2>3. <<Below(m), Below(n)>> \in StrictSubsetOrdering(Nat)
    BY <2>1, <2>2 DEF StrictSubsetOrdering
  <2> QED BY <2>3, <1>4
<1> QED BY <1>5

\* Induction, for the set of numbers of which something holds.
LEMMA Induction ==
    ASSUME NEW S, 0 \in S, \A n \in Nat : n \in S => n + 1 \in S
    PROVE  Nat \subseteq S
<1> SUFFICES ASSUME Nat \ S # {} PROVE FALSE
  OBVIOUS
<1>1. PICK n \in Nat \ S : \A m \in Nat \ S : n <= m
  BY Least
<1>2. n # 0 /\ n - 1 \in Nat /\ n - 1 \in S
  BY <1>1
<1>3. n - 1 + 1 \in S
  BY <1>2
<1> QED BY <1>1, <1>3

\* Of the positions of a list that are not none, there is a last one.
LEMMA LastOfThem ==
    ASSUME NEW n \in Nat, NEW T \in SUBSET (1..n), T # {}
    PROVE  \E x \in T : \A y \in T : y <= x
<1> DEFINE U == {n - x : x \in T}
<1>0. \A x \in T : x \in Nat /\ n - x \in Nat
  OBVIOUS
<1>1. U \in SUBSET Nat /\ U # {}
  BY <1>0
<1>2. PICK u \in U : \A v \in U : u <= v
  <2> HIDE DEF U
  <2> QED BY <1>1, Least
<1>3. PICK x \in T : u = n - x
  OBVIOUS
<1>4. \A y \in T : n - x <= n - y
  BY <1>2, <1>3
<1> QED BY <1>0, <1>3, <1>4

(* ---------------------- the lists of the three stores ------------------ *)

\* Appending to a list.
LEMMA Appended ==
    ASSUME NEW T, NEW l \in Seq(T), NEW e \in T
    PROVE  /\ Append(l, e) \in Seq(T)
           /\ Len(l) \in Nat /\ DOMAIN l = 1..Len(l)
           /\ Len(Append(l, e)) = Len(l) + 1 /\ DOMAIN Append(l, e) = 1..Len(l) + 1
           /\ \A i \in 1..Len(l) : Append(l, e)[i] = l[i]
           /\ Append(l, e)[Len(l) + 1] = e
OBVIOUS

\* The newest entry about a question is the last of the list, if it is about it.
LEMMA LatestAppended ==
    ASSUME NEW T, NEW l \in Seq(T), NEW e \in T, NEW id
    PROVE  Latest(Append(l, e), id) = IF e.of = id THEN e.answer ELSE Latest(l, id)
<1> DEFINE m == Append(l, e)
           n == Len(l) + 1
           About == {i \in DOMAIN l : l[i].of = id}
           Now == {i \in DOMAIN m : m[i].of = id}
<1>1. /\ Len(l) \in Nat /\ DOMAIN l = 1..Len(l) /\ DOMAIN m = 1..n
      /\ \A i \in 1..Len(l) : m[i] = l[i]
      /\ m[n] = e
  BY Appended
<1> HIDE DEF m
<1>2. CASE e.of = id
  <2>1. n \in Now /\ \A j \in Now : j <= n
    BY <1>1, <1>2
  <2>2. (CHOOSE i \in Now : \A j \in Now : j <= i) = n
    BY <2>1, <1>1
  <2> QED BY <1>1, <1>2, <2>1, <2>2 DEF Latest, m
<1>3. CASE e.of # id
  <2>1. Now = About
    BY <1>1, <1>3
  <2>2. CASE About = {}
    BY <1>3, <2>1, <2>2 DEF Latest, m
  <2>3. CASE About # {}
    <3>1. \E x \in About : \A y \in About : y <= x
      BY <1>1, <2>3, LastOfThem
    <3> DEFINE x == CHOOSE i \in About : \A j \in About : j <= i
    <3>2. x \in About
      BY <3>1
    <3>3. m[x] = l[x]
      BY <1>1, <3>2
    <3> HIDE DEF x
    <3>4. Latest(m, id) = m[CHOOSE i \in About : \A j \in About : j <= i].answer
      BY <2>1, <2>3 DEF Latest
    <3>5. Latest(l, id) = l[CHOOSE i \in About : \A j \in About : j <= i].answer
      BY <2>3 DEF Latest
    <3> QED BY <1>3, <3>3, <3>4, <3>5 DEF x, m
  <2> QED BY <2>2, <2>3
<1> QED BY <1>2, <1>3

\* What a list blocks.
LEMMA BlockedAppended ==
    ASSUME NEW T, NEW l \in Seq(T), NEW d \in T
    PROVE  Blocked(Append(l, d)) = Blocked(l) \cup BlockedBy(d.statement)
<1>1. /\ Len(l) \in Nat /\ DOMAIN l = 1..Len(l)
      /\ DOMAIN Append(l, d) = 1..Len(l) + 1
      /\ \A i \in 1..Len(l) : Append(l, d)[i] = l[i]
      /\ Append(l, d)[Len(l) + 1] = d
  BY Appended
<1> DEFINE m == Append(l, d)
           n == Len(l) + 1
<1>2. DOMAIN m = DOMAIN l \cup {n}
  BY <1>1
<1> HIDE DEF m
<1>3. \A x : x \in Blocked(m) <=> \E i \in DOMAIN m : x \in BlockedBy(m[i].statement)
  BY DEF Blocked
<1>4. \A x : x \in Blocked(l) <=> \E i \in DOMAIN l : x \in BlockedBy(l[i].statement)
  BY DEF Blocked
<1>5. m[n] = d /\ \A i \in DOMAIN l : m[i] = l[i]
  BY <1>1 DEF m
<1>6. \A x : x \in Blocked(m) <=> x \in Blocked(l) \/ x \in BlockedBy(d.statement)
  BY <1>2, <1>3, <1>4, <1>5
<1> QED BY <1>6 DEF m

\* Others is what its steps make of the list, one entry after the other.
Steps(f, l, id) ==
    f = [i \in 0..Len(l) |->
            IF i = 0 THEN <<>>
            ELSE IF l[i].of = id THEN f[i - 1]
            ELSE Append(f[i - 1], l[i])]

\* `Others` unfolds: the list built so far, step by step.
LEMMA OthersHasSteps ==
    ASSUME NEW T, NEW l \in Seq(T), NEW id
    PROVE  \E f : Steps(f, l, id) /\ Others(l, id) = f[Len(l)]
<1> DEFINE Upto(g, n) ==
        g = [i \in 0..n |->
                IF i = 0 THEN <<>>
                ELSE IF l[i].of = id THEN g[i - 1]
                ELSE Append(g[i - 1], l[i])]
    S == {n \in Nat : \E g : Upto(g, n)}
<1>1. 0 \in S
  <2>1. Upto([i \in 0..0 |-> <<>>], 0)
    OBVIOUS
  <2> QED BY <2>1
<1>2. ASSUME NEW n \in Nat, n \in S PROVE n + 1 \in S
  <2>0. PICK g : Upto(g, n)
    BY <1>2
  <2>1. \A i \in 0..n :
            g[i] = IF i = 0 THEN <<>> ELSE IF l[i].of = id THEN g[i - 1] ELSE Append(g[i - 1], l[i])
    BY <2>0
  <2> DEFINE e == IF l[n + 1].of = id THEN g[n] ELSE Append(g[n], l[n + 1])
             h == [i \in 0..n + 1 |-> IF i <= n THEN g[i] ELSE e]
  <2> HIDE DEF e
  <2>2. h[n + 1] = e /\ h[n] = g[n] /\ (n + 1) - 1 = n /\ n + 1 # 0
    OBVIOUS
  <2>3. ASSUME NEW i \in 0..n + 1
        PROVE  h[i] = IF i = 0 THEN <<>> ELSE IF l[i].of = id THEN h[i - 1] ELSE Append(h[i - 1], l[i])
    <3>1. CASE i = n + 1
      BY <2>2, <3>1 DEF e
    <3>2. CASE i = 0
      BY <2>1, <3>2
    <3>3. CASE i \in 1..n
      <4>1. h[i] = g[i] /\ h[i - 1] = g[i - 1]
        BY <3>3
      <4>2. g[i] = IF i = 0 THEN <<>> ELSE IF l[i].of = id THEN g[i - 1] ELSE Append(g[i - 1], l[i])
        BY <2>1, <3>3
      <4> HIDE DEF h
      <4> QED BY <4>1, <4>2
    <3> QED BY <3>1, <3>2, <3>3
  <2>4. h = [i \in 0..n + 1 |-> h[i]]
    OBVIOUS
  <2> HIDE DEF h
  <2>5. Upto(h, n + 1)
    BY <2>3, <2>4
  <2>6. n + 1 \in Nat /\ \E w : Upto(w, n + 1)
    BY <2>5
  <2> QED BY <2>6
<1>3. Len(l) \in S
  <2> HIDE DEF S
  <2> QED BY <1>1, <1>2, Induction
<1>4. \E f : Steps(f, l, id)
  BY <1>3 DEF Steps
<1>5. PICK f : f = (CHOOSE g : Steps(g, l, id))
  OBVIOUS
<1>6. Steps(f, l, id)
  BY <1>4, <1>5
<1>7. Others(l, id) = f[Len(l)]
  BY <1>5 DEF Others, Steps
<1> QED BY <1>6, <1>7

\* The answers to other questions are kept as they are, and no answer to this one.
LEMMA OthersKeeps ==
    ASSUME NEW T, NEW l \in Seq(T), NEW id
    PROVE  /\ Others(l, id) \in Seq(T)
           /\ \A i \in DOMAIN Others(l, id) : Others(l, id)[i].of # id
           /\ \A q : q # id => Latest(Others(l, id), q) = Latest(l, q)
<1>1. PICK f : Steps(f, l, id) /\ Others(l, id) = f[Len(l)]
  BY OthersHasSteps
<1> DEFINE Fine(n) ==
        /\ f[n] \in Seq(T)
        /\ \A i \in DOMAIN f[n] : f[n][i].of # id
        /\ \A q : q # id => Latest(f[n], q) = Latest(SubSeq(l, 1, n), q)
    S == {n \in Nat : n <= Len(l) => Fine(n)}
<1>2. 0 \in S
  <2>1. f[0] = <<>>
    BY <1>1 DEF Steps
  <2>2. SubSeq(l, 1, 0) = <<>>
    OBVIOUS
  <2>3. <<>> \in Seq(T) /\ \A i : i \notin DOMAIN <<>>
    OBVIOUS
  <2>4. Fine(0)
    BY <2>1, <2>2, <2>3
  <2> QED BY <2>4
<1>3. ASSUME NEW n \in Nat, n \in S PROVE n + 1 \in S
  <2> SUFFICES ASSUME n + 1 <= Len(l) PROVE Fine(n + 1)
    OBVIOUS
  <2>1. Fine(n)
    BY <1>3
  <2>2. l[n + 1] \in T /\ SubSeq(l, 1, n) \in Seq(T)
    OBVIOUS
  <2>3. SubSeq(l, 1, n + 1) = Append(SubSeq(l, 1, n), l[n + 1])
    OBVIOUS
  <2>4. \A q : Latest(SubSeq(l, 1, n + 1), q) =
                 IF l[n + 1].of = q THEN l[n + 1].answer ELSE Latest(SubSeq(l, 1, n), q)
    <3> TAKE q
    <3>1. Latest(Append(SubSeq(l, 1, n), l[n + 1]), q) =
            IF l[n + 1].of = q THEN l[n + 1].answer ELSE Latest(SubSeq(l, 1, n), q)
      BY <2>2, LatestAppended
    <3> QED BY <2>3, <3>1
  <2>5. f[n + 1] = IF l[n + 1].of = id THEN f[n] ELSE Append(f[n], l[n + 1])
    <3>1. n + 1 \in 0..Len(l) /\ n + 1 # 0 /\ (n + 1) - 1 = n
      OBVIOUS
    <3>2. \A i \in 0..Len(l) :
            f[i] = IF i = 0 THEN <<>> ELSE IF l[i].of = id THEN f[i - 1] ELSE Append(f[i - 1], l[i])
      BY <1>1 DEF Steps
    <3> QED BY <3>1, <3>2
  <2> HIDE DEF Fine
  <2>6. CASE l[n + 1].of = id
    BY <2>1, <2>4, <2>5, <2>6 DEF Fine
  <2>7. CASE l[n + 1].of # id
    <3>1. f[n + 1] = Append(f[n], l[n + 1]) /\ f[n] \in Seq(T)
      BY <2>1, <2>5, <2>7 DEF Fine
    <3>2. /\ f[n + 1] \in Seq(T)
          /\ \A i \in DOMAIN f[n + 1] : f[n + 1][i].of # id
      <4>1. /\ Append(f[n], l[n + 1]) \in Seq(T)
            /\ DOMAIN f[n] = 1..Len(f[n]) /\ Len(f[n]) \in Nat
            /\ DOMAIN Append(f[n], l[n + 1]) = 1..Len(f[n]) + 1
            /\ \A i \in 1..Len(f[n]) : Append(f[n], l[n + 1])[i] = f[n][i]
            /\ Append(f[n], l[n + 1])[Len(f[n]) + 1] = l[n + 1]
        BY <2>2, <3>1, Appended
      <4>2. \A i \in DOMAIN f[n] : f[n][i].of # id
        BY <2>1 DEF Fine
      <4> QED BY <2>7, <3>1, <4>1, <4>2
    <3>3. \A q : Latest(f[n + 1], q) = IF l[n + 1].of = q THEN l[n + 1].answer ELSE Latest(f[n], q)
      BY <2>2, <3>1, LatestAppended
    <3> QED BY <2>1, <2>4, <3>2, <3>3 DEF Fine
  <2> QED BY <2>6, <2>7
<1>4. Len(l) \in Nat /\ Len(l) \in S
  <2> HIDE DEF S
  <2> QED BY <1>2, <1>3, Induction
<1>5. SubSeq(l, 1, Len(l)) = l
  OBVIOUS
<1>6. Fine(Len(l))
  BY <1>4
<1> QED BY <1>1, <1>5, <1>6

\* An answer given again replaces the one before.
LEMMA AnswerReplaces ==
    ASSUME NEW T, NEW l \in Seq(T), NEW r \in T
    PROVE  /\ OthersAnd(l, r) \in Seq(T)
           /\ FirstAnswer(OthersAnd(l, r), r.of) = r.answer
           /\ \A q : Latest(OthersAnd(l, r), q) = IF r.of = q THEN r.answer ELSE Latest(l, q)
<1> DEFINE k == Others(l, r.of)
           m == Append(k, r)
           n == Len(k) + 1
<1>1. /\ k \in Seq(T)
      /\ \A i \in DOMAIN k : k[i].of # r.of
      /\ \A q : q # r.of => Latest(k, q) = Latest(l, q)
  BY OthersKeeps
<1> HIDE DEF k
<1>2. /\ m \in Seq(T)
      /\ Len(k) \in Nat /\ DOMAIN k = 1..Len(k) /\ DOMAIN m = 1..n
      /\ \A i \in 1..Len(k) : m[i] = k[i]
      /\ m[n] = r
  BY <1>1, Appended
<1>3. \A q : Latest(m, q) = IF r.of = q THEN r.answer ELSE Latest(k, q)
  BY <1>1, LatestAppended
<1>4. OthersAnd(l, r) = m
  BY DEF OthersAnd, k
<1> HIDE DEF m
<1>5. \A i \in DOMAIN m : m[i].of = r.of <=> i = n
  BY <1>1, <1>2
<1>6. (CHOOSE i \in DOMAIN m : m[i].of = r.of /\ \A j \in DOMAIN m : m[j].of = r.of => i <= j) = n
  BY <1>2, <1>5
<1>7. FirstAnswer(m, r.of) = r.answer
  BY <1>2, <1>6 DEF FirstAnswer
<1> QED BY <1>1, <1>2, <1>3, <1>4, <1>7
(* ------------------------------ the invariants ------------------------- *)

Lists == Seq(Answered) \cup Seq(Decision) \cup Seq(Entry)
Stored == [kind : {"absent", "empty", "torn", "whole"}, list : Lists]

Saving(r, f) == r.pc \in {"open", "write"} /\ r.on = f
\* Whose decision is in the decision store.
Stands(r) == (r.pc \in {"load", "open", "write"} /\ r.on = "log") \/ r.pc = "done"
\* Whose answer has become a decision.
Made(r) == (r.pc \in {"load", "open", "write"} /\ r.on \in {"decisions", "log"}) \/ r.pc = "done"

\* What a request holds, by where it is: the list of the log, or one to be
\* saved; and a decision of its own, the one its answer is mapped to.
Placed(r) ==
    /\ r.ask \in Posed
    /\ ~Decides(r.ask) => r.own = NoDecision
    /\ r.pc \in {"load", "open", "write"} =>
        /\ r.on = "answers" => r.ask.op = "answer"
        /\ r.on = "decisions" => Decides(r.ask) \/ (r.pc = "load" /\ r.ask.op = "plan")
    /\ r.pc = "work" \/ (r.pc = "load" /\ r.ask.op = "plan") => r.list \in Seq(Entry)
    /\ r.pc = "work" => ~Decides(r.ask)
    /\ r.ask.op = "answer" /\ Saving(r, "answers") => FirstAnswer(r.list, r.ask.id) = r.ask.answer
    /\ r.ask.op = "answer" /\ Made(r) => r.own.of = r.ask.id /\ r.own.answer = r.ask.answer

Held(r) == r \in Request /\ (r.pc \in {"open", "write"} => r.list \in Seq(Kept[r.on])) /\ Placed(r)
Filed(f, x) == x \in Stored /\ x.list \in Seq(Kept[f]) /\ (x.kind = "absent" => x.list = <<>>)

TypeInv ==
    /\ TypeOK
    /\ files \in [Stores -> Stored] /\ \A f \in Stores : Filed(f, files[f])
    /\ local \in [Handlers -> Request] /\ \A h \in Handlers : Held(local[h])

\* What a request that decides blocks is in the list it saves, with all that
\* was settled, and from then on in the file; a plan is made in a context of
\* all that was settled before it was asked for.
Legible(x) == x.kind \in {"absent", "whole"}
Heeds(r, s, decisions) ==
    /\ Decides(r.ask) /\ Saving(r, "decisions") => s \cup BlockedBy(r.own.statement) \subseteq Blocked(r.list)
    /\ Decides(r.ask) /\ Stands(r) /\ Legible(decisions) =>
            BlockedBy(r.own.statement) \subseteq Blocked(decisions.list)
    /\ r.ask.op = "plan" /\ r.pc \in {"early", "load"} => r.due \subseteq s
    /\ r.ask.op = "plan" /\ r.pc = "work" => r.due \subseteq r.context.blocked

Deciding(r) == r.pc # "idle" /\ Decides(r.ask)
HeedInv ==
    overlap # "all" =>
        /\ \A g, h \in Handlers : Deciding(local[g]) /\ Deciding(local[h]) => g = h
        /\ Legible(files["decisions"]) => settled \subseteq Blocked(files["decisions"].list)
        /\ \A h \in Handlers : Heeds(local[h], settled, files["decisions"])
        /\ plan.due \subseteq plan.context.blocked

\* The list of store f once the request has saved its own.
Coming(r, F, f) == IF Saving(r, f) THEN r.list ELSE F[f].list
Agree(r, F, o) ==
    \A id \in Questions \ o :
        /\ Latest(Coming(r, F, "answers"), id) = Latest(Coming(r, F, "decisions"), id)
        /\ Latest(Coming(r, F, "decisions"), id) = Latest(Coming(r, F, "log"), id)

\* The stores the answer of a request has reached.
Reached(r) ==
    IF ~Made(r) THEN {}
    ELSE IF r.pc = "done" THEN Stores
    ELSE IF r.on = "log" THEN {"answers", "decisions"} ELSE {"answers"}

\* What is saved agrees with the other stores; a question is open while it is
\* answered, and its answer is in the list that is saved and in those saved
\* before; what is saved to the log continues it.
Staged(r, F, o) ==
    /\ (\A f \in Stores : Saving(r, f) \/ Legible(F[f])) => Agree(r, F, o)
    /\ r.ask.op = "answer" /\ r.pc # "idle" =>
        /\ r.ask.id \in o
        /\ r.pc \in {"open", "write"} => Latest(r.list, r.ask.id) = r.ask.answer
        /\ \A f \in Reached(r) : Legible(F[f]) => Latest(F[f].list, r.ask.id) = r.ask.answer
    /\ r.ask.op # "answer" => r.own.of = NoQuestion
    /\ r.pc = "work" \/ (r.pc = "load" /\ r.ask.op = "plan") =>
        F["log"].kind = "whole" /\ r.list = F["log"].list
    /\ r.pc = "open" /\ r.on = "log" => F["log"].kind = "whole" /\ IsPrefix(F["log"].list, r.list)
    /\ r.pc = "write" => F[r.on].kind = "empty"

SerialInv ==
    overlap = "none" =>
        /\ \A g, h \in Handlers : ~At(g, "idle") /\ ~At(h, "idle") => g = h
        /\ Staged(Idle, files, open)
        /\ \A h \in Handlers : Staged(local[h], files, open)

IInv == TypeInv /\ HeedInv /\ SerialInv

(* ----------------------- what requests ask and hold -------------------- *)

\* What each store keeps.
LEMMA KeptAre ==
    /\ Kept["answers"] = Answered /\ Kept["decisions"] = Decision /\ Kept["log"] = Entry
    /\ Stores = {"answers", "decisions", "log"}
    /\ \A f \in Stores : <<>> \in Seq(Kept[f]) /\ Seq(Kept[f]) \subseteq Lists
BY DEF Kept, Stores, Lists

\* What a request that asks something is.
LEMMA Asked ==
    ASSUME NEW k \in Posed
    PROVE  /\ k \in Asks /\ k.op \in {"answer", "decide", "plan", "note", "say"}
           /\ k.op = "answer" =>
                /\ k.id \in Questions /\ k.id \in Identifier /\ k.id # NoQuestion
                /\ k.answer \in Options(k.id.kind) /\ k.answer \in AnyAnswer
           /\ k.op = "decide" => k.statement \in Statement
<1>1. k \in Asks
  BY DEF Posed
<1>2. CASE k \in {[op |-> "answer", id |-> q, answer |-> a] : q \in Questions, a \in AnyAnswer}
  <2>1. PICK q \in Questions, a \in AnyAnswer : k = [op |-> "answer", id |-> q, answer |-> a]
    BY <1>2
  <2>2. k.op = "answer" /\ k.id = q /\ k.answer = a
    BY <2>1
  <2>3. a \in Chosen[q.kind]
    BY <2>2 DEF Posed
  <2>4. q \in Identifier /\ q # NoQuestion /\ q.kind \in Kinds
    BY ClientsAssumption DEF Identifier
  <2>5. a \in Options(q.kind)
    BY <2>3, <2>4, ClientsAssumption
  <2> QED BY <1>1, <2>2, <2>4, <2>5
<1>3. CASE k \in [op : {"decide"}, statement : Statements]
  <2>1. k.op = "decide" /\ k.statement \in Statements
    BY <1>3
  <2> QED BY <1>1, <2>1, ClientsAssumption
<1>4. CASE k \in [op : {"plan", "note", "say"}]
  BY <1>1, <1>4
<1> QED BY <1>1, <1>2, <1>3, <1>4 DEF Asks

\* An answer that was offered is mapped to a decision.
LEMMA SayingTyped ==
    ASSUME NEW c \in Categories, NEW w \in SUBSET Words, NEW x \in BOOLEAN, NEW y \in BOOLEAN
    PROVE  Saying(c, w, x, y) \in Statement
BY DEF Saying, Statement

\* A statement comes of every answer, whatever the category.
LEMMA MappedTyped ==
    ASSUME NEW kind \in Kinds, NEW c, c = kind \/ (c \in {"permission", "scope"} /\ kind = "architecture"),
           NEW a \in Options(kind)
    PROVE  Mapped(c, kind, a) \in Statement
<1>0. /\ {"backend", "frontend"} \in SUBSET Words /\ {} \in SUBSET Words
      /\ {"database"} \in SUBSET Words /\ {"package.json"} \in SUBSET Words
      /\ {"scope", "permission", "workspace", "architecture", "security", "workflow"} \subseteq Categories
  BY DEF Words, Categories
<1>1. CASE c = "workspace"
  <2>1. a \in Modes
    BY <1>1 DEF Options, Kinds
  <2>2. Saying("workspace", {}, FALSE, FALSE) \in Statement
    BY <1>0, SayingTyped
  <2>3. [Saying("workspace", {}, FALSE, FALSE) EXCEPT !.mode = a] \in Statement
    BY <2>1, <2>2 DEF Statement
  <2> QED BY <1>1, <2>3 DEF Mapped
<1>2. CASE c = "scope" /\ a \in {"frontend", "backend"}
  BY <1>0, <1>2, SayingTyped DEF Mapped
<1>3. CASE c = "scope" /\ a = "fullstack"
  BY <1>0, <1>3, SayingTyped DEF Mapped
<1>4. CASE c = "architecture"
  <2>1. Saying("architecture", {"database"}, a = "database_readonly", a # "database_readonly") \in Statement
    BY <1>0, SayingTyped
  <2> QED BY <1>4, <2>1 DEF Mapped
<1>5. CASE c = "permission" /\ kind = "permission"
  <2>1. Saying("permission", {"package.json"}, a = "block_package_json", a = "allow_package_json") \in Statement
    BY <1>0, SayingTyped
  <2> QED BY <1>5, <2>1 DEF Mapped
<1>6. CASE c = "security"
  BY <1>0, <1>6, SayingTyped DEF Mapped
<1>7. CASE c = "verification"
  BY <1>0, <1>7, SayingTyped DEF Mapped
<1>8. CASE c \in {"scope", "permission"} /\ ~(c = "scope" /\ a \in {"frontend", "backend", "fullstack"})
           /\ ~(c = "permission" /\ kind = "permission")
  <2>1. Saying(c, {"database"}, a = "database_readonly", a = "database_allowed") \in Statement
    BY <1>0, <1>8, SayingTyped
  <2>2. Mapped(c, kind, a) = Saying(c, {"database"}, a = "database_readonly", a = "database_allowed")
    BY <1>8 DEF Mapped
  <2> QED BY <2>1, <2>2
<1>9. c \in {"scope", "permission", "workspace", "architecture", "security", "verification"}
  BY DEF Kinds
<1> QED BY <1>1, <1>2, <1>3, <1>4, <1>5, <1>6, <1>7, <1>8, <1>9

\* So an answer becomes a decision, about its question and with its answer.
LEMMA DecidedTyped ==
    ASSUME NEW id \in Identifier, NEW a \in Options(id.kind), a \in AnyAnswer, NEW found \in BOOLEAN
    PROVE  /\ Decided(id, a, found) \in Decision
           /\ Decided(id, a, found).of = id /\ Decided(id, a, found).answer = a
<1>1. id.kind \in Kinds
  BY DEF Identifier
<1> DEFINE c == IF found THEN id.kind ELSE Inferred(id.kind, a)
<1>2. c = id.kind \/ (c \in {"permission", "scope"} /\ id.kind = "architecture")
  BY DEF Inferred
<1> HIDE DEF c
<1>3. Mapped(c, id.kind, a) \in Statement
  BY <1>1, <1>2, MappedTyped
<1>4. Decided(id, a, found) = [of |-> id, answer |-> a, statement |-> Mapped(c, id.kind, a)]
  BY DEF Decided, c
<1> QED BY <1>3, <1>4 DEF Decision

\* What a statement blocks and allows.
LEMMA BlockedByTyped ==
    ASSUME NEW s \in Statement
    PROVE  BlockedBy(s) \subseteq Scopes /\ AllowedBy(s) \subseteq Words
BY DEF BlockedBy, AllowedBy, Statement, Scopes, Words, Database

\* A list of decisions makes a context.
LEMMA ContextTyped ==
    ASSUME NEW l \in Seq(Decision)
    PROVE  Context(l) \in Contexts /\ Context(l).blocked = Blocked(l)
<1>0. \A i \in DOMAIN l : l[i].statement \in Statement
  <2>1. \A d \in Decision : d.statement \in Statement
    BY DEF Decision
  <2>2. \A i \in DOMAIN l : l[i] \in Decision
    OBVIOUS
  <2> QED BY <2>1, <2>2
<1>1. Blocked(l) \subseteq Scopes
  BY <1>0, BlockedByTyped DEF Blocked
<1>2. Allowed(l) \subseteq Words
  BY <1>0, BlockedByTyped DEF Allowed
<1>3. Mode(l) \in Modes \cup {"none"}
  <2> DEFINE Named == {i \in DOMAIN l : l[i].statement.category = "workspace"
                                        /\ l[i].statement.mode # "none"}
  <2>1. CASE Named = {}
    BY <2>1 DEF Mode
  <2>2. CASE Named # {}
    <3>1. DOMAIN l = 1..Len(l) /\ Len(l) \in Nat
      OBVIOUS
    <3>2. \E i \in Named : \A j \in Named : j <= i
      <4>1. Named \in SUBSET (1..Len(l))
        BY <3>1
      <4> HIDE DEF Named
      <4> QED BY <2>2, <3>1, <4>1, LastOfThem
    <3> DEFINE i == CHOOSE i \in Named : \A j \in Named : j <= i
    <3>3. i \in Named
      BY <3>2
    <3>4. l[i].statement.mode \in Modes \cup {"none"}
      BY <1>0, <3>3 DEF Statement
    <3> QED BY <2>2, <3>4 DEF Mode
  <2> QED BY <2>1, <2>2
<1> QED BY <1>1, <1>2, <1>3 DEF Context, Contexts

\* The records requests begin with.
LEMMA NothingTyped ==
    /\ NoDecision \in Decision /\ NoQuestion \in Identifier /\ NoDecision.of = NoQuestion
    /\ BlockedBy(NoDecision.statement) = {}
    /\ Context(<<>>) \in Contexts /\ Context(<<>>).blocked = {}
    /\ Idle \in Request /\ Placed(Idle)
    /\ Idle.pc = "idle" /\ Idle.own = NoDecision /\ Idle.ask = [op |-> "note"]
<1>1. NoQuestion \in Identifier
  BY DEF NoQuestion, Identifier, Kinds
<1>2. Saying("workflow", {}, FALSE, FALSE) \in Statement
  BY SayingTyped DEF Categories
<1>3. NoDecision \in Decision /\ NoDecision.of = NoQuestion
  <2>1. "none" \in AnyAnswer
    BY DEF AnyAnswer
  <2> QED BY <1>1, <1>2, <2>1 DEF NoDecision, Decision
<1>4. BlockedBy(NoDecision.statement) = {}
  BY DEF NoDecision, BlockedBy, Saying
<1>5. Context(<<>>) \in Contexts /\ Context(<<>>).blocked = {}
  <2>1. <<>> \in Seq(Decision) /\ DOMAIN <<>> = {}
    OBVIOUS
  <2>2. Blocked(<<>>) = {}
    BY <2>1 DEF Blocked
  <2> QED BY <2>1, <2>2, ContextTyped
<1>6. [op |-> "note"] \in Posed
  BY DEF Posed, Asks
<1>7. Idle \in Request
  <2>1. <<>> \in Seq(Answered) \cup Seq(Decision) \cup Seq(Entry)
    OBVIOUS
  <2>2. [op |-> "note"] \in Asks
    BY DEF Asks
  <2> QED BY <1>3, <1>5, <2>1, <2>2 DEF Idle, Request, Stores
<1>8. Placed(Idle)
  BY <1>6 DEF Placed, Idle, Decides, Made, Saving
<1> QED BY <1>1, <1>3, <1>4, <1>5, <1>7, <1>8 DEF Idle

(* --------------------------- types and places -------------------------- *)

\* A request that changes leaves the others alone.
LEMMA OthersStay ==
    ASSUME NEW h \in Handlers, NEW r, local \in [Handlers -> Request], Become(h, r)
    PROVE  /\ r \in Request => local' \in [Handlers -> Request]
           /\ local'[h] = r
           /\ \A g \in Handlers : g # h => local'[g] = local[g]
BY DEF Become

\* The invariant survives a step that leaves a file and a request well formed.
LEMMA TypeKept ==
    ASSUME TypeInv, NEW h \in Handlers, NEW r, Become(h, r), Held(r),
           NEW f \in Stores, NEW x, Filed(f, x), files' = [files EXCEPT ![f] = x],
           plan' \in [context : Contexts, due : SUBSET Scopes],
           settled' \subseteq Scopes, open' \subseteq Questions,
           overlap' = overlap, calls' \in Nat, crashes' = crashes
    PROVE  TypeInv'
<1>1. /\ local' \in [Handlers -> Request] /\ local'[h] = r
      /\ \A g \in Handlers : g # h => local'[g] = local[g]
  BY OthersStay DEF TypeInv, Held
<1>2. \A g \in Handlers : Held(local'[g])
  BY <1>1 DEF TypeInv
<1>3. files' \in [Stores -> Stored] /\ files'[f] = x /\ \A e \in Stores : e # f => files'[e] = files[e]
  BY DEF TypeInv, Filed
<1>4. \A e \in Stores : Filed(e, files'[e])
  BY <1>3 DEF TypeInv
<1>5. /\ \A e \in Stores : files'[e].kind \in {"absent", "empty", "torn", "whole"}
      /\ \A e \in Stores : files'[e].list \in Seq(Kept[e])
  BY <1>4 DEF Filed, Stored
<1>6. \A g \in Handlers : local'[g] \in Request
                          /\ (local'[g].pc \in {"open", "write"} => local'[g].list \in Seq(Kept[local'[g].on]))
  BY <1>2 DEF Held
<1>7. TypeOK'
  BY <1>5, <1>6 DEF TypeOK, TypeInv
<1>8. /\ \A e \in Stores : Filed(e, files[e])'
      /\ \A g \in Handlers : Held(local[g])'
  BY <1>2, <1>4 DEF Filed, Held, Placed, Saving, Made
<1> QED BY <1>1, <1>3, <1>7, <1>8 DEF TypeInv

\* ... and one that leaves the files alone.
LEMMA TypeKeptFiles ==
    ASSUME TypeInv, NEW h \in Handlers, NEW r, Become(h, r), Held(r), files' = files,
           plan' \in [context : Contexts, due : SUBSET Scopes],
           settled' \subseteq Scopes, open' \subseteq Questions,
           overlap' = overlap, calls' \in Nat, crashes' = crashes
    PROVE  TypeInv'
<1>1. "log" \in Stores /\ Filed("log", files["log"])
  BY KeptAre DEF TypeInv
<1>2. files' = [files EXCEPT !["log"] = files["log"]]
  BY DEF TypeInv
<1>3. Filed("log", files["log"]) /\ files' = [files EXCEPT !["log"] = files["log"]]
  BY <1>1, <1>2
<1> DEFINE x == files["log"]
<1> HIDE DEF x
<1>4. Filed("log", x) /\ files' = [files EXCEPT !["log"] = x]
  BY <1>3 DEF x
<1> QED BY <1>1, <1>4, TypeKept

\* What the files can hold after a write.
LEMMA FilesAre ==
    ASSUME NEW f \in Stores
    PROVE  /\ Filed(f, EmptyFile) /\ Filed(f, TornFile) /\ Filed(f, NoFile)
           /\ \A l \in Seq(Kept[f]) : Filed(f, Holding(l))
<1>1. <<>> \in Seq(Kept[f]) /\ Seq(Kept[f]) \subseteq Lists
  BY KeptAre
<1> QED BY <1>1 DEF Filed, Stored, EmptyFile, TornFile, NoFile, Holding

\* A request that is not there is in its place.
LEMMA IdleHeld == Held(Idle)
BY NothingTyped DEF Held

\* Nothing is asked at first.
LEMMA InitTypeInv == Init => TypeInv
<1> SUFFICES ASSUME Init PROVE TypeInv
  OBVIOUS
<1>1. files \in [Stores -> {NoFile, Holding(<<>>)}] /\ \A f \in Stores : files[f] = NoFile \/ files[f] = Holding(<<>>)
  BY DEF Init
<1>2. \A f \in Stores : Filed(f, files[f])
  BY <1>1, FilesAre, KeptAre
<1>3. local \in [Handlers -> {Idle}] /\ \A h \in Handlers : local[h] = Idle
  BY DEF Init
<1>4. \A h \in Handlers : Held(local[h])
  BY <1>3, IdleHeld
<1>5. plan \in [context : Contexts, due : SUBSET Scopes]
  BY NothingTyped DEF Init
<1>6. TypeOK
  <2>1. \A f \in Stores : files[f].kind \in {"absent", "empty", "torn", "whole"} /\ files[f].list \in Seq(Kept[f])
    BY <1>2 DEF Filed, Stored
  <2>2. \A h \in Handlers : local[h] \in Request
                            /\ (local[h].pc \in {"open", "write"} => local[h].list \in Seq(Kept[local[h].on]))
    BY <1>4 DEF Held
  <2>3. /\ settled = {} /\ open = {} /\ calls = 0 /\ crashes = 0
        /\ overlap \in {"none", "one decides", "all"}
    BY DEF Init
  <2>4. 0 \in 0..MaxCrashes
    BY BoundsAssumption
  <2> QED BY <1>5, <2>1, <2>2, <2>3, <2>4 DEF TypeOK
<1>7. /\ files \in [Stores -> Stored]
      /\ local \in [Handlers -> Request]
  BY <1>1, <1>2, <1>3, <1>4 DEF Filed, Held
<1> QED BY <1>2, <1>4, <1>6, <1>7 DEF TypeInv

\* A request that sets out to save a list, or to load a store.
LEMMA SavesHeld ==
    ASSUME NEW r, Held(r), NEW f \in Stores, NEW l \in Seq(Kept[f]),
           f = "answers" => r.ask.op = "answer" /\ FirstAnswer(l, r.ask.id) = r.ask.answer,
           f = "decisions" => Decides(r.ask),
           r.ask.op = "answer" /\ f # "answers" => r.own.of = r.ask.id /\ r.own.answer = r.ask.answer
    PROVE  Held([r EXCEPT !.pc = "open", !.on = f, !.list = l])
<1> DEFINE s == [r EXCEPT !.pc = "open", !.on = f, !.list = l]
<1>1. l \in Lists
  BY KeptAre
<1>2. /\ s \in Request /\ s.pc = "open" /\ s.on = f /\ s.list = l
      /\ s.ask = r.ask /\ s.own = r.own
  BY <1>1 DEF Held, Request, Lists
<1> HIDE DEF s
<1>3. r.ask \in Posed /\ (~Decides(r.ask) => r.own = NoDecision)
  BY DEF Held, Placed
<1>4. Placed(s)
  BY <1>2, <1>3, KeptAre DEF Placed, Saving, Made
<1>5. Held(s)
  BY <1>2, <1>4 DEF Held
<1> QED BY <1>5 DEF s

\* A request on its way to load a store.
LEMMA LoadsHeld ==
    ASSUME NEW r, Held(r), NEW f \in Stores, NEW d \in Decision,
           f = "answers" => r.ask.op = "answer",
           f = "decisions" => Decides(r.ask) \/ r.ask.op = "plan",
           ~Decides(r.ask) => d = NoDecision,
           r.ask.op = "plan" => r.list \in Seq(Entry),
           r.ask.op = "answer" /\ f # "answers" => d.of = r.ask.id /\ d.answer = r.ask.answer
    PROVE  Held([r EXCEPT !.pc = "load", !.on = f, !.own = d])
<1> DEFINE s == [r EXCEPT !.pc = "load", !.on = f, !.own = d]
<1>2. /\ s \in Request /\ s.pc = "load" /\ s.on = f /\ s.list = r.list
      /\ s.ask = r.ask /\ s.own = d
  BY DEF Held, Request
<1> HIDE DEF s
<1>3. r.ask \in Posed
  BY DEF Held, Placed
<1>4. Placed(s)
  BY <1>2, <1>3, KeptAre DEF Placed, Saving, Made
<1>5. Held(s)
  BY <1>2, <1>4 DEF Held
<1> QED BY <1>5 DEF s

\* A request that holds the log and works on it.
LEMMA WorksHeld ==
    ASSUME NEW r, Held(r), NEW c \in Contexts, NEW l \in Seq(Entry), ~Decides(r.ask)
    PROVE  Held([r EXCEPT !.pc = "work", !.on = "log", !.context = c, !.list = l])
<1> DEFINE s == [r EXCEPT !.pc = "work", !.on = "log", !.context = c, !.list = l]
<1>1. l \in Lists /\ "log" \in Stores
  BY KeptAre DEF Lists
<1>2. /\ s \in Request /\ s.pc = "work" /\ s.on = "log" /\ s.list = l
      /\ s.ask = r.ask /\ s.own = r.own
  BY <1>1 DEF Held, Request, Lists
<1> HIDE DEF s
<1>3. r.ask \in Posed /\ (~Decides(r.ask) => r.own = NoDecision)
  BY DEF Held, Placed
<1>4. Placed(s)
  BY <1>2, <1>3 DEF Placed, Saving, Made, Decides
<1>5. Held(s)
  BY <1>2, <1>4 DEF Held
<1> QED BY <1>5 DEF s

\* The entries and answers that are added.
LEMMA AddedTyped ==
    /\ ActionEntry \in Entry /\ MessageEntry \in Entry
    /\ \A d \in Decision : DecisionEntry(d) \in Entry /\ DecisionEntry(d).of = d.of
                           /\ DecisionEntry(d).answer = d.answer
    /\ ActionEntry.of = NoQuestion /\ MessageEntry.of = NoQuestion
    /\ \A id \in Identifier, a \in AnyAnswer : [of |-> id, answer |-> a] \in Answered
<1>1. "none" \in AnyAnswer
  BY DEF AnyAnswer
<1> QED BY <1>1, NothingTyped DEF ActionEntry, MessageEntry, DecisionEntry, Entry, Decision, Answered

\* What an appended list is.
LEMMA AppendTyped ==
    ASSUME NEW T, NEW l \in Seq(T), NEW e \in T
    PROVE  Append(l, e) \in Seq(T)
OBVIOUS

\* What a request that loaded a list becomes.
LEMMA ProceedHeld ==
    ASSUME TypeInv, NEW h \in Handlers, At(h, "load"), NEW l \in Seq(Kept[local[h].on]), Proceed(h, l)
    PROVE  \E r : Held(r) /\ Become(h, r)
<1> DEFINE r == local[h]
           k == r.ask
<1>1. /\ Held(r) /\ r \in Request /\ r.own \in Decision /\ k \in Posed /\ r.pc = "load"
      /\ r.on = "answers" => k.op = "answer"
      /\ k.op = "plan" => r.list \in Seq(Entry)
      /\ k.op = "answer" /\ r.on # "answers" => r.own.of = k.id /\ r.own.answer = k.answer
  <2>1. Held(r) /\ r.pc = "load"
    BY DEF TypeInv, At
  <2>2. r \in Request /\ Placed(r) /\ r.on \in Stores
    BY <2>1 DEF Held, Request
  <2>3. r.on # "answers" => r.on \in {"decisions", "log"}
    BY <2>2 DEF Stores
  <2> QED BY <2>1, <2>2, <2>3 DEF Placed, Made, Request
<1>2. CASE r.on = "answers" /\ Save(h, "answers", OthersAnd(l, [of |-> k.id, answer |-> k.answer]))
  <2> DEFINE a == [of |-> k.id, answer |-> k.answer]
             m == OthersAnd(l, a)
  <2>1. k.op = "answer" /\ k.id \in Identifier /\ k.answer \in AnyAnswer
    BY <1>1, <1>2, Asked
  <2>2. a \in Answered /\ a.of = k.id /\ a.answer = k.answer
    BY <2>1, AddedTyped
  <2>3. l \in Seq(Answered)
    BY <1>2, KeptAre
  <2> HIDE DEF a
  <2>4. m \in Seq(Answered) /\ FirstAnswer(m, a.of) = a.answer
    BY <2>2, <2>3, AnswerReplaces
  <2> HIDE DEF m, r, k
  <2>5. Held([r EXCEPT !.pc = "open", !.on = "answers", !.list = m])
    BY <1>1, <2>1, <2>2, <2>4, SavesHeld, KeptAre DEF k
  <2> QED BY <1>2, <2>5 DEF Save, r, k, a, m
<1>3. CASE r.on = "decisions" /\ Decides(k) /\ Save(h, "decisions", Append(l, r.own))
  <2>1. Append(l, r.own) \in Seq(Decision)
    BY <1>1, <1>3, KeptAre, AppendTyped
  <2>2. Held([r EXCEPT !.pc = "open", !.on = "decisions", !.list = Append(l, r.own)])
    BY <1>1, <1>3, <2>1, SavesHeld, KeptAre
  <2> QED BY <1>3, <2>2 DEF Save
<1>4. CASE r.on = "decisions" /\ k.op = "plan"
           /\ Become(h, [r EXCEPT !.pc = "work", !.on = "log", !.context = Context(l)])
  <2>1. Context(l) \in Contexts /\ r.list \in Seq(Entry) /\ ~Decides(k)
    BY <1>1, <1>4, KeptAre, ContextTyped DEF Decides
  <2>2. Held([r EXCEPT !.pc = "work", !.on = "log", !.context = Context(l), !.list = r.list])
    BY <1>1, <2>1, WorksHeld
  <2>3. [r EXCEPT !.pc = "work", !.on = "log", !.context = Context(l), !.list = r.list]
            = [r EXCEPT !.pc = "work", !.on = "log", !.context = Context(l)]
    BY <1>1 DEF Request
  <2> QED BY <1>4, <2>2, <2>3
<1>5. CASE r.on = "log" /\ Save(h, "log", Append(l, DecisionEntry(r.own)))
  <2>1. Append(l, DecisionEntry(r.own)) \in Seq(Entry)
    BY <1>1, <1>5, KeptAre, AddedTyped, AppendTyped
  <2>2. Held([r EXCEPT !.pc = "open", !.on = "log", !.list = Append(l, DecisionEntry(r.own))])
    BY <1>1, <1>5, <2>1, SavesHeld, KeptAre
  <2> QED BY <1>5, <2>2 DEF Save
<1> QED BY <1>2, <1>3, <1>4, <1>5 DEF Proceed

\* What is known of a request.
LEMMA RequestIs ==
    ASSUME TypeInv, NEW h \in Handlers
    PROVE  /\ Held(local[h]) /\ local[h] \in Request /\ local[h].ask \in Posed
           /\ local[h].on \in Stores /\ local[h].own \in Decision /\ local[h].due \subseteq Scopes
           /\ local[h].pc \in {"open", "write"} => local[h].list \in Seq(Kept[local[h].on])
           /\ plan \in [context : Contexts, due : SUBSET Scopes]
           /\ settled \subseteq Scopes /\ open \subseteq Questions /\ calls \in Nat
           /\ \A f \in Stores : Filed(f, files[f]) /\ files[f].list \in Seq(Kept[f])
                                /\ files[f].kind \in {"absent", "empty", "torn", "whole"}
BY DEF TypeInv, TypeOK, Held, Placed, Request, Filed, Stored

\* One lemma for each action: what is held and where keeps its place.
LEMMA BeginType ==
    ASSUME TypeInv, NEW h \in Handlers, Begin(h)
    PROVE  TypeInv'
<1>1. PICK k \in Posed :
        /\ Become(h,
            IF k.op = "decide"
            THEN [Idle EXCEPT !.pc = "load", !.on = "decisions", !.ask = k, !.due = settled,
                    !.own = [NoDecision EXCEPT !.statement = k.statement]]
            ELSE [Idle EXCEPT !.pc = "early", !.ask = k, !.due = settled])
        /\ open' = IF k.op = "answer" THEN open \cup {k.id} ELSE open
  BY DEF Begin
<1>2. files' = files /\ plan' = plan /\ settled' = settled /\ overlap' = overlap /\ crashes' = crashes
      /\ calls' = calls + 1
  BY DEF Begin
<1>3. k \in Asks /\ settled \subseteq Scopes /\ open' \subseteq Questions
  BY <1>1, Asked, RequestIs
<1>4. CASE k.op = "decide"
  <2> DEFINE d == [NoDecision EXCEPT !.statement = k.statement]
             r == [Idle EXCEPT !.pc = "load", !.on = "decisions", !.ask = k, !.due = settled, !.own = d]
  <2>1. d \in Decision
    BY <1>1, <1>4, Asked, NothingTyped DEF Decision
  <2> HIDE DEF d
  <2>2. r \in Request /\ r.pc = "load" /\ r.on = "decisions" /\ r.ask = k
    BY <1>3, <2>1, NothingTyped, KeptAre DEF Request
  <2>3. Become(h, r)
    BY <1>1, <1>4 DEF d
  <2> HIDE DEF r
  <2>4. Held(r)
    BY <1>1, <1>4, <2>2 DEF Held, Placed, Decides, Saving
  <2> QED BY <1>2, <1>3, <2>3, <2>4, RequestIs, TypeKeptFiles
<1>5. CASE k.op # "decide"
  <2> DEFINE r == [Idle EXCEPT !.pc = "early", !.ask = k, !.due = settled]
  <2>2. r \in Request /\ r.pc = "early" /\ r.ask = k /\ r.own = NoDecision
    BY <1>3, NothingTyped, KeptAre DEF Request
  <2>3. Become(h, r)
    BY <1>1, <1>5
  <2> HIDE DEF r
  <2>4. Held(r)
    BY <1>1, <1>5, <2>2 DEF Held, Placed, Saving, Made
  <2> QED BY <1>2, <1>3, <2>3, <2>4, RequestIs, TypeKeptFiles
<1> QED BY <1>4, <1>5

\* A request that changes nothing but itself.
LEMMA AloneType ==
    ASSUME TypeInv, NEW h \in Handlers, \E r : Held(r) /\ Become(h, r),
           UNCHANGED <<files, plan>>, Unchanged
    PROVE  TypeInv'
BY RequestIs, TypeKeptFiles DEF Unchanged

LEMMA LoadEarlyType ==
    ASSUME TypeInv, NEW h \in Handlers, LoadEarly(h)
    PROVE  TypeInv'
<1> DEFINE r == local[h]
           k == r.ask
           l == files["log"].list
<1>1. /\ Held(r) /\ r \in Request /\ k \in Posed /\ r.own \in Decision /\ r.pc = "early"
      /\ l \in Seq(Entry) /\ (~Decides(k) => r.own = NoDecision)
  BY RequestIs, KeptAre DEF LoadEarly, At, Held, Placed
<1>2. \E s : Held(s) /\ Become(h, s)
  <2>1. CASE Reject(h)
    BY <2>1, IdleHeld DEF Reject
  <2>2. CASE k.op = "answer" /\ Loads(h, "answers")
    <3> DEFINE s == [r EXCEPT !.pc = "load", !.on = "answers", !.own = r.own]
    <3>1. Held(s)
      BY <1>1, <2>2, LoadsHeld, KeptAre DEF Decides
    <3>2. s = [r EXCEPT !.pc = "load", !.on = "answers"]
      BY <1>1 DEF Request
    <3> QED BY <2>2, <3>1, <3>2 DEF Loads
  <2>3. CASE k.op = "plan" /\ Become(h, [r EXCEPT !.pc = "load", !.on = "decisions", !.list = l])
    <3> DEFINE s == [r EXCEPT !.pc = "load", !.on = "decisions", !.list = l]
    <3>1. /\ s \in Request /\ s.pc = "load" /\ s.on = "decisions" /\ s.list = l
          /\ s.ask = k /\ s.own = r.own
      BY <1>1, KeptAre DEF Request
    <3> HIDE DEF s
    <3>2. Held(s)
      BY <1>1, <2>3, <3>1 DEF Held, Placed, Saving, Made
    <3> QED BY <2>3, <3>2 DEF s
  <2>4. CASE k.op = "note" /\ Become(h, [r EXCEPT !.pc = "work", !.list = l])
    <3> DEFINE s == [r EXCEPT !.pc = "work", !.list = l]
    <3>1. /\ s \in Request /\ s.pc = "work" /\ s.list = l
          /\ s.ask = k /\ s.own = r.own
      BY <1>1, KeptAre DEF Request
    <3> HIDE DEF s
    <3>2. Held(s)
      BY <1>1, <2>4, <3>1 DEF Held, Placed, Saving, Made, Decides
    <3> QED BY <2>4, <3>2 DEF s
  <2>5. CASE k.op = "say" /\ Save(h, "log", Append(l, MessageEntry))
    <3>1. Append(l, MessageEntry) \in Seq(Entry)
      BY <1>1, AddedTyped, AppendTyped
    <3>2. Held([r EXCEPT !.pc = "open", !.on = "log", !.list = Append(l, MessageEntry)])
      BY <1>1, <2>5, <3>1, SavesHeld, KeptAre
    <3> QED BY <2>5, <3>2 DEF Save
  <2> QED BY <2>1, <2>2, <2>3, <2>4, <2>5 DEF LoadEarly
<1> QED BY <1>2, AloneType DEF LoadEarly

LEMMA LoadType ==
    ASSUME TypeInv, NEW h \in Handlers, Load(h)
    PROVE  TypeInv'
<1>1. local[h].on \in Stores /\ At(h, "load")
  BY RequestIs DEF Load
<1>2. /\ files[local[h].on].list \in Seq(Kept[local[h].on])
      /\ <<>> \in Seq(Kept[local[h].on])
  BY <1>1, RequestIs, KeptAre
<1>3. Proceed(h, files[local[h].on].list) \/ Proceed(h, <<>>) \/ Reject(h)
  BY DEF Load
<1>4. \E r : Held(r) /\ Become(h, r)
  BY <1>1, <1>2, <1>3, ProceedHeld, IdleHeld DEF Reject
<1> QED BY <1>4, AloneType DEF Load

LEMMA WorkType ==
    ASSUME TypeInv, NEW h \in Handlers, Work(h)
    PROVE  TypeInv'
<1> DEFINE r == local[h]
           l == Append(r.list, ActionEntry)
<1>1. /\ Held(r) /\ r \in Request /\ r.pc = "work" /\ r.ask \in Posed
      /\ r.list \in Seq(Entry) /\ r.context \in Contexts /\ r.due \subseteq Scopes
  BY RequestIs DEF Work, At, Held, Placed, Request
<1>2. l \in Seq(Entry)
  BY <1>1, AddedTyped, AppendTyped
<1> HIDE DEF l
<1>3. Held([r EXCEPT !.pc = "open", !.on = "log", !.list = l])
  <2> DEFINE s == [r EXCEPT !.pc = "open", !.on = "log", !.list = l]
  <2>1. /\ s \in Request /\ s.pc = "open" /\ s.on = "log" /\ s.list = l
        /\ s.ask = r.ask /\ s.own = r.own
    BY <1>1, <1>2, KeptAre DEF Request
  <2> HIDE DEF s
  <2>2. Held(s)
    BY <1>1, <1>2, <2>1, KeptAre DEF Held, Placed, Saving, Made, Decides
  <2> QED BY <2>2 DEF s
<1>4. Become(h, [r EXCEPT !.pc = "open", !.on = "log", !.list = l])
  BY DEF Work, Save, l
<1>5. plan' \in [context : Contexts, due : SUBSET Scopes]
  BY <1>1, RequestIs DEF Work
<1> QED BY <1>3, <1>4, <1>5, RequestIs, TypeKeptFiles DEF Work, Unchanged

LEMMA OpenType ==
    ASSUME TypeInv, NEW h \in Handlers, Open(h)
    PROVE  TypeInv'
<1> DEFINE r == local[h]
           s == [r EXCEPT !.pc = "write"]
<1>1. Held(r) /\ r \in Request /\ r.pc = "open" /\ r.on \in Stores /\ r.list \in Seq(Kept[r.on])
  BY RequestIs DEF Open, At
<1>2. /\ s \in Request /\ s.pc = "write" /\ s.on = r.on /\ s.list = r.list
      /\ s.ask = r.ask /\ s.own = r.own
  BY <1>1 DEF Request
<1>3. Become(h, s)
  BY DEF Open
<1> HIDE DEF s
<1>4. Held(s)
  BY <1>1, <1>2 DEF Held, Placed, Saving, Made
<1> QED BY <1>1, <1>3, <1>4, FilesAre, RequestIs, TypeKept DEF Open, Unchanged

\* What a write leaves in the file.
LEMMA WriteLeaves ==
    ASSUME TypeInv, NEW h \in Handlers, At(h, "write"), WriteText(h)
    PROVE  \E x : /\ Filed(local[h].on, x) /\ files' = [files EXCEPT ![local[h].on] = x]
                  /\ x = Holding(local[h].list) \/ (x = TornFile /\ files[local[h].on].kind # "empty")
<1>1. local[h].on \in Stores /\ local[h].list \in Seq(Kept[local[h].on])
  BY RequestIs DEF At
<1>2. PICK x \in {Holding(local[h].list), TornFile} :
        /\ files' = [files EXCEPT ![local[h].on] = x]
        /\ x = Holding(local[h].list) \/ (x = TornFile /\ files[local[h].on].kind # "empty")
  BY DEF WriteText
<1>3. Filed(local[h].on, x)
  BY <1>1, <1>2, FilesAre
<1> QED BY <1>2, <1>3

LEMMA WrittenType ==
    ASSUME TypeInv, NEW h \in Handlers, At(h, "write"), WriteText(h),
           \E r : Held(r) /\ Become(h, r), plan' = plan, Unchanged
    PROVE  TypeInv'
<1>1. PICK r : Held(r) /\ Become(h, r)
  OBVIOUS
<1>2. PICK x : Filed(local[h].on, x) /\ files' = [files EXCEPT ![local[h].on] = x]
  BY WriteLeaves
<1>3. local[h].on \in Stores
  BY RequestIs
<1> QED BY <1>1, <1>2, <1>3, RequestIs, TypeKept DEF Unchanged

\* The first answer found in the saved list is the one just given, so the
\* decision it becomes is the one of the request.
LEMMA AnswerWrittenHeld ==
    ASSUME TypeInv, NEW h \in Handlers, AnswerWritten(h)
    PROVE  \E d \in Decision :
             /\ d.of = local[h].ask.id /\ d.answer = local[h].ask.answer
             /\ local[h].ask.op = "answer"
             /\ Held([local[h] EXCEPT !.pc = "load", !.on = "decisions", !.own = d])
             /\ Become(h, [local[h] EXCEPT !.pc = "load", !.on = "decisions", !.own = d])
<1> DEFINE r == local[h]
           k == r.ask
<1>1. /\ Held(r) /\ r.pc = "write" /\ r.on = "answers" /\ k \in Posed /\ k.op = "answer"
      /\ FirstAnswer(r.list, k.id) = k.answer
  BY RequestIs DEF AnswerWritten, At, Held, Placed, Saving
<1>2. PICK found \in BOOLEAN :
        Become(h, [r EXCEPT !.pc = "load", !.on = "decisions",
                       !.own = Decided(k.id, FirstAnswer(r.list, k.id), found)])
  BY DEF AnswerWritten
<1> DEFINE d == Decided(k.id, k.answer, found)
<1>3. d \in Decision /\ d.of = k.id /\ d.answer = k.answer
  BY <1>1, Asked, DecidedTyped
<1>4. Become(h, [r EXCEPT !.pc = "load", !.on = "decisions", !.own = d])
  BY <1>1, <1>2
<1> HIDE DEF d
<1>5. Held([r EXCEPT !.pc = "load", !.on = "decisions", !.own = d])
  BY <1>1, <1>3, LoadsHeld, KeptAre DEF Decides
<1> QED BY <1>1, <1>3, <1>4, <1>5

LEMMA AnswerWrittenType ==
    ASSUME TypeInv, NEW h \in Handlers, AnswerWritten(h)
    PROVE  TypeInv'
<1>1. \E r : Held(r) /\ Become(h, r)
  BY AnswerWrittenHeld
<1> QED BY <1>1, WrittenType DEF AnswerWritten

LEMMA DecisionWrittenType ==
    ASSUME TypeInv, NEW h \in Handlers, DecisionWritten(h)
    PROVE  TypeInv'
<1> DEFINE r == local[h]
<1>1. /\ Held(r) /\ r \in Request /\ r.pc = "write" /\ r.on = "decisions" /\ r.own \in Decision
      /\ Decides(r.ask)
      /\ r.ask.op = "answer" => r.own.of = r.ask.id /\ r.own.answer = r.ask.answer
  BY RequestIs DEF DecisionWritten, At, Held, Placed, Made
<1>2. Held([r EXCEPT !.pc = "load", !.on = "log", !.own = r.own])
  BY <1>1, LoadsHeld, KeptAre DEF Decides
<1>3. [r EXCEPT !.pc = "load", !.on = "log", !.own = r.own] = [r EXCEPT !.pc = "load", !.on = "log"]
  BY <1>1 DEF Request
<1> QED BY <1>2, <1>3, WrittenType DEF DecisionWritten, Loads

LEMMA MessageWrittenType ==
    ASSUME TypeInv, NEW h \in Handlers, MessageWritten(h)
    PROVE  TypeInv'
<1> DEFINE r == local[h]
           l == Append(r.list, ActionEntry)
<1>1. /\ Held(r) /\ r \in Request /\ r.pc = "write" /\ r.on = "log"
      /\ r.ask.op = "answer" => r.own.of = r.ask.id /\ r.own.answer = r.ask.answer
      /\ r.list \in Seq(Entry)
  BY RequestIs, KeptAre DEF MessageWritten, At, Held, Placed, Made
<1>2. l \in Seq(Entry)
  BY <1>1, AddedTyped, AppendTyped
<1> HIDE DEF l
<1>3. Held([r EXCEPT !.pc = "open", !.on = "log", !.list = l])
  BY <1>1, <1>2, SavesHeld, KeptAre
<1>4. Become(h, [r EXCEPT !.pc = "open", !.on = "log", !.list = l])
  BY DEF MessageWritten, Save, l
<1>5. \E s : Held(s) /\ Become(h, s)
  BY <1>3, <1>4
<1> QED BY <1>5, WrittenType DEF MessageWritten

LEMMA LogWrittenType ==
    ASSUME TypeInv, NEW h \in Handlers, LogWritten(h)
    PROVE  TypeInv'
<1> DEFINE r == local[h]
           s == [r EXCEPT !.pc = "done"]
<1>1. Held(r) /\ r \in Request /\ r.pc = "write" /\ r.on = "log"
  BY RequestIs DEF LogWritten, At
<1>2. /\ s \in Request /\ s.pc = "done" /\ s.on = r.on /\ s.list = r.list
      /\ s.ask = r.ask /\ s.own = r.own
  BY <1>1 DEF Request
<1>3. Become(h, s)
  BY DEF LogWritten
<1> HIDE DEF s
<1>4. Held(s)
  BY <1>1, <1>2 DEF Held, Placed, Saving, Made
<1> QED BY <1>3, <1>4, WrittenType DEF LogWritten

LEMMA AcknowledgeType ==
    ASSUME TypeInv, NEW h \in Handlers, Acknowledge(h)
    PROVE  TypeInv'
<1>1. settled' \subseteq Scopes
  <2>1. local[h].own.statement \in Statement
    BY RequestIs DEF Decision
  <2> QED BY <2>1, BlockedByTyped, RequestIs DEF Acknowledge
<1>2. open' \subseteq Questions
  BY RequestIs DEF Acknowledge
<1> QED BY <1>1, <1>2, IdleHeld, RequestIs, TypeKeptFiles DEF Acknowledge, Reject

LEMMA FailsType ==
    ASSUME TypeInv, NEW h \in Handlers, Fails(h)
    PROVE  TypeInv'
<1> DEFINE f == local[h].on
<1>1. f \in Stores /\ Filed(f, files[f])
  BY RequestIs
<1>2. PICK x \in {files[f], TornFile} : files' = [files EXCEPT ![f] = x]
  BY DEF Fails
<1> HIDE DEF f
<1>3. Filed(f, x)
  BY <1>1, <1>2, FilesAre
<1> QED BY <1>1, <1>2, <1>3, IdleHeld, RequestIs, TypeKept DEF Fails, Reject, Unchanged

LEMMA CrashType ==
    ASSUME TypeInv, Crash
    PROVE  TypeInv'
<1>1. PICK Lost : files' = [f \in Stores |-> IF f \in Lost THEN TornFile ELSE files[f]]
  BY DEF Crash
<1>2. \A f \in Stores : Filed(f, files'[f])
  BY <1>1, FilesAre DEF TypeInv
<1>3. files' \in [Stores -> Stored]
  BY <1>1, <1>2 DEF Filed
<1>4. local' \in [Handlers -> Request] /\ \A h \in Handlers : local'[h] = Idle
  BY NothingTyped DEF Crash
<1>5. \A h \in Handlers : Held(local'[h])
  BY <1>4, IdleHeld
<1>6. TypeOK'
  <2>1. \A f \in Stores : files'[f].kind \in {"absent", "empty", "torn", "whole"} /\ files'[f].list \in Seq(Kept[f])
    BY <1>2 DEF Filed, Stored
  <2>2. \A h \in Handlers : local'[h] \in Request
                            /\ (local'[h].pc \in {"open", "write"} => local'[h].list \in Seq(Kept[local'[h].on]))
    BY <1>5 DEF Held
  <2>3. crashes' \in 0..MaxCrashes
    <3>1. crashes \in 0..MaxCrashes /\ crashes < MaxCrashes /\ crashes' = crashes + 1
      BY DEF Crash, TypeInv, TypeOK
    <3> QED BY <3>1, BoundsAssumption
  <2> QED BY <2>1, <2>2, <2>3 DEF TypeOK, TypeInv, Crash
<1>7. /\ \A f \in Stores : Filed(f, files[f])'
      /\ \A h \in Handlers : Held(local[h])'
  BY <1>2, <1>5 DEF Filed, Held, Placed, Saving, Made
<1> QED BY <1>3, <1>4, <1>6, <1>7 DEF TypeInv

\* Every step keeps every request and file in its place.
LEMMA NextTypeInv == TypeInv /\ [Next]_vars => TypeInv'
<1> SUFFICES ASSUME TypeInv, [Next]_vars PROVE TypeInv'
  OBVIOUS
<1>1. CASE UNCHANGED vars
  BY <1>1 DEF vars, TypeInv, TypeOK, Held, Filed, Placed, Saving, Made
<1>2. CASE Crash
  BY <1>2, CrashType
<1>3. ASSUME NEW h \in Handlers, Step(h) PROVE TypeInv'
  BY <1>3, BeginType, LoadEarlyType, LoadType, WorkType, OpenType, AnswerWrittenType,
     DecisionWrittenType, MessageWrittenType, LogWrittenType, AcknowledgeType, FailsType
  DEF Step
<1> QED BY <1>1, <1>2, <1>3 DEF Next

\* However requests overlap, fail or are cut short, every variable keeps its type.
THEOREM TypeCorrect == Spec => []TypeOK
<1>1. TypeInv => TypeOK
  BY DEF TypeInv
<1> QED BY <1>1, InitTypeInv, NextTypeInv, PTL DEF Spec

(* ---------------- restrictions stay, and plans heed them --------------- *)

\* What must hold of a step of one request, where not all may overlap: it
\* decides only if no other does, its own part of the invariant holds, and it
\* changes what others rely on only if it decides itself.
LEMMA HeedKept ==
    ASSUME TypeInv, HeedInv, overlap # "all" => overlap' # "all",
           NEW h \in Handlers, NEW r, Become(h, r),
           overlap' = overlap,
           overlap # "all" =>
               /\ Deciding(r) => \A g \in Handlers \ {h} : ~Deciding(local[g])
               /\ Heeds(r, settled', files'["decisions"])
               /\ Legible(files'["decisions"]) => settled' \subseteq Blocked(files'["decisions"].list)
               /\ plan'.due \subseteq plan'.context.blocked
               /\ settled \subseteq settled'
               /\ \/ Deciding(local[h])
                  \/ /\ settled' = settled
                     /\ files'["decisions"] = files["decisions"] \/ ~Legible(files'["decisions"])
    PROVE  HeedInv'
<1> SUFFICES ASSUME overlap # "all" PROVE HeedInv'
  BY DEF HeedInv
<1>1. local'[h] = r /\ \A g \in Handlers : g # h => local'[g] = local[g]
  BY OthersStay DEF TypeInv
<1>2. \A e, g \in Handlers : Deciding(local'[e]) /\ Deciding(local'[g]) => e = g
  BY <1>1 DEF HeedInv
<1>3. ASSUME NEW g \in Handlers
      PROVE  Heeds(local'[g], settled', files'["decisions"])
  <2>1. CASE g = h
    BY <1>1, <2>1
  <2>2. CASE g # h
    <3> DEFINE q == local[g]
               d == files["decisions"]
               e == files'["decisions"]
    <3>1. local'[g] = q /\ Heeds(q, settled, d)
      BY <1>1, <2>2 DEF HeedInv
    <3>2. CASE Deciding(local[h])
      <4>1. ~Deciding(q)
        BY <2>2, <3>2 DEF HeedInv
      <4> HIDE DEF q, d, e
      <4>2. Heeds(q, settled', e)
        BY <3>1, <4>1 DEF Heeds, Deciding, Saving, Stands
      <4> QED BY <3>1, <4>2 DEF e
    <3>3. CASE settled' = settled /\ (e = d \/ ~Legible(e))
      <4> HIDE DEF q, d, e
      <4>2. Heeds(q, settled', e)
        BY <3>1, <3>3 DEF Heeds
      <4> QED BY <3>1, <4>2 DEF e
    <3> QED BY <3>2, <3>3
  <2> QED BY <2>1, <2>2
<1> QED BY <1>2, <1>3 DEF HeedInv

\* A step that leaves the files, what is settled and the plan alone.
LEMMA HeedKeptAlone ==
    ASSUME TypeInv, HeedInv, NEW h \in Handlers, NEW r, Become(h, r),
           files' = files, settled' = settled, plan' = plan, overlap' = overlap,
           overlap # "all" =>
               /\ Deciding(r) => \A g \in Handlers \ {h} : ~Deciding(local[g])
               /\ Heeds(r, settled, files["decisions"])
    PROVE  HeedInv'
<1>1. overlap # "all" =>
        /\ Legible(files["decisions"]) => settled \subseteq Blocked(files["decisions"].list)
        /\ plan.due \subseteq plan.context.blocked
  BY DEF HeedInv
<1> QED BY <1>1, HeedKept

\* One who decided before is the only one.
LEMMA OnlyDecider ==
    ASSUME HeedInv, overlap # "all", NEW h \in Handlers, Deciding(local[h])
    PROVE  \A g \in Handlers \ {h} : ~Deciding(local[g])
BY DEF HeedInv

\* A request that is not there heeds everything.
LEMMA IdleHeeds ==
    /\ \A s, d : Heeds(Idle, s, d)
    /\ ~Deciding(Idle)
BY DEF Heeds, Deciding, Idle, Saving, Stands, Decides

LEMMA InitHeedInv == Init => HeedInv
<1> SUFFICES ASSUME Init PROVE HeedInv
  OBVIOUS
<1>1. \A h \in Handlers : local[h] = Idle
  BY DEF Init
<1>2. settled = {} /\ plan.due = {} /\ plan.context = Context(<<>>)
  BY DEF Init
<1> QED BY <1>1, <1>2, IdleHeeds DEF HeedInv

\* One lemma for each action: what is settled stays blocked, and plans heed it.
LEMMA BeginHeed ==
    ASSUME TypeInv, HeedInv, NEW h \in Handlers, Begin(h)
    PROVE  HeedInv'
<1>1. PICK k \in Posed :
        /\ \A g \in Handlers :
            ~At(g, "idle") => \/ overlap = "all"
                              \/ overlap = "one decides" /\ ~(Decides(k) /\ Decides(local[g].ask))
        /\ Become(h,
            IF k.op = "decide"
            THEN [Idle EXCEPT !.pc = "load", !.on = "decisions", !.ask = k, !.due = settled,
                    !.own = [NoDecision EXCEPT !.statement = k.statement]]
            ELSE [Idle EXCEPT !.pc = "early", !.ask = k, !.due = settled])
  BY DEF Begin
<1>2. files' = files /\ plan' = plan /\ settled' = settled /\ overlap' = overlap
  BY DEF Begin
<1> DEFINE r == IF k.op = "decide"
            THEN [Idle EXCEPT !.pc = "load", !.on = "decisions", !.ask = k, !.due = settled,
                    !.own = [NoDecision EXCEPT !.statement = k.statement]]
            ELSE [Idle EXCEPT !.pc = "early", !.ask = k, !.due = settled]
<1>3. /\ r.ask = k /\ r.pc \in {"load", "early"} /\ r.due = settled
      /\ r.pc = "load" => r.on = "decisions"
  BY NothingTyped DEF Request
<1>4. Become(h, r)
  BY <1>1
<1> HIDE DEF r
<1>5. overlap # "all" /\ Deciding(r) => \A g \in Handlers \ {h} : ~Deciding(local[g])
  BY <1>1, <1>3 DEF Deciding, At
<1>6. Heeds(r, settled, files["decisions"])
  BY <1>3 DEF Heeds, Saving, Stands
<1> QED BY <1>2, <1>4, <1>5, <1>6, HeedKeptAlone

LEMMA LoadEarlyHeed ==
    ASSUME TypeInv, HeedInv, NEW h \in Handlers, LoadEarly(h)
    PROVE  HeedInv'
<1> DEFINE r == local[h]
           k == r.ask
           l == files["log"].list
           d == files["decisions"]
<1>1. /\ r \in Request /\ r.pc = "early"
      /\ files' = files /\ plan' = plan /\ settled' = settled /\ overlap' = overlap
      /\ overlap # "all" => Heeds(r, settled, d)
  BY RequestIs DEF LoadEarly, At, HeedInv, Unchanged
<1>2. CASE Reject(h)
  BY <1>1, <1>2, IdleHeeds, HeedKeptAlone DEF Reject
<1>3. CASE k.op = "answer" /\ Loads(h, "answers")
  <2> DEFINE s == [r EXCEPT !.pc = "load", !.on = "answers"]
  <2>1. s.pc = "load" /\ s.on = "answers" /\ s.ask = k
    BY <1>1 DEF Request
  <2>2. Become(h, s)
    BY <1>3 DEF Loads
  <2> HIDE DEF s, d
  <2>3. Deciding(s) => Deciding(r)
    BY <1>1, <2>1 DEF Deciding
  <2>4. Heeds(s, settled, d)
    BY <1>3, <2>1 DEF Heeds, Saving, Stands
  <2> QED BY <1>1, <2>2, <2>3, <2>4, OnlyDecider, HeedKeptAlone DEF d
<1>4. CASE k.op = "plan" /\ Become(h, [r EXCEPT !.pc = "load", !.on = "decisions", !.list = l])
  <2> DEFINE s == [r EXCEPT !.pc = "load", !.on = "decisions", !.list = l]
  <2>1. s.pc = "load" /\ s.on = "decisions" /\ s.ask = k /\ s.due = r.due
    BY <1>1 DEF Request
  <2>2. Become(h, s)
    BY <1>4
  <2> HIDE DEF s, d
  <2>3. ~Deciding(s)
    BY <1>4, <2>1 DEF Deciding, Decides
  <2>4. overlap # "all" => Heeds(s, settled, d)
    BY <1>1, <1>4, <2>1 DEF Heeds, Saving, Stands
  <2> QED BY <1>1, <2>2, <2>3, <2>4, HeedKeptAlone DEF d
<1>5. CASE k.op = "note" /\ Become(h, [r EXCEPT !.pc = "work", !.list = l])
  <2> DEFINE s == [r EXCEPT !.pc = "work", !.list = l]
  <2>1. s.pc = "work" /\ s.ask = k
    BY <1>1 DEF Request
  <2>2. Become(h, s)
    BY <1>5
  <2> HIDE DEF s, d
  <2>3. ~Deciding(s) /\ Heeds(s, settled, d)
    BY <1>5, <2>1 DEF Deciding, Decides, Heeds, Saving, Stands
  <2> QED BY <1>1, <2>2, <2>3, HeedKeptAlone DEF d
<1>6. CASE k.op = "say" /\ Save(h, "log", Append(l, MessageEntry))
  <2> DEFINE s == [r EXCEPT !.pc = "open", !.on = "log", !.list = Append(l, MessageEntry)]
  <2>1. s.pc = "open" /\ s.on = "log" /\ s.ask = k
    BY <1>1 DEF Request
  <2>2. Become(h, s)
    BY <1>6 DEF Save
  <2> HIDE DEF s, d
  <2>3. ~Deciding(s) /\ Heeds(s, settled, d)
    BY <1>6, <2>1 DEF Deciding, Decides, Heeds, Saving, Stands
  <2> QED BY <1>1, <2>2, <2>3, HeedKeptAlone DEF d
<1> QED BY <1>2, <1>3, <1>4, <1>5, <1>6 DEF LoadEarly

\* A request that loads a store goes by what the file holds, or rejects.
LEMMA LoadGoesBy ==
    ASSUME TypeInv, NEW h \in Handlers, Load(h)
    PROVE  /\ Reject(h) \/ (Legible(files[local[h].on]) /\ Proceed(h, files[local[h].on].list))
           /\ Legible(files[local[h].on]) /\ local[h].on = "log" /\ ~Reject(h) =>
                    files["log"].kind = "whole"
<1>1. local[h].on \in Stores
  BY RequestIs
<1>2. files[local[h].on].kind = "absent" => files[local[h].on].list = <<>>
  BY <1>1 DEF TypeInv, Filed
<1>3. files[local[h].on].kind = "absent" /\ local[h].on # "log" /\ Proceed(h, <<>>)
        => Proceed(h, files[local[h].on].list)
  BY <1>2
<1> QED BY <1>3 DEF Load, Legible

LEMMA LoadHeed ==
    ASSUME TypeInv, HeedInv, NEW h \in Handlers, Load(h)
    PROVE  HeedInv'
<1> DEFINE r == local[h]
           k == r.ask
           l == files[r.on].list
           d == files["decisions"]
<1>1. /\ r \in Request /\ r.pc = "load" /\ k \in Posed /\ r.own \in Decision
      /\ r.on \in Stores /\ l \in Seq(Kept[r.on])
      /\ files' = files /\ plan' = plan /\ settled' = settled /\ overlap' = overlap
      /\ overlap # "all" => /\ Heeds(r, settled, d)
                            /\ Legible(d) => settled \subseteq Blocked(d.list)
  BY RequestIs DEF Load, At, HeedInv, Unchanged
<1>2. Reject(h) \/ (Legible(files[r.on]) /\ Proceed(h, l))
  BY LoadGoesBy
<1>3. CASE Reject(h)
  BY <1>1, <1>3, IdleHeeds, HeedKeptAlone DEF Reject
<1>4. CASE r.on = "answers" /\ Save(h, "answers", OthersAnd(l, [of |-> k.id, answer |-> k.answer]))
  <2> DEFINE m == OthersAnd(l, [of |-> k.id, answer |-> k.answer])
             s == [r EXCEPT !.pc = "open", !.on = "answers", !.list = m]
  <2>1. s.pc = "open" /\ s.on = "answers" /\ s.ask = k
    BY <1>1 DEF Request
  <2>2. Become(h, s)
    BY <1>4 DEF Save
  <2> HIDE DEF m, s, d
  <2>3. Deciding(s) => Deciding(r)
    BY <1>1, <2>1 DEF Deciding
  <2>4. Heeds(s, settled, d)
    BY <2>1 DEF Heeds, Saving, Stands
  <2> QED BY <1>1, <2>2, <2>3, <2>4, OnlyDecider, HeedKeptAlone DEF d
<1>5. CASE /\ Legible(files[r.on]) /\ r.on = "decisions" /\ Decides(k)
           /\ Save(h, "decisions", Append(l, r.own))
  <2> DEFINE m == Append(l, r.own)
             s == [r EXCEPT !.pc = "open", !.on = "decisions", !.list = m]
  <2>1. s.pc = "open" /\ s.on = "decisions" /\ s.ask = k /\ s.list = m /\ s.own = r.own
    BY <1>1 DEF Request
  <2>2. Become(h, s)
    BY <1>5 DEF Save
  <2>3. Blocked(m) = Blocked(l) \cup BlockedBy(r.own.statement)
    BY <1>1, <1>5, KeptAre, BlockedAppended
  <2>4. overlap # "all" => settled \subseteq Blocked(l)
    BY <1>1, <1>5
  <2> HIDE DEF m, s, d, l
  <2>5. Deciding(s) => Deciding(r)
    BY <1>1, <2>1 DEF Deciding
  <2>6. overlap # "all" => Heeds(s, settled, d)
    BY <1>5, <2>1, <2>3, <2>4 DEF Heeds, Saving, Stands, Decides
  <2> QED BY <1>1, <2>2, <2>5, <2>6, OnlyDecider, HeedKeptAlone DEF d
<1>6. CASE /\ Legible(files[r.on]) /\ r.on = "decisions" /\ k.op = "plan"
           /\ Become(h, [r EXCEPT !.pc = "work", !.on = "log", !.context = Context(l)])
  <2> DEFINE c == Context(l)
             s == [r EXCEPT !.pc = "work", !.on = "log", !.context = c]
  <2>1. c \in Contexts /\ c.blocked = Blocked(l)
    BY <1>1, <1>6, KeptAre, ContextTyped
  <2>2. Become(h, s)
    BY <1>6
  <2>3. overlap # "all" => settled \subseteq Blocked(l) /\ r.due \subseteq settled
    BY <1>1, <1>6 DEF Heeds
  <2> HIDE DEF c
  <2>4. s.pc = "work" /\ s.ask = k /\ s.due = r.due /\ s.context = c
    BY <1>1 DEF Request
  <2> HIDE DEF s, d, l
  <2>5. ~Deciding(s)
    BY <1>6, <2>4 DEF Deciding, Decides
  <2>6. overlap # "all" => Heeds(s, settled, d)
    BY <1>6, <2>1, <2>3, <2>4 DEF Heeds, Saving, Stands, Decides
  <2> QED BY <1>1, <2>2, <2>5, <2>6, HeedKeptAlone DEF d
<1>7. CASE r.on = "log" /\ Save(h, "log", Append(l, DecisionEntry(r.own)))
  <2> DEFINE m == Append(l, DecisionEntry(r.own))
             s == [r EXCEPT !.pc = "open", !.on = "log", !.list = m]
  <2>1. s.pc = "open" /\ s.on = "log" /\ s.ask = k /\ s.own = r.own
    BY <1>1 DEF Request
  <2>2. Become(h, s)
    BY <1>7 DEF Save
  <2> HIDE DEF m, s, d
  <2>3. Deciding(s) => Deciding(r)
    BY <1>1, <2>1 DEF Deciding
  <2>4. overlap # "all" => Heeds(s, settled, d)
    BY <1>1, <1>7, <2>1 DEF Heeds, Saving, Stands
  <2> QED BY <1>1, <2>2, <2>3, <2>4, OnlyDecider, HeedKeptAlone DEF d
<1>8. CASE Legible(files[r.on]) /\ Proceed(h, l)
  BY <1>4, <1>5, <1>6, <1>7, <1>8 DEF Proceed
<1> QED BY <1>2, <1>3, <1>8

LEMMA WorkHeed ==
    ASSUME TypeInv, HeedInv, NEW h \in Handlers, Work(h)
    PROVE  HeedInv'
<1> DEFINE r == local[h]
           d == files["decisions"]
           m == Append(r.list, ActionEntry)
           s == [r EXCEPT !.pc = "open", !.on = "log", !.list = m]
<1>1. /\ r \in Request /\ r.pc = "work" /\ ~Decides(r.ask)
      /\ files' = files /\ settled' = settled /\ overlap' = overlap
      /\ overlap # "all" => /\ Heeds(r, settled, d)
                            /\ Legible(d) => settled \subseteq Blocked(d.list)
                            /\ plan.due \subseteq plan.context.blocked
  BY RequestIs DEF Work, At, HeedInv, Unchanged, Held, Placed
<1>2. overlap # "all" => plan'.due \subseteq plan'.context.blocked
  <2>1. CASE r.ask.op = "plan"
    <3>1. plan'.due = r.due /\ plan'.context = r.context
      BY <2>1 DEF Work
    <3> QED BY <1>1, <2>1, <3>1 DEF Heeds
  <2>2. CASE r.ask.op # "plan"
    BY <1>1, <2>2 DEF Work
  <2> QED BY <2>1, <2>2
<1>3. s.pc = "open" /\ s.on = "log" /\ s.ask = r.ask
  BY <1>1 DEF Request
<1>4. Become(h, s)
  BY DEF Work, Save
<1> HIDE DEF m, s
<1>5. ~Deciding(s) /\ Heeds(s, settled, d)
  BY <1>1, <1>3 DEF Deciding, Heeds, Saving, Stands
<1> QED BY <1>1, <1>2, <1>4, <1>5, HeedKept

LEMMA OpenHeed ==
    ASSUME TypeInv, HeedInv, NEW h \in Handlers, Open(h)
    PROVE  HeedInv'
<1> DEFINE r == local[h]
           d == files["decisions"]
           e == files'["decisions"]
           s == [r EXCEPT !.pc = "write"]
<1>1. /\ r \in Request /\ r.pc = "open" /\ r.on \in Stores
      /\ plan' = plan /\ settled' = settled /\ overlap' = overlap
      /\ overlap # "all" => /\ Heeds(r, settled, d)
                            /\ Legible(d) => settled \subseteq Blocked(d.list)
                            /\ plan.due \subseteq plan.context.blocked
  BY RequestIs DEF Open, At, HeedInv, Unchanged
<1>2. s.pc = "write" /\ s.on = r.on /\ s.ask = r.ask /\ s.own = r.own /\ s.list = r.list
  BY <1>1 DEF Request
<1>3. Become(h, s)
  BY DEF Open
<1>4. e = d \/ (r.on = "decisions" /\ e = EmptyFile)
  BY <1>1, KeptAre DEF Open, TypeInv
<1>5. e = d \/ ~Legible(e)
  BY <1>4 DEF Legible, EmptyFile
<1> HIDE DEF s, e, d
<1>6. Deciding(s) => Deciding(r)
  BY <1>1, <1>2 DEF Deciding
<1>7. overlap # "all" => Heeds(s, settled, e)
  BY <1>1, <1>2, <1>5 DEF Heeds, Saving, Stands
<1>8. overlap # "all" /\ Legible(e) => settled \subseteq Blocked(e.list)
  BY <1>1, <1>5
<1> QED BY <1>1, <1>3, <1>5, <1>6, <1>7, <1>8, OnlyDecider, HeedKept DEF e, d

\* What is known of a request that writes.
LEMMA WriterIs ==
    ASSUME TypeInv, NEW h \in Handlers, At(h, "write"), WriteText(h)
    PROVE  /\ local[h] \in Request /\ local[h].pc = "write" /\ local[h].on \in Stores
           /\ \A f \in Stores : f # local[h].on => files'[f] = files[f]
           /\ \/ files'[local[h].on] = Holding(local[h].list)
              \/ files'[local[h].on] = TornFile /\ files[local[h].on].kind # "empty"
<1>1. local[h] \in Request /\ local[h].pc = "write" /\ local[h].on \in Stores
  BY RequestIs DEF At
<1>2. PICK x : /\ files' = [files EXCEPT ![local[h].on] = x]
               /\ x = Holding(local[h].list) \/ (x = TornFile /\ files[local[h].on].kind # "empty")
  BY WriteLeaves
<1>3. DOMAIN files = Stores
  BY DEF TypeInv
<1> QED BY <1>1, <1>2, <1>3

LEMMA AnswerWrittenHeed ==
    ASSUME TypeInv, HeedInv, NEW h \in Handlers, AnswerWritten(h)
    PROVE  HeedInv'
<1> DEFINE r == local[h]
           d == files["decisions"]
           e == files'["decisions"]
<1>1. /\ r \in Request /\ r.pc = "write" /\ r.on = "answers" /\ e = d
      /\ plan' = plan /\ settled' = settled /\ overlap' = overlap
      /\ overlap # "all" => /\ Legible(d) => settled \subseteq Blocked(d.list)
                            /\ plan.due \subseteq plan.context.blocked
  BY WriterIs, KeptAre DEF AnswerWritten, Unchanged, HeedInv
<1>2. PICK o \in Decision : Become(h, [r EXCEPT !.pc = "load", !.on = "decisions", !.own = o])
  BY AnswerWrittenHeld
<1> DEFINE s == [r EXCEPT !.pc = "load", !.on = "decisions", !.own = o]
<1>3. /\ s.pc = "load" /\ s.on = "decisions" /\ s.ask = r.ask
      /\ r.ask.op = "answer"
  BY <1>1, AnswerWrittenHeld DEF Request
<1>4. Become(h, s)
  BY <1>2
<1> HIDE DEF s, d, e
<1>5. Deciding(s) => Deciding(r)
  BY <1>1, <1>3 DEF Deciding
<1>6. Heeds(s, settled, e)
  BY <1>3 DEF Heeds, Saving, Stands
<1> QED BY <1>1, <1>4, <1>5, <1>6, OnlyDecider, HeedKept DEF d, e

LEMMA DecisionWrittenHeed ==
    ASSUME TypeInv, HeedInv, NEW h \in Handlers, DecisionWritten(h)
    PROVE  HeedInv'
<1> DEFINE r == local[h]
           e == files'["decisions"]
           s == [r EXCEPT !.pc = "load", !.on = "log"]
<1>1. /\ r \in Request /\ r.pc = "write" /\ r.on = "decisions"
      /\ e = Holding(r.list) \/ e = TornFile
      /\ plan' = plan /\ settled' = settled /\ overlap' = overlap
      /\ overlap # "all" => plan.due \subseteq plan.context.blocked
  BY WriterIs DEF DecisionWritten, Unchanged, HeedInv
<1>2. Decides(r.ask) /\ Deciding(r)
  BY <1>1, RequestIs DEF Held, Placed, Deciding
<1>3. overlap # "all" => settled \cup BlockedBy(r.own.statement) \subseteq Blocked(r.list)
  BY <1>1, <1>2 DEF HeedInv, Heeds, Saving
<1>4. s.pc = "load" /\ s.on = "log" /\ s.ask = r.ask /\ s.own = r.own
  BY <1>1 DEF Request
<1>5. Become(h, s)
  BY DEF DecisionWritten, Loads
<1>6. Legible(e) => e.list = r.list
  BY <1>1 DEF Legible, Holding, TornFile
<1> HIDE DEF s, e
<1>7. overlap # "all" => Heeds(s, settled, e)
  BY <1>2, <1>3, <1>4, <1>6 DEF Heeds, Saving, Stands, Decides
<1>8. overlap # "all" /\ Legible(e) => settled \subseteq Blocked(e.list)
  BY <1>3, <1>6
<1> QED BY <1>1, <1>2, <1>5, <1>7, <1>8, OnlyDecider, HeedKept DEF e

\* A request that has written the log, and is at done or saves it again.
LEMMA LogSavedHeed ==
    ASSUME TypeInv, HeedInv, NEW h \in Handlers, At(h, "write"), local[h].on = "log", WriteText(h),
           plan' = plan, Unchanged,
           NEW s, Become(h, s), s.ask = local[h].ask, s.own = local[h].own,
           s.pc = "done" \/ (s.pc = "open" /\ s.on = "log")
    PROVE  HeedInv'
<1> DEFINE r == local[h]
           d == files["decisions"]
           e == files'["decisions"]
<1>1. /\ r.pc = "write" /\ r.on = "log" /\ e = d
      /\ settled' = settled /\ overlap' = overlap
      /\ overlap # "all" => /\ Heeds(r, settled, d)
                            /\ Legible(d) => settled \subseteq Blocked(d.list)
                            /\ plan.due \subseteq plan.context.blocked
  BY WriterIs, KeptAre DEF Unchanged, HeedInv
<1> HIDE DEF d, e
<1>2. Deciding(s) => Deciding(r)
  BY <1>1 DEF Deciding
<1>3. overlap # "all" => Heeds(s, settled, e)
  BY <1>1 DEF Heeds, Saving, Stands
<1> QED BY <1>1, <1>2, <1>3, OnlyDecider, HeedKept DEF d, e

LEMMA MessageWrittenHeed ==
    ASSUME TypeInv, HeedInv, NEW h \in Handlers, MessageWritten(h)
    PROVE  HeedInv'
<1> DEFINE r == local[h]
           m == Append(r.list, ActionEntry)
           s == [r EXCEPT !.pc = "open", !.on = "log", !.list = m]
<1>1. r \in Request
  BY RequestIs
<1>2. s.pc = "open" /\ s.on = "log" /\ s.ask = r.ask /\ s.own = r.own
  BY <1>1 DEF Request
<1>3. Become(h, s)
  BY DEF MessageWritten, Save
<1> HIDE DEF s
<1> QED BY <1>2, <1>3, LogSavedHeed DEF MessageWritten

LEMMA LogWrittenHeed ==
    ASSUME TypeInv, HeedInv, NEW h \in Handlers, LogWritten(h)
    PROVE  HeedInv'
<1> DEFINE r == local[h]
           s == [r EXCEPT !.pc = "done"]
<1>1. r \in Request
  BY RequestIs
<1>2. s.pc = "done" /\ s.ask = r.ask /\ s.own = r.own
  BY <1>1 DEF Request
<1>3. Become(h, s)
  BY DEF LogWritten
<1> HIDE DEF s
<1> QED BY <1>2, <1>3, LogSavedHeed DEF LogWritten

LEMMA AcknowledgeHeed ==
    ASSUME TypeInv, HeedInv, NEW h \in Handlers, Acknowledge(h)
    PROVE  HeedInv'
<1> DEFINE r == local[h]
           d == files["decisions"]
<1>1. /\ r.pc = "done" /\ Become(h, Idle)
      /\ files' = files /\ plan' = plan /\ overlap' = overlap
      /\ settled' = settled \cup BlockedBy(r.own.statement)
      /\ overlap # "all" => /\ Heeds(r, settled, d)
                            /\ Legible(d) => settled \subseteq Blocked(d.list)
                            /\ plan.due \subseteq plan.context.blocked
  BY DEF Acknowledge, At, Reject, HeedInv
<1>2. CASE Decides(r.ask)
  <2>1. Deciding(r)
    BY <1>1, <1>2 DEF Deciding
  <2>2. overlap # "all" /\ Legible(d) => settled' \subseteq Blocked(d.list)
    BY <1>1, <1>2 DEF Heeds, Stands
  <2> QED BY <1>1, <2>1, <2>2, IdleHeeds, HeedKept
<1>3. CASE ~Decides(r.ask)
  <2>1. r.own = NoDecision
    BY <1>3, RequestIs DEF Held, Placed
  <2>2. settled' = settled
    BY <1>1, <2>1, NothingTyped
  <2> QED BY <1>1, <2>2, IdleHeeds, HeedKept
<1> QED BY <1>2, <1>3

LEMMA FailsHeed ==
    ASSUME TypeInv, HeedInv, NEW h \in Handlers, Fails(h)
    PROVE  HeedInv'
<1> DEFINE d == files["decisions"]
           e == files'["decisions"]
<1>1. local[h].on \in Stores /\ DOMAIN files = Stores /\ "decisions" \in Stores
  BY RequestIs, KeptAre DEF TypeInv
<1>2. PICK x \in {files[local[h].on], TornFile} : files' = [files EXCEPT ![local[h].on] = x]
  BY DEF Fails
<1>3. e = d \/ e = TornFile
  BY <1>1, <1>2
<1>4. e = d \/ ~Legible(e)
  BY <1>3 DEF Legible, TornFile
<1>5. /\ plan' = plan /\ settled' = settled /\ overlap' = overlap /\ Become(h, Idle)
      /\ overlap # "all" => /\ Legible(d) => settled \subseteq Blocked(d.list)
                            /\ plan.due \subseteq plan.context.blocked
  BY DEF Fails, Unchanged, Reject, HeedInv
<1> HIDE DEF d, e
<1>6. overlap # "all" /\ Legible(e) => settled \subseteq Blocked(e.list)
  BY <1>4, <1>5
<1> QED BY <1>4, <1>5, <1>6, IdleHeeds, HeedKept DEF d, e

LEMMA CrashHeed ==
    ASSUME TypeInv, HeedInv, Crash
    PROVE  HeedInv'
<1>1. PICK Lost : files' = [f \in Stores |-> IF f \in Lost THEN TornFile ELSE files[f]]
  BY DEF Crash
<1>2. files'["decisions"] = files["decisions"] \/ files'["decisions"] = TornFile
  BY <1>1, KeptAre
<1>3. files'["decisions"] = files["decisions"] \/ ~Legible(files'["decisions"])
  BY <1>2 DEF Legible, TornFile
<1>4. \A h \in Handlers : local'[h] = Idle
  BY DEF Crash
<1>5. settled' = settled /\ plan' = plan /\ overlap' = overlap
  BY DEF Crash
<1> QED BY <1>3, <1>4, <1>5, IdleHeeds DEF HeedInv

\* Every step heeds.
LEMMA NextHeedInv == TypeInv /\ HeedInv /\ [Next]_vars => HeedInv'
<1> SUFFICES ASSUME TypeInv, HeedInv, [Next]_vars PROVE HeedInv'
  OBVIOUS
<1>1. CASE UNCHANGED vars
  BY <1>1 DEF vars, HeedInv
<1>2. CASE Crash
  BY <1>2, CrashHeed
<1>3. ASSUME NEW h \in Handlers, Step(h) PROVE HeedInv'
  BY <1>3, BeginHeed, LoadEarlyHeed, LoadHeed, WorkHeed, OpenHeed, AnswerWrittenHeed,
     DecisionWrittenHeed, MessageWrittenHeed, LogWrittenHeed, AcknowledgeHeed, FailsHeed
  DEF Step
<1> QED BY <1>1, <1>2, <1>3 DEF Next

\* At no time is a restriction dropped.
LEMMA HeedHolds == Spec => [](TypeInv /\ HeedInv)
<1>1. Init => TypeInv /\ HeedInv
  BY InitTypeInv, InitHeedInv
<1>2. TypeInv /\ HeedInv /\ [Next]_vars => (TypeInv /\ HeedInv)'
  BY NextTypeInv, NextHeedInv
<1> QED BY <1>1, <1>2, PTL DEF Spec

\* Unless requests that decide overlap, what an acknowledged decision blocked
\* stays blocked, whatever else overlaps, fails or is cut short.
THEOREM RestrictionsStay == Spec => []BlockedIsPreserved
<1>1. HeedInv => BlockedIsPreserved
  BY DEF HeedInv, BlockedIsPreserved, Readable, Legible
<1> QED BY <1>1, HeedHolds, PTL

\* Nor is a plan saved that does not heed a decision acknowledged before the
\* plan was asked for.
THEOREM PlansHeed == Spec => []PlanHeedsDecisions
<1>1. HeedInv => PlanHeedsDecisions
  BY DEF HeedInv, PlanHeedsDecisions
<1> QED BY <1>1, HeedHolds, PTL

(* ------------- without overlap the three stores move together ---------- *)

\* An idle request is staged as the one that was never there.
LEMMA IdleStaged ==
    ASSUME NEW r, r.pc = "idle", r.ask.op # "answer" => r.own.of = NoQuestion,
           NEW F, NEW o, Staged(Idle, F, o)
    PROVE  Staged(r, F, o)
<1>1. \A f \in Stores : Coming(r, F, f) = F[f].list /\ Coming(Idle, F, f) = F[f].list
  BY DEF Coming, Saving, Idle
<1>2. Agree(Idle, F, o) => Agree(r, F, o)
  BY <1>1 DEF Agree, Stores
<1> QED BY <1>2 DEF Staged, Saving, Idle

\* It is enough that the lists agree where all can be read.
LEMMA AllStaged ==
    ASSUME NEW F, NEW o, (\A f \in Stores : Legible(F[f])) => Agree(Idle, F, o)
    PROVE  Staged(Idle, F, o)
BY NothingTyped DEF Staged, Saving, Idle

\* What must hold of a step of one request while no other is there.
LEMMA SerialKept ==
    ASSUME TypeInv, SerialInv, NEW h \in Handlers, NEW r, Become(h, r), overlap' = overlap,
           overlap = "none" =>
               /\ \A g \in Handlers \ {h} : At(g, "idle")
               /\ Staged(Idle, files', open')
               /\ Staged(r, files', open')
    PROVE  SerialInv'
<1> SUFFICES ASSUME overlap = "none" PROVE SerialInv'
  BY DEF SerialInv
<1>1. local'[h] = r /\ \A g \in Handlers : g # h => local'[g] = local[g]
  BY OthersStay DEF TypeInv
<1>2. \A g \in Handlers : g # h => local'[g].pc = "idle"
  BY <1>1 DEF At
<1>3. ASSUME NEW g \in Handlers
      PROVE  Staged(local'[g], files', open')
  <2>1. CASE g = h
    BY <1>1, <2>1
  <2>2. CASE g # h
    <3> DEFINE q == local[g]
               F == files'
               o == open'
    <3>1. /\ local'[g] = q /\ q.pc = "idle"
          /\ q.ask.op # "answer" => q.own.of = NoQuestion
          /\ Staged(Idle, F, o)
      BY <1>1, <1>2, <2>2 DEF SerialInv, Staged
    <3> HIDE DEF q, F, o
    <3>2. Staged(q, F, o)
      BY <3>1, IdleStaged
    <3> QED BY <3>1, <3>2 DEF F, o
  <2> QED BY <2>1, <2>2
<1>4. \A e, g \in Handlers : ~At(e, "idle")' /\ ~At(g, "idle")' => e = g
  BY <1>2 DEF At
<1> QED BY <1>3, <1>4 DEF SerialInv

\* What is known of the one request that is there.
LEMMA Alone ==
    ASSUME SerialInv, overlap = "none", NEW h \in Handlers, ~At(h, "idle")
    PROVE  /\ \A g \in Handlers \ {h} : At(g, "idle")
           /\ Staged(Idle, files, open) /\ Staged(local[h], files, open)
BY DEF SerialInv

\* A list to be saved agrees with the other stores if it says the same as the
\* one it replaces of every question that is not open.
LEMMA AgreeSaving ==
    ASSUME NEW F, NEW o, Staged(Idle, F, o), NEW f \in Stores, Legible(F[f]),
           NEW s, s.pc \in {"open", "write"}, s.on = f,
           \A id \in Questions \ o : Latest(s.list, id) = Latest(F[f].list, id)
    PROVE  (\A g \in Stores : Saving(s, g) \/ Legible(F[g])) => Agree(s, F, o)
<1> SUFFICES ASSUME \A g \in Stores : Saving(s, g) \/ Legible(F[g])
             PROVE  Agree(s, F, o)
  OBVIOUS
<1>1. \A g \in Stores : Legible(F[g])
  BY DEF Saving
<1>2. Agree(Idle, F, o)
  BY <1>1 DEF Staged
<1>3. \A g \in Stores : Coming(Idle, F, g) = F[g].list
  BY DEF Coming, Saving, Idle
<1>4. \A g \in Stores : Coming(s, F, g) = IF g = f THEN s.list ELSE F[g].list
  BY DEF Coming, Saving
<1>5. \A id \in Questions \ o : \A g \in Stores : Latest(Coming(s, F, g), id) = Latest(F[g].list, id)
  BY <1>4
<1> QED BY <1>2, <1>3, <1>5, KeptAre DEF Agree

\* A request that saves nothing agrees if the stores do.
LEMMA AgreeIdle ==
    ASSUME NEW F, NEW o, Staged(Idle, F, o), NEW s, s.pc \notin {"open", "write"}
    PROVE  (\A g \in Stores : Saving(s, g) \/ Legible(F[g])) => Agree(s, F, o)
<1> SUFFICES ASSUME \A g \in Stores : Saving(s, g) \/ Legible(F[g])
             PROVE  Agree(s, F, o)
  OBVIOUS
<1>1. \A g \in Stores : Legible(F[g])
  BY DEF Saving
<1>2. Agree(Idle, F, o)
  BY <1>1 DEF Staged
<1>3. \A g \in Stores : Coming(Idle, F, g) = F[g].list /\ Coming(s, F, g) = F[g].list
  BY DEF Coming, Saving, Idle
<1> QED BY <1>2, <1>3, KeptAre DEF Agree

\* A list is a prefix of what is appended to it.
LEMMA AppendPrefix ==
    ASSUME NEW T, NEW l \in Seq(T), NEW e \in T
    PROVE  IsPrefix(l, l) /\ IsPrefix(l, Append(l, e))
BY DEF IsPrefix

LEMMA InitSerialInv == Init => SerialInv
<1> SUFFICES ASSUME Init PROVE SerialInv
  OBVIOUS
<1>1. \A f \in Stores : files[f].list = <<>>
  BY DEF Init, NoFile, Holding
<1>2. \A f \in Stores : Coming(Idle, files, f) = <<>>
  BY <1>1 DEF Coming, Saving, Idle
<1>3. Staged(Idle, files, open)
  BY <1>2, AllStaged, KeptAre DEF Agree
<1>4. \A h \in Handlers : local[h] = Idle
  BY DEF Init
<1> QED BY <1>3, <1>4, NothingTyped DEF SerialInv, At

\* One lemma for each action: the stores move together.
LEMMA BeginSerial ==
    ASSUME TypeInv, SerialInv, NEW h \in Handlers, Begin(h)
    PROVE  SerialInv'
<1>1. PICK k \in Posed :
        /\ \A g \in Handlers :
            ~At(g, "idle") => \/ overlap = "all"
                              \/ overlap = "one decides" /\ ~(Decides(k) /\ Decides(local[g].ask))
        /\ Become(h,
            IF k.op = "decide"
            THEN [Idle EXCEPT !.pc = "load", !.on = "decisions", !.ask = k, !.due = settled,
                    !.own = [NoDecision EXCEPT !.statement = k.statement]]
            ELSE [Idle EXCEPT !.pc = "early", !.ask = k, !.due = settled])
        /\ open' = IF k.op = "answer" THEN open \cup {k.id} ELSE open
  BY DEF Begin
<1> DEFINE r == IF k.op = "decide"
            THEN [Idle EXCEPT !.pc = "load", !.on = "decisions", !.ask = k, !.due = settled,
                    !.own = [NoDecision EXCEPT !.statement = k.statement]]
            ELSE [Idle EXCEPT !.pc = "early", !.ask = k, !.due = settled]
           F == files
           o == open'
<1>2. files' = F /\ overlap' = overlap /\ open \subseteq o /\ (k.op = "answer" => k.id \in o)
  BY <1>1 DEF Begin
<1>3. /\ r.ask = k /\ r.own.of = NoQuestion
      /\ r.pc = "early" \/ (r.pc = "load" /\ k.op = "decide")
  BY NothingTyped DEF Request, Decision
<1>4. Become(h, r)
  BY <1>1
<1>5. overlap = "none" => Staged(Idle, F, open) /\ \A g \in Handlers \ {h} : At(g, "idle")
  BY <1>1 DEF SerialInv
<1> HIDE DEF r, F, o
<1>6. Staged(Idle, F, open) => Staged(Idle, F, o)
  <2> SUFFICES ASSUME Staged(Idle, F, open), \A f \in Stores : Legible(F[f]) PROVE Agree(Idle, F, o)
    BY AllStaged
  <2>1. Agree(Idle, F, open)
    BY DEF Staged
  <2> QED BY <1>2, <2>1 DEF Agree
<1>7. Staged(Idle, F, o) => Staged(r, F, o)
  BY <1>2, <1>3, AgreeIdle DEF Staged, Reached, Made
<1> QED BY <1>2, <1>4, <1>5, <1>6, <1>7, SerialKept DEF o

LEMMA LoadEarlySerial ==
    ASSUME TypeInv, SerialInv, NEW h \in Handlers, LoadEarly(h)
    PROVE  SerialInv'
<1> DEFINE r == local[h]
           k == r.ask
           F == files
           o == open
           l == F["log"].list
<1>1. /\ r \in Request /\ r.pc = "early" /\ k \in Posed /\ l \in Seq(Entry)
      /\ files' = F /\ open' = o /\ overlap' = overlap
  BY RequestIs, KeptAre DEF LoadEarly, At, Unchanged
<1>2. ~At(h, "idle")
  BY <1>1 DEF At
<1> SUFFICES ASSUME overlap = "none" PROVE SerialInv'
  BY <1>1 DEF SerialInv
<1>3. /\ \A g \in Handlers \ {h} : At(g, "idle")
      /\ Staged(Idle, F, o) /\ Staged(r, F, o)
  BY <1>2, Alone
<1>4. k.op = "answer" => k.id \in o
  BY <1>1, <1>3 DEF Staged
<1>5. CASE Reject(h)
  BY <1>1, <1>3, <1>5, SerialKept DEF Reject
<1>6. CASE k.op = "answer" /\ Loads(h, "answers")
  <2> DEFINE s == [r EXCEPT !.pc = "load", !.on = "answers"]
  <2>1. s.pc = "load" /\ s.on = "answers" /\ s.ask = k
    BY <1>1 DEF Request
  <2>2. Become(h, s)
    BY <1>6 DEF Loads
  <2> HIDE DEF s, F, o
  <2>3. Staged(s, F, o)
    BY <1>3, <1>4, <1>6, <2>1, AgreeIdle DEF Staged, Reached, Made
  <2> QED BY <1>1, <1>3, <2>2, <2>3, SerialKept DEF F, o
<1>7. CASE F["log"].kind = "whole" /\ k.op = "plan"
           /\ Become(h, [r EXCEPT !.pc = "load", !.on = "decisions", !.list = l])
  <2> DEFINE s == [r EXCEPT !.pc = "load", !.on = "decisions", !.list = l]
  <2>1. s.pc = "load" /\ s.on = "decisions" /\ s.ask = k /\ s.list = l /\ s.own = r.own
    BY <1>1 DEF Request
  <2>2. Become(h, s)
    BY <1>7
  <2> HIDE DEF s, F, o
  <2>3. Staged(s, F, o)
    BY <1>3, <1>7, <2>1, AgreeIdle DEF Staged, Reached, Made
  <2> QED BY <1>1, <1>3, <2>2, <2>3, SerialKept DEF F, o
<1>8. CASE F["log"].kind = "whole" /\ k.op = "note" /\ Become(h, [r EXCEPT !.pc = "work", !.list = l])
  <2> DEFINE s == [r EXCEPT !.pc = "work", !.list = l]
  <2>1. s.pc = "work" /\ s.ask = k /\ s.list = l /\ s.own = r.own
    BY <1>1 DEF Request
  <2>2. Become(h, s)
    BY <1>8
  <2> HIDE DEF s, F, o
  <2>3. Staged(s, F, o)
    BY <1>3, <1>8, <2>1, AgreeIdle DEF Staged, Reached, Made
  <2> QED BY <1>1, <1>3, <2>2, <2>3, SerialKept DEF F, o
<1>9. CASE F["log"].kind = "whole" /\ k.op = "say" /\ Save(h, "log", Append(l, MessageEntry))
  <2> DEFINE m == Append(l, MessageEntry)
             s == [r EXCEPT !.pc = "open", !.on = "log", !.list = m]
  <2>1. s.pc = "open" /\ s.on = "log" /\ s.ask = k /\ s.list = m /\ s.own = r.own
    BY <1>1 DEF Request
  <2>2. Become(h, s)
    BY <1>9 DEF Save
  <2>3. \A id \in Questions : Latest(m, id) = Latest(l, id)
    BY <1>1, AddedTyped, LatestAppended, ClientsAssumption
  <2>4. IsPrefix(l, m)
    BY <1>1, AddedTyped, AppendPrefix
  <2> HIDE DEF s, F, o, m
  <2>5. (\A g \in Stores : Saving(s, g) \/ Legible(F[g])) => Agree(s, F, o)
    BY <1>3, <1>9, <2>1, <2>3, AgreeSaving, KeptAre DEF Legible
  <2>6. Staged(s, F, o)
    BY <1>3, <1>9, <2>1, <2>4, <2>5 DEF Staged, Reached, Made
  <2> QED BY <1>1, <1>3, <2>2, <2>6, SerialKept DEF F, o
<1> QED BY <1>5, <1>6, <1>7, <1>8, <1>9 DEF LoadEarly

LEMMA LoadSerial ==
    ASSUME TypeInv, SerialInv, NEW h \in Handlers, Load(h)
    PROVE  SerialInv'
<1> DEFINE r == local[h]
           k == r.ask
           F == files
           o == open
           l == F[r.on].list
<1>1. /\ r \in Request /\ r.pc = "load" /\ k \in Posed /\ r.on \in Stores /\ r.own \in Decision
      /\ l \in Seq(Kept[r.on])
      /\ files' = F /\ open' = o /\ overlap' = overlap
      /\ k.op = "answer" /\ r.on # "answers" => r.own.of = k.id /\ r.own.answer = k.answer
      /\ r.on = "answers" => k.op = "answer"
  <2>1. r.on # "answers" => r.on \in {"decisions", "log"}
    BY RequestIs DEF Stores
  <2> QED BY <2>1, RequestIs DEF Load, At, Unchanged, Held, Placed, Made
<1>2. ~At(h, "idle")
  BY <1>1 DEF At
<1> SUFFICES ASSUME overlap = "none" PROVE SerialInv'
  BY <1>1 DEF SerialInv
<1>3. /\ \A g \in Handlers \ {h} : At(g, "idle")
      /\ Staged(Idle, F, o) /\ Staged(r, F, o)
  BY <1>2, Alone
<1>4. /\ k.op = "answer" => k.id \in o
      /\ k.op # "answer" => r.own.of = NoQuestion
  BY <1>1, <1>3 DEF Staged
<1>5. CASE Reject(h)
  BY <1>1, <1>3, <1>5, SerialKept DEF Reject
<1>6. CASE /\ Legible(F[r.on]) /\ r.on = "answers"
           /\ Save(h, "answers", OthersAnd(l, [of |-> k.id, answer |-> k.answer]))
  <2> DEFINE a == [of |-> k.id, answer |-> k.answer]
             m == OthersAnd(l, a)
             s == [r EXCEPT !.pc = "open", !.on = "answers", !.list = m]
  <2>1. s.pc = "open" /\ s.on = "answers" /\ s.ask = k /\ s.list = m /\ s.own = r.own
    BY <1>1 DEF Request
  <2>2. Become(h, s)
    BY <1>6 DEF Save
  <2>3. a \in Answered /\ a.of = k.id /\ a.answer = k.answer /\ k.op = "answer"
    BY <1>1, <1>6, Asked, AddedTyped
  <2> HIDE DEF a
  <2>4. \A id : Latest(m, id) = IF k.id = id THEN k.answer ELSE Latest(l, id)
    BY <1>1, <1>6, <2>3, KeptAre, AnswerReplaces
  <2>5. \A id \in Questions \ o : Latest(s.list, id) = Latest(F["answers"].list, id)
    BY <1>4, <1>6, <2>1, <2>3, <2>4
  <2> HIDE DEF s, F, o, m
  <2>6. (\A g \in Stores : Saving(s, g) \/ Legible(F[g])) => Agree(s, F, o)
    BY <1>3, <1>6, <2>1, <2>5, AgreeSaving, KeptAre
  <2>7. Staged(s, F, o)
    BY <1>3, <1>4, <2>1, <2>3, <2>4, <2>6 DEF Staged, Reached, Made
  <2> QED BY <1>1, <1>3, <2>2, <2>7, SerialKept DEF F, o
<1>7. CASE /\ Legible(F[r.on]) /\ r.on = "decisions" /\ Decides(k)
           /\ Save(h, "decisions", Append(l, r.own))
  <2> DEFINE m == Append(l, r.own)
             s == [r EXCEPT !.pc = "open", !.on = "decisions", !.list = m]
  <2>1. s.pc = "open" /\ s.on = "decisions" /\ s.ask = k /\ s.list = m /\ s.own = r.own
    BY <1>1 DEF Request
  <2>2. Become(h, s)
    BY <1>7 DEF Save
  <2>3. \A id : Latest(m, id) = IF r.own.of = id THEN r.own.answer ELSE Latest(l, id)
    BY <1>1, <1>7, KeptAre, LatestAppended
  <2>4. \A id \in Questions \ o : r.own.of # id
    BY <1>1, <1>4, <1>7, ClientsAssumption
  <2>5. \A id \in Questions \ o : Latest(s.list, id) = Latest(F["decisions"].list, id)
    BY <1>7, <2>1, <2>3, <2>4
  <2>6. k.op = "answer" => Latest(m, k.id) = k.answer
    BY <1>1, <1>7, <2>3
  <2> HIDE DEF s, F, o, m
  <2>7. (\A g \in Stores : Saving(s, g) \/ Legible(F[g])) => Agree(s, F, o)
    BY <1>3, <1>7, <2>1, <2>5, AgreeSaving, KeptAre
  <2>8. Reached(s) = Reached(r)
    BY <1>1, <1>7, <2>1 DEF Reached, Made
  <2>9. Staged(s, F, o)
    BY <1>1, <1>3, <1>4, <2>1, <2>6, <2>7, <2>8 DEF Staged
  <2> QED BY <1>1, <1>3, <2>2, <2>9, SerialKept DEF F, o
<1>8. CASE /\ r.on = "decisions" /\ k.op = "plan"
           /\ Become(h, [r EXCEPT !.pc = "work", !.on = "log", !.context = Context(l)])
  <2> DEFINE c == Context(l)
             s == [r EXCEPT !.pc = "work", !.on = "log", !.context = c]
  <2>1. Become(h, s)
    BY <1>8
  <2> HIDE DEF c
  <2>2. s.pc = "work" /\ s.ask = k /\ s.list = r.list /\ s.own = r.own
    BY <1>1 DEF Request
  <2> HIDE DEF s, F, o, l
  <2>3. Staged(s, F, o)
    BY <1>1, <1>3, <1>4, <1>8, <2>2, AgreeIdle DEF Staged, Reached, Made
  <2> QED BY <1>1, <1>3, <2>1, <2>3, SerialKept DEF F, o
<1>9. CASE /\ F["log"].kind = "whole" /\ r.on = "log"
           /\ Save(h, "log", Append(l, DecisionEntry(r.own)))
  <2> DEFINE m == Append(l, DecisionEntry(r.own))
             s == [r EXCEPT !.pc = "open", !.on = "log", !.list = m]
  <2>1. s.pc = "open" /\ s.on = "log" /\ s.ask = k /\ s.list = m /\ s.own = r.own
    BY <1>1 DEF Request
  <2>2. Become(h, s)
    BY <1>9 DEF Save
  <2>3. /\ DecisionEntry(r.own) \in Entry /\ DecisionEntry(r.own).of = r.own.of
        /\ DecisionEntry(r.own).answer = r.own.answer /\ l \in Seq(Entry)
    BY <1>1, <1>9, KeptAre, AddedTyped
  <2>4. /\ \A id : Latest(m, id) = IF r.own.of = id THEN r.own.answer ELSE Latest(l, id)
        /\ IsPrefix(l, m)
    BY <2>3, LatestAppended, AppendPrefix
  <2>5. \A id \in Questions \ o : r.own.of # id
    BY <1>1, <1>4, <1>9, ClientsAssumption
  <2>6. \A id \in Questions \ o : Latest(s.list, id) = Latest(F["log"].list, id)
    BY <1>9, <2>1, <2>4, <2>5
  <2>7. k.op = "answer" => Latest(m, k.id) = k.answer
    BY <1>1, <1>9, <2>4
  <2>8. IsPrefix(F["log"].list, m)
    BY <1>9, <2>4
  <2> HIDE DEF s, F, o, m, l
  <2>9. (\A g \in Stores : Saving(s, g) \/ Legible(F[g])) => Agree(s, F, o)
    BY <1>3, <1>9, <2>1, <2>6, AgreeSaving, KeptAre DEF Legible
  <2>10. Reached(s) = Reached(r)
    BY <1>1, <1>9, <2>1 DEF Reached, Made
  <2>11. Staged(s, F, o)
    BY <1>1, <1>3, <1>4, <1>9, <2>1, <2>7, <2>8, <2>9, <2>10 DEF Staged
  <2> QED BY <1>1, <1>3, <2>2, <2>11, SerialKept DEF F, o
<1>10. CASE Legible(F[r.on]) /\ Proceed(h, l) /\ (r.on = "log" => F["log"].kind = "whole")
  BY <1>6, <1>7, <1>8, <1>9, <1>10 DEF Proceed
<1> QED BY <1>5, <1>10, LoadGoesBy

LEMMA WorkSerial ==
    ASSUME TypeInv, SerialInv, NEW h \in Handlers, Work(h)
    PROVE  SerialInv'
<1> DEFINE r == local[h]
           F == files
           o == open
           m == Append(r.list, ActionEntry)
           s == [r EXCEPT !.pc = "open", !.on = "log", !.list = m]
<1>1. /\ r \in Request /\ r.pc = "work" /\ r.list \in Seq(Entry) /\ ~Decides(r.ask)
      /\ files' = F /\ open' = o /\ overlap' = overlap
  BY RequestIs DEF Work, At, Unchanged, Held, Placed
<1>2. ~At(h, "idle")
  BY <1>1 DEF At
<1> SUFFICES ASSUME overlap = "none" PROVE SerialInv'
  BY <1>1 DEF SerialInv
<1>3. /\ \A g \in Handlers \ {h} : At(g, "idle")
      /\ Staged(Idle, F, o) /\ Staged(r, F, o)
  BY <1>2, Alone
<1>4. F["log"].kind = "whole" /\ r.list = F["log"].list /\ r.ask.op # "answer"
      /\ r.own.of = NoQuestion
  BY <1>1, <1>3 DEF Staged, Decides
<1>5. s.pc = "open" /\ s.on = "log" /\ s.ask = r.ask /\ s.list = m /\ s.own = r.own
  BY <1>1 DEF Request
<1>6. Become(h, s)
  BY DEF Work, Save
<1>7. \A id \in Questions : Latest(m, id) = Latest(r.list, id)
  BY <1>1, AddedTyped, LatestAppended, ClientsAssumption
<1>8. IsPrefix(r.list, m)
  BY <1>1, AddedTyped, AppendPrefix
<1> HIDE DEF s, m, F, o
<1>9. (\A g \in Stores : Saving(s, g) \/ Legible(F[g])) => Agree(s, F, o)
  BY <1>3, <1>4, <1>5, <1>7, AgreeSaving, KeptAre DEF Legible
<1>10. Staged(s, F, o)
  BY <1>4, <1>5, <1>8, <1>9 DEF Staged
<1> QED BY <1>1, <1>3, <1>6, <1>10, SerialKept DEF F, o

LEMMA OpenSerial ==
    ASSUME TypeInv, SerialInv, NEW h \in Handlers, Open(h)
    PROVE  SerialInv'
<1> DEFINE r == local[h]
           F == files
           G == files'
           o == open
           s == [r EXCEPT !.pc = "write"]
<1>1. /\ r \in Request /\ r.pc = "open" /\ r.on \in Stores
      /\ open' = o /\ overlap' = overlap
      /\ G[r.on] = EmptyFile /\ \A f \in Stores : f # r.on => G[f] = F[f]
  <2>1. DOMAIN files = Stores /\ r.on \in Stores
    BY RequestIs DEF TypeInv
  <2> QED BY <2>1, RequestIs DEF Open, At, Unchanged
<1>2. ~At(h, "idle")
  BY <1>1 DEF At
<1> SUFFICES ASSUME overlap = "none" PROVE SerialInv'
  BY <1>1 DEF SerialInv
<1>3. /\ \A g \in Handlers \ {h} : At(g, "idle")
      /\ Staged(Idle, F, o) /\ Staged(r, F, o)
  BY <1>2, Alone
<1>4. s.pc = "write" /\ s.on = r.on /\ s.ask = r.ask /\ s.list = r.list /\ s.own = r.own
  BY <1>1 DEF Request
<1>5. Become(h, s)
  BY DEF Open
<1> HIDE DEF r, s, F, G, o
<1>6. Staged(Idle, G, o)
  BY <1>1, AllStaged DEF Legible, EmptyFile
<1>7. \A f \in Stores : /\ Saving(s, f) <=> Saving(r, f)
                        /\ Coming(s, G, f) = Coming(r, F, f)
                        /\ Saving(s, f) \/ Legible(G[f]) => Saving(r, f) \/ Legible(F[f])
  BY <1>1, <1>4 DEF Saving, Coming
<1>8. (\A f \in Stores : Saving(s, f) \/ Legible(G[f])) => Agree(s, G, o)
  <2>1. Agree(r, F, o) => Agree(s, G, o)
    BY <1>7, KeptAre DEF Agree
  <2> QED BY <1>3, <1>7, <2>1 DEF Staged
<1>9. Reached(s) = Reached(r) /\ r.on \notin Reached(r) /\ Reached(r) \subseteq Stores
  BY <1>1, <1>4 DEF Reached, Made, Stores
<1>10. \A f \in Reached(s) : G[f] = F[f]
  BY <1>1, <1>9
<1>11. Staged(s, G, o)
  <2>1. s.ask.op = "answer" =>
            /\ s.ask.id \in o /\ Latest(s.list, s.ask.id) = s.ask.answer
            /\ \A f \in Reached(s) : Legible(G[f]) => Latest(G[f].list, s.ask.id) = s.ask.answer
    BY <1>1, <1>3, <1>4, <1>9, <1>10 DEF Staged
  <2>2. s.ask.op # "answer" => s.own.of = NoQuestion
    BY <1>3, <1>4 DEF Staged
  <2>3. G[s.on].kind = "empty"
    BY <1>1, <1>4 DEF EmptyFile
  <2> QED BY <1>4, <1>8, <2>1, <2>2, <2>3 DEF Staged
<1> QED BY <1>1, <1>3, <1>5, <1>6, <1>11, SerialKept DEF G, o

\* The request that writes, alone, leaves its list in the file, and the stores
\* agree then as they were to.
LEMMA WrittenAlone ==
    ASSUME TypeInv, SerialInv, overlap = "none", NEW h \in Handlers, At(h, "write"), WriteText(h)
    PROVE  /\ \A g \in Handlers \ {h} : At(g, "idle")
           /\ files'[local[h].on] = Holding(local[h].list)
           /\ Staged(Idle, files', open)
           /\ local[h].ask.op = "answer" =>
                /\ local[h].ask.id \in open
                /\ Latest(local[h].list, local[h].ask.id) = local[h].ask.answer
                /\ \A f \in Reached(local[h]) :
                        Legible(files'[f]) => Latest(files'[f].list, local[h].ask.id) = local[h].ask.answer
           /\ local[h].ask.op # "answer" => local[h].own.of = NoQuestion
<1> DEFINE r == local[h]
           F == files
           G == files'
           o == open
<1>1. /\ r \in Request /\ r.pc = "write" /\ r.on \in Stores
      /\ \A f \in Stores : f # r.on => G[f] = F[f]
      /\ G[r.on] = Holding(r.list) \/ F[r.on].kind # "empty"
  BY WriterIs
<1>2. ~At(h, "idle")
  BY <1>1 DEF At
<1>3. /\ \A g \in Handlers \ {h} : At(g, "idle")
      /\ Staged(Idle, F, o) /\ Staged(r, F, o)
  BY <1>2, Alone
<1> HIDE DEF r, F, G, o
<1>4. G[r.on] = Holding(r.list)
  BY <1>1, <1>3 DEF Staged
<1>5. \A f \in Stores : G[f].list = Coming(r, F, f) /\ (Legible(G[f]) => Saving(r, f) \/ Legible(F[f]))
  BY <1>1, <1>4 DEF Coming, Saving, Holding
<1>6. Staged(Idle, G, o)
  <2> SUFFICES ASSUME \A f \in Stores : Legible(G[f]) PROVE Agree(Idle, G, o)
    BY AllStaged
  <2>1. Agree(r, F, o)
    BY <1>3, <1>5 DEF Staged
  <2>2. \A f \in Stores : Coming(Idle, G, f) = Coming(r, F, f)
    BY <1>5 DEF Coming, Saving, Idle
  <2> QED BY <2>1, <2>2, KeptAre DEF Agree
<1>7. Reached(r) \subseteq Stores /\ r.on \notin Reached(r)
  BY <1>1 DEF Reached, Made, Stores
<1>8. \A f \in Reached(r) : G[f] = F[f]
  BY <1>1, <1>7
<1>9. r.ask.op = "answer" =>
        /\ r.ask.id \in o
        /\ Latest(r.list, r.ask.id) = r.ask.answer
        /\ \A f \in Reached(r) : Legible(G[f]) => Latest(G[f].list, r.ask.id) = r.ask.answer
  BY <1>1, <1>3, <1>8 DEF Staged
<1>10. r.ask.op # "answer" => r.own.of = NoQuestion
  BY <1>3 DEF Staged
<1> QED BY <1>3, <1>4, <1>6, <1>9, <1>10 DEF r, G, o

\* A request that has written a store, and loads the next or is done.
LEMMA StoredSerial ==
    ASSUME TypeInv, SerialInv, NEW h \in Handlers, At(h, "write"), WriteText(h),
           plan' = plan, Unchanged,
           NEW s, Become(h, s), s.ask = local[h].ask, local[h].ask.op # "plan" \/ s.pc = "done",
           s.ask.op # "answer" => s.own.of = local[h].own.of,
           s.pc = "load" \/ s.pc = "done",
           s.ask.op = "answer" => Reached(s) = Reached(local[h]) \cup {local[h].on}
    PROVE  SerialInv'
<1> SUFFICES ASSUME overlap = "none" PROVE SerialInv'
  BY DEF SerialInv, Unchanged
<1> DEFINE r == local[h]
           G == files'
           o == open
<1>1. /\ \A g \in Handlers \ {h} : At(g, "idle")
      /\ G[r.on] = Holding(r.list)
      /\ Staged(Idle, G, o)
      /\ r.ask.op = "answer" =>
            /\ r.ask.id \in o
            /\ Latest(r.list, r.ask.id) = r.ask.answer
            /\ \A f \in Reached(r) : Legible(G[f]) => Latest(G[f].list, r.ask.id) = r.ask.answer
      /\ r.ask.op # "answer" => r.own.of = NoQuestion
  BY WrittenAlone
<1> HIDE DEF r, G, o
<1>2. G[r.on].list = r.list
  BY <1>1 DEF Holding
<1>3. s.ask.op = "answer" =>
        /\ s.ask.id \in o
        /\ \A f \in Reached(s) : Legible(G[f]) => Latest(G[f].list, s.ask.id) = s.ask.answer
  BY <1>1, <1>2 DEF r
<1>4. Staged(s, G, o)
  BY <1>1, <1>3, AgreeIdle DEF Staged, r
<1> QED BY <1>1, <1>4, SerialKept DEF Unchanged, G, o

LEMMA AnswerWrittenSerial ==
    ASSUME TypeInv, SerialInv, NEW h \in Handlers, AnswerWritten(h)
    PROVE  SerialInv'
<1> DEFINE r == local[h]
<1>1. r \in Request /\ r.pc = "write" /\ r.on = "answers"
  BY WriterIs DEF AnswerWritten
<1>2. PICK d \in Decision : Become(h, [r EXCEPT !.pc = "load", !.on = "decisions", !.own = d])
  BY AnswerWrittenHeld
<1>3. r.ask.op = "answer"
  BY AnswerWrittenHeld
<1> DEFINE s == [r EXCEPT !.pc = "load", !.on = "decisions", !.own = d]
<1>4. s.pc = "load" /\ s.on = "decisions" /\ s.ask = r.ask
  BY <1>1 DEF Request
<1>5. Become(h, s)
  BY <1>2
<1> HIDE DEF s
<1>6. Reached(s) = Reached(r) \cup {r.on}
  BY <1>1, <1>4 DEF Reached, Made
<1> QED BY <1>3, <1>4, <1>5, <1>6, StoredSerial DEF AnswerWritten

LEMMA DecisionWrittenSerial ==
    ASSUME TypeInv, SerialInv, NEW h \in Handlers, DecisionWritten(h)
    PROVE  SerialInv'
<1> DEFINE r == local[h]
           s == [r EXCEPT !.pc = "load", !.on = "log"]
<1>1. r \in Request /\ r.pc = "write" /\ r.on = "decisions"
  BY WriterIs DEF DecisionWritten
<1>2. r.ask.op # "plan"
  BY <1>1, RequestIs DEF Held, Placed, Decides
<1>3. s.pc = "load" /\ s.on = "log" /\ s.ask = r.ask /\ s.own = r.own
  BY <1>1 DEF Request
<1>4. Become(h, s)
  BY DEF DecisionWritten, Loads
<1> HIDE DEF s
<1>5. Reached(s) = Reached(r) \cup {r.on}
  BY <1>1, <1>3 DEF Reached, Made
<1> QED BY <1>2, <1>3, <1>4, <1>5, StoredSerial DEF DecisionWritten

LEMMA LogWrittenSerial ==
    ASSUME TypeInv, SerialInv, NEW h \in Handlers, LogWritten(h)
    PROVE  SerialInv'
<1> DEFINE r == local[h]
           s == [r EXCEPT !.pc = "done"]
<1>1. r \in Request /\ r.pc = "write" /\ r.on = "log"
  BY WriterIs DEF LogWritten
<1>2. s.pc = "done" /\ s.ask = r.ask /\ s.own = r.own
  BY <1>1 DEF Request
<1>3. Become(h, s)
  BY DEF LogWritten
<1> HIDE DEF s
<1>4. Reached(s) = Reached(r) \cup {r.on}
  BY <1>1, <1>2 DEF Reached, Made, Stores
<1> QED BY <1>2, <1>3, <1>4, StoredSerial DEF LogWritten

LEMMA MessageWrittenSerial ==
    ASSUME TypeInv, SerialInv, NEW h \in Handlers, MessageWritten(h)
    PROVE  SerialInv'
<1> SUFFICES ASSUME overlap = "none" PROVE SerialInv'
  BY DEF SerialInv, MessageWritten, Unchanged
<1> DEFINE r == local[h]
           G == files'
           o == open
           m == Append(r.list, ActionEntry)
           s == [r EXCEPT !.pc = "open", !.on = "log", !.list = m]
<1>1. /\ r \in Request /\ r.pc = "write" /\ r.on = "log" /\ r.list \in Seq(Entry)
      /\ open' = o /\ overlap' = overlap
  BY RequestIs, KeptAre DEF MessageWritten, At, Unchanged
<1>2. /\ \A g \in Handlers \ {h} : At(g, "idle")
      /\ G[r.on] = Holding(r.list)
      /\ Staged(Idle, G, o)
      /\ r.ask.op = "answer" =>
            /\ r.ask.id \in o
            /\ Latest(r.list, r.ask.id) = r.ask.answer
            /\ \A f \in Reached(r) : Legible(G[f]) => Latest(G[f].list, r.ask.id) = r.ask.answer
      /\ r.ask.op # "answer" => r.own.of = NoQuestion
  BY WrittenAlone DEF MessageWritten
<1>3. s.pc = "open" /\ s.on = "log" /\ s.ask = r.ask /\ s.list = m /\ s.own = r.own
  BY <1>1 DEF Request
<1>4. Become(h, s)
  BY DEF MessageWritten, Save
<1>5. \A id \in Questions : Latest(m, id) = Latest(r.list, id)
  BY <1>1, AddedTyped, LatestAppended, ClientsAssumption
<1>6. IsPrefix(r.list, m)
  BY <1>1, AddedTyped, AppendPrefix
<1>7. r.ask.op = "answer" => r.ask.id \in Questions
  BY RequestIs, Asked
<1> HIDE DEF r, G, o, m, s
<1>8. G["log"].kind = "whole" /\ G["log"].list = r.list
  BY <1>1, <1>2 DEF Holding
<1>9. (\A g \in Stores : Saving(s, g) \/ Legible(G[g])) => Agree(s, G, o)
  BY <1>2, <1>3, <1>5, <1>8, AgreeSaving, KeptAre DEF Legible
<1>10. Reached(s) = Reached(r)
  BY <1>1, <1>3 DEF Reached, Made
<1>11. Staged(s, G, o)
  BY <1>2, <1>3, <1>5, <1>6, <1>7, <1>8, <1>9, <1>10 DEF Staged
<1> QED BY <1>1, <1>2, <1>4, <1>11, SerialKept DEF G, o

LEMMA AcknowledgeSerial ==
    ASSUME TypeInv, SerialInv, NEW h \in Handlers, Acknowledge(h)
    PROVE  SerialInv'
<1> SUFFICES ASSUME overlap = "none" PROVE SerialInv'
  BY DEF SerialInv, Acknowledge
<1> DEFINE r == local[h]
           F == files
           o == open
           p == open'
<1>1. /\ r.pc = "done" /\ files' = F /\ overlap' = overlap /\ Become(h, Idle)
      /\ p = IF r.ask.op = "answer" THEN o \ {r.ask.id} ELSE o
  BY DEF Acknowledge, At, Reject
<1>2. ~At(h, "idle")
  BY <1>1 DEF At
<1>3. /\ \A g \in Handlers \ {h} : At(g, "idle")
      /\ Staged(Idle, F, o) /\ Staged(r, F, o)
  BY <1>2, Alone
<1> HIDE DEF r, F, o, p
<1>4. Staged(Idle, F, p)
  <2> SUFFICES ASSUME \A f \in Stores : Legible(F[f]) PROVE Agree(Idle, F, p)
    BY AllStaged
  <2>1. Agree(Idle, F, o)
    BY <1>3 DEF Staged
  <2>2. \A f \in Stores : Coming(Idle, F, f) = F[f].list
    BY DEF Coming, Saving, Idle
  <2>3. r.ask.op = "answer" => \A f \in Stores : Latest(F[f].list, r.ask.id) = r.ask.answer
    BY <1>1, <1>3 DEF Staged, Reached, Made
  <2> QED BY <1>1, <2>1, <2>2, <2>3, KeptAre DEF Agree
<1> QED BY <1>1, <1>3, <1>4, SerialKept DEF F, p

\* Files that were damaged, if any, cannot be read.
LEMMA DamagedStaged ==
    ASSUME NEW F, NEW G, NEW o, Staged(Idle, F, o),
           \A f \in Stores : G[f] = F[f] \/ G[f] = TornFile
    PROVE  Staged(Idle, G, o)
<1> SUFFICES ASSUME \A f \in Stores : Legible(G[f]) PROVE Agree(Idle, G, o)
  BY AllStaged
<1>1. \A f \in Stores : G[f] = F[f] /\ Legible(F[f])
  BY DEF Legible, TornFile
<1>2. Agree(Idle, F, o)
  BY <1>1 DEF Staged
<1>3. \A f \in Stores : Coming(Idle, F, f) = Coming(Idle, G, f)
  BY <1>1 DEF Coming, Saving, Idle
<1> QED BY <1>2, <1>3, KeptAre DEF Agree

LEMMA FailsSerial ==
    ASSUME TypeInv, SerialInv, NEW h \in Handlers, Fails(h)
    PROVE  SerialInv'
<1> SUFFICES ASSUME overlap = "none" PROVE SerialInv'
  BY DEF SerialInv, Fails, Unchanged
<1> DEFINE F == files
           G == files'
           o == open
<1>1. /\ open' = o /\ overlap' = overlap /\ Become(h, Idle) /\ ~At(h, "idle")
      /\ local[h].on \in Stores /\ DOMAIN files = Stores
  BY RequestIs DEF Fails, Unchanged, Reject, TypeInv
<1>2. PICK x \in {files[local[h].on], TornFile} : files' = [files EXCEPT ![local[h].on] = x]
  BY DEF Fails
<1>3. \A f \in Stores : G[f] = F[f] \/ G[f] = TornFile
  BY <1>1, <1>2
<1>4. (\A g \in Handlers \ {h} : At(g, "idle")) /\ Staged(Idle, F, o)
  BY <1>1, Alone
<1> HIDE DEF F, G, o
<1>5. Staged(Idle, G, o)
  BY <1>3, <1>4, DamagedStaged
<1> QED BY <1>1, <1>4, <1>5, SerialKept DEF G, o

LEMMA CrashSerial ==
    ASSUME TypeInv, SerialInv, Crash
    PROVE  SerialInv'
<1> SUFFICES ASSUME overlap = "none" PROVE SerialInv'
  BY DEF SerialInv, Crash
<1> DEFINE F == files
           G == files'
           o == open
<1>1. PICK Lost : files' = [f \in Stores |-> IF f \in Lost THEN TornFile ELSE files[f]]
  BY DEF Crash
<1>2. \A f \in Stores : G[f] = F[f] \/ G[f] = TornFile
  BY <1>1
<1>3. \A h \in Handlers : local'[h] = Idle
  BY DEF Crash
<1>4. Staged(Idle, F, o) /\ open' = o
  BY DEF SerialInv, Crash
<1> HIDE DEF F, G, o
<1>5. Staged(Idle, G, o)
  BY <1>2, <1>4, DamagedStaged
<1>6. \A h \in Handlers : At(h, "idle")'
  BY <1>3, NothingTyped DEF At
<1> QED BY <1>3, <1>4, <1>5, <1>6 DEF SerialInv, G, o

\* Every step moves the stores together.
LEMMA NextSerialInv == TypeInv /\ SerialInv /\ [Next]_vars => SerialInv'
<1> SUFFICES ASSUME TypeInv, SerialInv, [Next]_vars PROVE SerialInv'
  OBVIOUS
<1>1. CASE UNCHANGED vars
  BY <1>1 DEF vars, SerialInv, At
<1>2. CASE Crash
  BY <1>2, CrashSerial
<1>3. ASSUME NEW h \in Handlers, Step(h) PROVE SerialInv'
  BY <1>3, BeginSerial, LoadEarlySerial, LoadSerial, WorkSerial, OpenSerial, AnswerWrittenSerial,
     DecisionWrittenSerial, MessageWrittenSerial, LogWrittenSerial, AcknowledgeSerial, FailsSerial
  DEF Step
<1> QED BY <1>1, <1>2, <1>3 DEF Next

\* The inductive invariant: types, what is heeded, and what is staged.
THEOREM IInvHolds == Spec => []IInv
<1>1. Init => IInv
  BY InitTypeInv, InitHeedInv, InitSerialInv DEF IInv
<1>2. IInv /\ [Next]_vars => IInv'
  BY NextTypeInv, NextHeedInv, NextSerialInv DEF IInv
<1> QED BY <1>1, <1>2, PTL DEF Spec

\* While requests do not overlap, whatever failed: the answer, the decision and
\* the log entry that came last agree, for every question whose last answer was
\* acknowledged.
THEOREM RecordsStayTogether == Spec => []RecordsAgree
<1>1. SerialInv => RecordsAgree
  <2> SUFFICES ASSUME SerialInv, overlap = "none", \A f \in Stores : Readable(f)
               PROVE  \A id \in Questions \ open :
                        /\ Latest(files["answers"].list, id) = Latest(files["decisions"].list, id)
                        /\ Latest(files["decisions"].list, id) = Latest(files["log"].list, id)
    BY DEF RecordsAgree
  <2>1. \A f \in Stores : Legible(files[f])
    BY DEF Readable, Legible
  <2>2. Agree(Idle, files, open)
    BY <2>1 DEF SerialInv, Staged
  <2>3. \A f \in Stores : Coming(Idle, files, f) = files[f].list
    BY DEF Coming, Saving, Idle
  <2> QED BY <2>2, <2>3, KeptAre DEF Agree
<1> QED BY <1>1, IInvHolds, PTL DEF IInv

(* ------------- without overlap the log grows until it is damaged ------- *)

\* The one request that writes the log, if any, holds what the log will be.
LEMMA WriterHoldsLog ==
    ASSUME SerialInv, overlap = "none", NEW h \in Handlers, At(h, "write"), local[h].on = "log"
    PROVE  WritingLog = {h} /\ Log = local[h].list /\ files["log"].kind = "empty"
<1>1. ~At(h, "idle")
  BY DEF At
<1>2. \A g \in Handlers : At(g, "write") => g = h
  BY <1>1 DEF SerialInv, At
<1>3. WritingLog = {h}
  BY <1>2 DEF WritingLog
<1>4. (CHOOSE g \in WritingLog : TRUE) = h
  BY <1>3
<1> QED BY <1>1, <1>3, <1>4, Alone DEF Log, Staged, At

\* The log is one, and continues itself.
LEMMA LogTyped == TypeInv => Log \in Seq(Entry) /\ IsPrefix(Log, Log)
<1> SUFFICES ASSUME TypeInv PROVE Log \in Seq(Entry) /\ IsPrefix(Log, Log)
  OBVIOUS
<1>1. files["log"].list \in Seq(Entry)
  BY KeptAre DEF TypeInv, Filed
<1>2. \A g \in WritingLog : local[g].list \in Seq(Entry)
  BY KeptAre DEF TypeInv, Held, WritingLog, At
<1>3. WritingLog # {} => (CHOOSE g \in WritingLog : TRUE) \in WritingLog
  OBVIOUS
<1>4. Log \in Seq(Entry)
  BY <1>1, <1>2, <1>3 DEF Log
<1> HIDE DEF Log
<1> QED BY <1>4 DEF IsPrefix

\* A request that neither writes the log nor is about to leaves it alone.
LEMMA LogStill ==
    ASSUME TypeInv, NEW h \in Handlers, NEW r, Become(h, r), files'["log"] = files["log"],
           ~(At(h, "write") /\ local[h].on = "log"), ~(r.pc = "write" /\ r.on = "log")
    PROVE  IsPrefix(Log, Log')
<1>1. local'[h] = r /\ \A g \in Handlers : g # h => local'[g] = local[g]
  BY OthersStay DEF TypeInv
<1>2. WritingLog' = WritingLog /\ h \notin WritingLog
  BY <1>1 DEF WritingLog, At
<1>3. \A g \in WritingLog : local'[g] = local[g]
  BY <1>1, <1>2 DEF WritingLog
<1>4. WritingLog # {} => (CHOOSE g \in WritingLog : TRUE) \in WritingLog
  OBVIOUS
<1>5. Log' = Log
  BY <1>2, <1>3, <1>4 DEF Log
<1> QED BY <1>5, LogTyped

\* Once the log is written, or could not be, nobody writes it.
LEMMA WriterLeaves ==
    ASSUME TypeInv, SerialInv, overlap = "none", NEW h \in Handlers, At(h, "write"),
           NEW r, Become(h, r), r.pc # "write"
    PROVE  WritingLog' = {}
<1>1. local'[h] = r /\ \A g \in Handlers : g # h => local'[g] = local[g]
  BY OthersStay DEF TypeInv
<1>2. \A g \in Handlers : g # h => ~At(g, "write")
  BY DEF SerialInv, At
<1> QED BY <1>1, <1>2 DEF WritingLog, At

\* One lemma for each kind of step: the log continues, or is damaged.
LEMMA OpenLog ==
    ASSUME TypeInv, SerialInv, overlap = "none", NEW h \in Handlers, Open(h)
    PROVE  IsPrefix(Log, Log')
<1> DEFINE r == local[h]
           s == [r EXCEPT !.pc = "write"]
<1>1. /\ r \in Request /\ r.pc = "open" /\ r.on \in Stores /\ DOMAIN files = Stores
  BY RequestIs DEF Open, At, TypeInv
<1>2. s.pc = "write" /\ s.on = r.on /\ s.list = r.list
  BY <1>1 DEF Request
<1>3. Become(h, s)
  BY DEF Open
<1>4. CASE r.on # "log"
  <2>1. files'["log"] = files["log"]
    BY <1>1, <1>4 DEF Open, Stores
  <2> HIDE DEF s
  <2> QED BY <1>1, <1>2, <1>3, <1>4, <2>1, LogStill DEF At
<1>5. CASE r.on = "log"
  <2>1. local'[h] = s /\ \A g \in Handlers : g # h => local'[g] = local[g]
    BY <1>3, OthersStay DEF TypeInv
  <2>2. ~At(h, "idle") /\ ~At(h, "write")
    BY <1>1 DEF At
  <2>3. \A g \in Handlers : g # h => At(g, "idle")
    BY <2>2, Alone
  <2> HIDE DEF s
  <2>4. WritingLog = {} /\ WritingLog' = {h}
    BY <1>2, <1>5, <2>1, <2>2, <2>3 DEF WritingLog, At
  <2>5. (CHOOSE g \in WritingLog' : TRUE) = h
    BY <2>4
  <2>6. Log = files["log"].list /\ Log' = r.list
    BY <1>2, <2>1, <2>4, <2>5 DEF Log
  <2>7. IsPrefix(files["log"].list, r.list)
    BY <1>1, <1>5, <2>2, Alone DEF Staged
  <2> QED BY <2>6, <2>7
<1> QED BY <1>4, <1>5

\* A request that writes, alone: the log is what it wrote, or another store is.
LEMMA WrittenLog ==
    ASSUME TypeInv, SerialInv, overlap = "none", NEW h \in Handlers, At(h, "write"), WriteText(h),
           NEW r, Become(h, r), r.pc # "write"
    PROVE  IsPrefix(Log, Log')
<1>1. CASE local[h].on # "log"
  <2>1. files'["log"] = files["log"]
    BY <1>1, WriterIs DEF Stores
  <2> QED BY <1>1, <2>1, LogStill
<1>2. CASE local[h].on = "log"
  <2>1. Log = local[h].list
    BY <1>2, WriterHoldsLog
  <2>2. WritingLog' = {}
    BY WriterLeaves
  <2>3. files'[local[h].on] = Holding(local[h].list)
    BY WrittenAlone
  <2>4. Log' = Log
    BY <1>2, <2>1, <2>2, <2>3 DEF Log, Holding
  <2> QED BY <2>4, LogTyped
<1> QED BY <1>1, <1>2

LEMMA FailsLog ==
    ASSUME TypeInv, SerialInv, overlap = "none", NEW h \in Handlers, Fails(h)
    PROVE  LogDamaged' \/ IsPrefix(Log, Log')
<1>1. Become(h, Idle) /\ local[h].on \in Stores /\ DOMAIN files = Stores
  BY RequestIs DEF Fails, Reject, TypeInv
<1>2. PICK x \in IF At(h, "write") THEN {files[local[h].on], TornFile} ELSE {files[local[h].on]} :
        files' = [files EXCEPT ![local[h].on] = x]
  BY DEF Fails
<1>3. CASE At(h, "write") /\ local[h].on = "log"
  <2>1. WritingLog' = {}
    BY <1>1, <1>3, WriterLeaves, NothingTyped
  <2>2. files'["log"] \in {files["log"], TornFile}
    BY <1>1, <1>2, <1>3
  <2>3. ~Readable("log")'
    BY <1>3, <2>2, WriterHoldsLog DEF Readable, TornFile
  <2> QED BY <2>1, <2>3 DEF LogDamaged
<1>4. CASE ~(At(h, "write") /\ local[h].on = "log")
  <2>1. files'["log"] = files["log"]
    BY <1>1, <1>2, <1>4 DEF Stores
  <2> QED BY <1>1, <1>4, <2>1, LogStill, NothingTyped
<1> QED BY <1>3, <1>4

LEMMA CrashLog ==
    ASSUME TypeInv, SerialInv, overlap = "none", Crash
    PROVE  LogDamaged' \/ IsPrefix(Log, Log')
<1>1. PICK Lost \in SUBSET {local[h].on : h \in {g \in Handlers : At(g, "write")}} :
        files' = [f \in Stores |-> IF f \in Lost THEN TornFile ELSE files[f]]
  BY DEF Crash
<1>2. \A h \in Handlers : local'[h].pc = "idle"
  BY NothingTyped DEF Crash
<1>3. WritingLog' = {}
  BY <1>2 DEF WritingLog, At
<1>4. ASSUME NEW h \in Handlers, At(h, "write"), local[h].on = "log"
      PROVE  LogDamaged'
  <2>1. files'["log"] \in {files["log"], TornFile}
    BY <1>1 DEF Stores
  <2>2. ~Readable("log")'
    BY <1>4, <2>1, WriterHoldsLog DEF Readable, TornFile
  <2> QED BY <1>3, <2>2 DEF LogDamaged
<1>5. CASE WritingLog = {}
  <2>1. "log" \notin Lost
    BY <1>1, <1>5 DEF WritingLog
  <2>2. files'["log"] = files["log"]
    BY <1>1, <2>1 DEF Stores
  <2>3. Log' = Log
    BY <1>3, <1>5, <2>2 DEF Log
  <2> QED BY <2>3, LogTyped
<1> QED BY <1>4, <1>5 DEF WritingLog

\* The other steps change one request, and none of them opens a file.
Moves(h) == Become(h, local'[h]) /\ local'[h].pc # "write"

\* A request that comes to a place where it does not write is such a step.
LEMMA Moving ==
    ASSUME TypeInv, NEW h \in Handlers, NEW r, Become(h, r), r.pc # "write"
    PROVE  Moves(h)
BY OthersStay DEF TypeInv, Moves

\* All but opening a file and failing.
LEMMA Moved ==
    ASSUME TypeInv, NEW h \in Handlers,
           \/ Begin(h) \/ LoadEarly(h) \/ Load(h) \/ Work(h) \/ AnswerWritten(h) \/ DecisionWritten(h)
           \/ MessageWritten(h) \/ LogWritten(h) \/ Acknowledge(h)
    PROVE  Moves(h)
<1>1. local[h] \in Request
  BY RequestIs
<1>2. ASSUME NEW l, NEW f, Save(h, f, l) PROVE Moves(h)
  <2> DEFINE r == [local[h] EXCEPT !.pc = "open", !.on = f, !.list = l]
  <2>1. r.pc = "open"
    BY <1>1 DEF Request
  <2>2. Become(h, r)
    BY <1>2 DEF Save
  <2> HIDE DEF r
  <2> QED BY <2>1, <2>2, Moving
<1>3. ASSUME NEW f, Loads(h, f) PROVE Moves(h)
  <2> DEFINE r == [local[h] EXCEPT !.pc = "load", !.on = f]
  <2>1. r.pc = "load"
    BY <1>1 DEF Request
  <2>2. Become(h, r)
    BY <1>3 DEF Loads
  <2> HIDE DEF r
  <2> QED BY <2>1, <2>2, Moving
<1>4. Reject(h) => Moves(h)
  BY NothingTyped, Moving DEF Reject
<1>5. ASSUME NEW r, Become(h, r), r.pc \in {"load", "early", "work", "done"} PROVE Moves(h)
  BY <1>5, Moving
<1>6. ASSUME NEW l, Proceed(h, l) PROVE Moves(h)
  <2> DEFINE r == [local[h] EXCEPT !.pc = "work", !.on = "log", !.context = Context(l)]
  <2>1. r.pc = "work"
    BY <1>1 DEF Request
  <2>2. Become(h, r) \/ \E f, m : Save(h, f, m)
    BY <1>6 DEF Proceed
  <2> HIDE DEF r
  <2> QED BY <1>2, <1>5, <2>1, <2>2
<1>7. CASE Begin(h)
  <2>1. PICK k \in Posed : Become(h,
            IF k.op = "decide"
            THEN [Idle EXCEPT !.pc = "load", !.on = "decisions", !.ask = k, !.due = settled,
                    !.own = [NoDecision EXCEPT !.statement = k.statement]]
            ELSE [Idle EXCEPT !.pc = "early", !.ask = k, !.due = settled])
    BY <1>7 DEF Begin
  <2> DEFINE r == IF k.op = "decide"
            THEN [Idle EXCEPT !.pc = "load", !.on = "decisions", !.ask = k, !.due = settled,
                    !.own = [NoDecision EXCEPT !.statement = k.statement]]
            ELSE [Idle EXCEPT !.pc = "early", !.ask = k, !.due = settled]
  <2>2. r.pc \in {"load", "early"}
    BY NothingTyped DEF Request
  <2>3. Become(h, r)
    BY <2>1
  <2> HIDE DEF r
  <2> QED BY <1>5, <2>2, <2>3
<1>8. CASE LoadEarly(h)
  <2> DEFINE l == files["log"].list
             r == [local[h] EXCEPT !.pc = "load", !.on = "decisions", !.list = l]
             s == [local[h] EXCEPT !.pc = "work", !.list = l]
  <2>1. r.pc = "load" /\ s.pc = "work"
    BY <1>1 DEF Request
  <2>2. Reject(h) \/ Loads(h, "answers") \/ Become(h, r) \/ Become(h, s) \/ Save(h, "log", Append(l, MessageEntry))
    BY <1>8 DEF LoadEarly
  <2> HIDE DEF l, r, s
  <2> QED BY <1>2, <1>3, <1>4, <1>5, <2>1, <2>2
<1>9. CASE Load(h)
  <2>1. Reject(h) \/ \E l : Proceed(h, l)
    BY <1>9 DEF Load
  <2> QED BY <1>4, <1>6, <2>1
<1>10. CASE Work(h)
  BY <1>2, <1>10 DEF Work
<1>11. CASE AnswerWritten(h)
  <2>1. PICK d : Become(h, [local[h] EXCEPT !.pc = "load", !.on = "decisions", !.own = d])
    BY <1>11 DEF AnswerWritten
  <2> DEFINE r == [local[h] EXCEPT !.pc = "load", !.on = "decisions", !.own = d]
  <2>2. r.pc = "load"
    BY <1>1 DEF Request
  <2>3. Become(h, r)
    BY <2>1
  <2> HIDE DEF r
  <2> QED BY <1>5, <2>2, <2>3
<1>12. CASE DecisionWritten(h)
  BY <1>3, <1>12 DEF DecisionWritten
<1>13. CASE MessageWritten(h)
  BY <1>2, <1>13 DEF MessageWritten
<1>14. CASE LogWritten(h)
  <2> DEFINE r == [local[h] EXCEPT !.pc = "done"]
  <2>1. r.pc = "done"
    BY <1>1 DEF Request
  <2>2. Become(h, r)
    BY <1>14 DEF LogWritten
  <2> HIDE DEF r
  <2> QED BY <1>5, <2>1, <2>2
<1>15. CASE Acknowledge(h)
  BY <1>4, <1>15 DEF Acknowledge
<1> QED BY <1>7, <1>8, <1>9, <1>10, <1>11, <1>12, <1>13, <1>14, <1>15

\* Every step of a request continues the log or damages it.
LEMMA StepLog ==
    ASSUME TypeInv, SerialInv, overlap = "none", NEW h \in Handlers, Step(h)
    PROVE  LogDamaged' \/ IsPrefix(Log, Log')
<1>1. CASE Begin(h) \/ LoadEarly(h) \/ Load(h) \/ Work(h) \/ Acknowledge(h)
  <2>1. PICK r : Become(h, r) /\ r.pc # "write"
    BY <1>1, Moved DEF Moves
  <2>2. files' = files /\ ~At(h, "write")
    BY <1>1 DEF Begin, LoadEarly, Load, Work, Acknowledge, At
  <2> QED BY <2>1, <2>2, LogStill
<1>2. CASE AnswerWritten(h) \/ DecisionWritten(h) \/ MessageWritten(h) \/ LogWritten(h)
  <2>1. PICK r : Become(h, r) /\ r.pc # "write"
    BY <1>2, Moved DEF Moves
  <2>2. At(h, "write") /\ WriteText(h)
    BY <1>2 DEF AnswerWritten, DecisionWritten, MessageWritten, LogWritten
  <2> QED BY <2>1, <2>2, WrittenLog
<1> QED BY <1>1, <1>2, OpenLog, FailsLog DEF Step

\* While requests do not overlap, whatever fails or is cut short: nothing
\* leaves the log, until a write of it is cut short and it cannot be read.
THEOREM LogGrows == Spec => LogOnlyGrows
<1>1. TypeInv /\ SerialInv /\ [Next]_vars => [overlap = "none" => LogDamaged' \/ IsPrefix(Log, Log')]_vars
  BY StepLog, CrashLog DEF Next
<1> QED BY <1>1, IInvHolds, PTL DEF Spec, LogOnlyGrows, IInv
=============================================================================
