----------------------- MODULE ContextCompactionProofs -----------------------
(* Theorems about ContextCompaction, for every value of its constants.     *)
EXTENDS ContextCompaction, FiniteSetTheorems, WellFoundedInduction, TLAPS

-----------------------------------------------------------------------------
(* Least and greatest numbers, and smallest sets. *)

Less == {pair \in Nat \X Nat : pair[1] < pair[2]}

LEMMA LessIsWellFounded == IsWellFoundedOn(Less, Nat)
  BY NatLessThanWellFounded, Zenon DEF OpToRel, Less

LEMMA LeastNumber ==
    ASSUME NEW S, S \subseteq Nat, S # {}
    PROVE  \E m \in S : \A y \in S : m <= y
<1>1. \E x \in S : \A y \in S : ~(<<y, x>> \in Less)
  BY LessIsWellFounded, WFMin
<1>2. PICK x \in S : \A y \in S : ~(<<y, x>> \in Less)
  BY <1>1
<1>3. ASSUME NEW y \in S, y < x PROVE FALSE
  <2>1. <<y, x>> \in Nat \X Nat /\ <<y, x>>[1] = y /\ <<y, x>>[2] = x
    OBVIOUS
  <2>2. <<y, x>> \in Less
    BY <1>3, <2>1 DEF Less
  <2>. QED
    BY <1>2, <2>2
<1>. QED
  BY <1>2, <1>3

LEMMA MinOfNumbers ==
    ASSUME NEW S, S \subseteq Nat, S # {}
    PROVE  Min(S) \in S /\ Min(S) \in Nat /\ \A y \in S : Min(S) <= y
<1>1. \E x \in S : \A y \in S : x =< y
  BY LeastNumber
<1>2. Min(S) \in S /\ \A y \in S : Min(S) =< y
  BY <1>1 DEF Min
<1>. QED
  BY <1>2

LEMMA MaxOfNumbers ==
    ASSUME NEW S, S \subseteq Nat, S # {}, NEW n \in Nat, \A y \in S : y <= n
    PROVE  Max(S) \in S /\ Max(S) \in Nat /\ \A y \in S : y <= Max(S)
<1> DEFINE gaps == {n - y : y \in S}
<1>1. gaps \subseteq Nat /\ gaps # {}
  <2>1. \A y \in S : n - y \in Nat
    OBVIOUS
  <2>. QED
    BY <2>1
<1>2. PICK m \in gaps : \A y \in gaps : m <= y
  BY <1>1, LeastNumber
<1>3. PICK x \in S : m = n - x
  OBVIOUS
<1>4. ASSUME NEW y \in S PROVE x >= y
  <2>1. n - y \in gaps
    OBVIOUS
  <2>2. n - x <= n - y
    BY <1>2, <1>3, <2>1
  <2>3. x \in Nat /\ y \in Nat
    OBVIOUS
  <2>. QED
    BY <2>2, <2>3, SMT
<1>5. Max(S) \in S /\ \A y \in S : Max(S) >= y
  BY <1>4 DEF Max
<1>. QED
  BY <1>5

LEMMA SmallestSet ==
    ASSUME NEW B, B # {}, \A s \in B : IsFiniteSet(s)
    PROVE  \E s \in B : \A u \in B : Cardinality(s) <= Cardinality(u)
<1> DEFINE sizes == {Cardinality(s) : s \in B}
<1>1. sizes \subseteq Nat /\ sizes # {}
  BY FS_CardinalityType
<1>2. PICK m \in sizes : \A y \in sizes : m <= y
  BY <1>1, LeastNumber
<1>. QED
  BY <1>2

-----------------------------------------------------------------------------
(* The number of tokens of a set of rows, which MapThenSumSet defines by   *)
(* recursion, taking one row of the set after the other.                   *)

Pick(s) == CHOOSE x \in s : TRUE
Size(i) == messages[i].tokens
IsFold(S, h) ==
    h = [s \in SUBSET S |-> IF s = {} THEN 0 ELSE Size(Pick(s)) + h[s \ {Pick(s)}]]
FoldOf(S) == CHOOSE h : IsFold(S, h)

LEMMA TokensIsFold == ASSUME NEW S PROVE Tokens(S) = FoldOf(S)[S]
  BY DEF Tokens, MapThenSumSet, MapThenFoldSet, FoldOf, IsFold, Pick, Size

LEMMA PickIsIn == ASSUME NEW s, s # {} PROVE Pick(s) \in s
  BY DEF Pick

(* A set without one of its elements. *)
LEMMA OneLess ==
    ASSUME NEW s, IsFiniteSet(s), NEW x \in s
    PROVE  /\ IsFiniteSet(s \ {x}) /\ s \ {x} \subseteq s
           /\ Cardinality(s \ {x}) < Cardinality(s)
<1>1. IsFiniteSet(s \ {x}) /\ Cardinality(s \ {x}) = Cardinality(s) - 1
  BY FS_RemoveElement
<1>2. Cardinality(s) \in Nat
  BY FS_CardinalityType
<1>. QED
  BY <1>1, <1>2

LEMMA FoldUnique ==
    ASSUME NEW S, NEW T, IsFiniteSet(T), T \subseteq S, NEW g, NEW h, IsFold(S, g), IsFold(T, h)
    PROVE  \A s \in SUBSET T : g[s] = h[s]
<1> DEFINE bad == {s \in SUBSET T : g[s] # h[s]}
<1>1. SUFFICES ASSUME bad # {} PROVE FALSE
  OBVIOUS
<1>2. \A s \in bad : IsFiniteSet(s)
  BY FS_Subset
<1>3. PICK s \in bad : \A u \in bad : Cardinality(s) <= Cardinality(u)
  BY <1>1, <1>2, SmallestSet
<1>4. /\ g[s] = IF s = {} THEN 0 ELSE Size(Pick(s)) + g[s \ {Pick(s)}]
      /\ h[s] = IF s = {} THEN 0 ELSE Size(Pick(s)) + h[s \ {Pick(s)}]
  <2>1. s \in SUBSET S /\ s \in SUBSET T
    OBVIOUS
  <2>. QED
    BY <2>1 DEF IsFold
<1>5. CASE s = {}
  BY <1>4, <1>5
<1>6. CASE s # {}
  <2>1. s \ {Pick(s)} \in SUBSET T /\ Cardinality(s \ {Pick(s)}) < Cardinality(s)
        /\ IsFiniteSet(s \ {Pick(s)}) /\ IsFiniteSet(s)
    BY <1>2, <1>6, PickIsIn, OneLess
  <2>2. s \ {Pick(s)} \notin bad
    BY <1>3, <2>1, FS_CardinalityType
  <2>. QED
    BY <1>4, <1>6, <2>1, <2>2
<1>. QED
  BY <1>5, <1>6

(* A fold exists, and it is made of those of the smaller sets. *)
LEMMA FoldExists ==
    ASSUME NEW S, IsFiniteSet(S)
    PROVE  IsFold(S, FoldOf(S))
<1> DEFINE bad == {T \in SUBSET S : ~\E h : IsFold(T, h)}
<1>1. SUFFICES ASSUME bad # {} PROVE FALSE
  <2>1. SUFFICES \E h : IsFold(S, h)
    BY DEF FoldOf
  <2>. QED
    OBVIOUS
<1>2. \A T \in bad : IsFiniteSet(T)
  BY FS_Subset
<1>3. PICK T \in bad : \A U \in bad : Cardinality(T) <= Cardinality(U)
  BY <1>1, <1>2, SmallestSet
<1>4. ASSUME NEW U \in SUBSET T, U # T
      PROVE  IsFiniteSet(U) /\ IsFold(U, FoldOf(U))
  <2>1. IsFiniteSet(U) /\ Cardinality(U) < Cardinality(T)
    BY <1>2, <1>4, FS_Subset, FS_CardinalityType
  <2>2. U \notin bad /\ U \in SUBSET S
    BY <1>2, <1>3, <2>1, FS_CardinalityType
  <2>3. \E h : IsFold(U, h)
    BY <2>2
  <2>. QED
    BY <2>1, <2>3 DEF FoldOf
<1> DEFINE g == [s \in SUBSET T |-> IF s = {} THEN 0
                                    ELSE Size(Pick(s)) + FoldOf(s \ {Pick(s)})[s \ {Pick(s)}]]
<1>5. ASSUME NEW U \in SUBSET T, U # T
      PROVE  g[U] = FoldOf(U)[U]
  <2>1. FoldOf(U)[U] = IF U = {} THEN 0 ELSE Size(Pick(U)) + FoldOf(U)[U \ {Pick(U)}]
    <3>1. IsFold(U, FoldOf(U)) /\ U \in SUBSET U
      BY <1>4, <1>5
    <3>. QED
      BY <3>1 DEF IsFold
  <2>2. CASE U = {}
    BY <2>1, <2>2
  <2>3. CASE U # {}
    <3> DEFINE V == U \ {Pick(U)}
    <3>1. V \in SUBSET T /\ V # T /\ V \subseteq U /\ V \in SUBSET V
      BY <1>5
    <3>2. IsFold(U, FoldOf(U)) /\ IsFold(V, FoldOf(V)) /\ IsFiniteSet(V)
      BY <1>4, <1>5, <3>1
    <3>3. \A s \in SUBSET V : FoldOf(U)[s] = FoldOf(V)[s]
      <4> HIDE DEF V
      <4>. QED
        BY <3>1, <3>2, FoldUnique
    <3>. QED
      BY <2>1, <2>3, <3>1, <3>3
  <2>. QED
    BY <2>2, <2>3
<1>6. ASSUME NEW s \in SUBSET T, s # {}
      PROVE  g[s] = Size(Pick(s)) + g[s \ {Pick(s)}]
  <2>1. s \ {Pick(s)} \in SUBSET T /\ s \ {Pick(s)} # T
    BY <1>6, PickIsIn
  <2>. QED
    BY <1>5, <1>6, <2>1
<1>7. g = [s \in SUBSET T |-> IF s = {} THEN 0 ELSE Size(Pick(s)) + g[s \ {Pick(s)}]]
  <2> HIDE DEF g
  <2>1. g = [s \in SUBSET T |-> g[s]] /\ ({} \in SUBSET T => g[{}] = 0)
    BY DEF g
  <2>. QED
    BY <1>6, <2>1
<1>8. IsFold(T, g)
  BY <1>7 DEF IsFold
<1>. QED
  BY <1>8

LEMMA TokensOfPick ==
    ASSUME NEW S, IsFiniteSet(S)
    PROVE  /\ S = {} => Tokens(S) = 0
           /\ S # {} => Tokens(S) = Size(Pick(S)) + Tokens(S \ {Pick(S)})
<1>1. IsFold(S, FoldOf(S)) /\ S \in SUBSET S
  BY FoldExists
<1>2. FoldOf(S)[S] = IF S = {} THEN 0 ELSE Size(Pick(S)) + FoldOf(S)[S \ {Pick(S)}]
  BY <1>1 DEF IsFold
<1>3. ASSUME S # {} PROVE FoldOf(S)[S \ {Pick(S)}] = FoldOf(S \ {Pick(S)})[S \ {Pick(S)}]
  <2>1. IsFiniteSet(S \ {Pick(S)}) /\ S \ {Pick(S)} \subseteq S
    BY <1>3, PickIsIn, OneLess
  <2>. QED
    BY <1>1, <2>1, FoldExists, FoldUnique
<1>. QED
  BY <1>2, <1>3, TokensIsFold

LEMMA TokensType ==
    ASSUME NEW S, IsFiniteSet(S), \A i \in S : Size(i) \in Nat
    PROVE  Tokens(S) \in Nat
<1> DEFINE bad == {s \in SUBSET S : Tokens(s) \notin Nat}
<1>1. SUFFICES ASSUME bad # {} PROVE FALSE
  OBVIOUS
<1>2. \A s \in bad : IsFiniteSet(s)
  BY FS_Subset
<1>3. PICK s \in bad : \A u \in bad : Cardinality(s) <= Cardinality(u)
  BY <1>1, <1>2, SmallestSet
<1>4. s # {}
  <2>1. IsFiniteSet({}) /\ (s = {} => Tokens({}) \notin Nat)
    BY FS_EmptySet
  <2>2. Tokens({}) = 0
    BY <2>1, TokensOfPick
  <2>. QED
    BY <2>1, <2>2
<1>5. IsFiniteSet(s \ {Pick(s)}) /\ Cardinality(s \ {Pick(s)}) < Cardinality(s)
  BY <1>2, <1>4, PickIsIn, OneLess
<1>6. s \ {Pick(s)} \notin bad
  BY <1>2, <1>3, <1>5, FS_CardinalityType
<1>7. Tokens(s \ {Pick(s)}) \in Nat /\ Size(Pick(s)) \in Nat
  BY <1>4, <1>6, PickIsIn
<1>. QED
  BY <1>2, <1>4, <1>7, TokensOfPick

(* The order in which the rows are taken does not matter. *)
LEMMA TokensOfOne ==
    ASSUME NEW S, IsFiniteSet(S), \A i \in S : Size(i) \in Nat, NEW x \in S
    PROVE  Tokens(S) = Size(x) + Tokens(S \ {x})
<1> DEFINE bad == {s \in SUBSET S : \E y \in s : Tokens(s) # Size(y) + Tokens(s \ {y})}
<1>1. SUFFICES ASSUME bad # {} PROVE FALSE
  OBVIOUS
<1>2. \A s \in bad : IsFiniteSet(s)
  BY FS_Subset
<1>3. PICK s \in bad : \A u \in bad : Cardinality(s) <= Cardinality(u)
  BY <1>1, <1>2, SmallestSet
<1>4. PICK y \in s : Tokens(s) # Size(y) + Tokens(s \ {y})
  OBVIOUS
<1> DEFINE c == Pick(s)
<1>5. c \in s /\ Tokens(s) = Size(c) + Tokens(s \ {c})
  BY <1>2, PickIsIn, TokensOfPick
<1>6. c # y
  BY <1>4, <1>5
<1>7. ASSUME NEW a \in s, NEW b \in s, a # b
      PROVE  /\ Tokens(s \ {a}) = Size(b) + Tokens((s \ {a}) \ {b})
             /\ IsFiniteSet((s \ {a}) \ {b})
  <2>1. /\ IsFiniteSet(s \ {a}) /\ s \ {a} \in SUBSET S /\ b \in s \ {a}
        /\ Cardinality(s \ {a}) < Cardinality(s)
    BY <1>2, <1>7, OneLess
  <2>2. Cardinality(s \ {a}) \in Nat /\ Cardinality(s) \in Nat
    BY <1>2, <2>1, FS_CardinalityType
  <2>3. s \ {a} \notin bad
    BY <1>3, <2>1, <2>2
  <2>. QED
    BY <2>1, <2>3, OneLess
<1>8. Tokens(s \ {c}) = Size(y) + Tokens((s \ {c}) \ {y})
      /\ Tokens(s \ {y}) = Size(c) + Tokens((s \ {y}) \ {c})
      /\ IsFiniteSet((s \ {c}) \ {y})
  BY <1>5, <1>6, <1>7
<1>9. (s \ {c}) \ {y} = (s \ {y}) \ {c}
  OBVIOUS
<1>10. Tokens((s \ {c}) \ {y}) \in Nat
  BY <1>8, TokensType
<1>11. Size(c) \in Nat /\ Size(y) \in Nat
  BY <1>5
<1>. QED
  BY <1>4, <1>5, <1>8, <1>9, <1>10, <1>11

(* More rows have at least as many tokens. *)
LEMMA TokensGrow ==
    ASSUME NEW S, IsFiniteSet(S), \A i \in S : Size(i) \in Nat, NEW R, R \subseteq S
    PROVE  Tokens(R) <= Tokens(S) /\ Tokens(R) \in Nat /\ Tokens(S) \in Nat
<1> DEFINE bad == {s \in SUBSET S : R \subseteq s /\ ~(Tokens(R) <= Tokens(s))}
<1>0. Tokens(R) \in Nat /\ Tokens(S) \in Nat
  BY FS_Subset, TokensType
<1>1. SUFFICES ASSUME bad # {} PROVE FALSE
  BY <1>0
<1>2. \A s \in bad : IsFiniteSet(s)
  BY FS_Subset
<1>3. PICK s \in bad : \A u \in bad : Cardinality(s) <= Cardinality(u)
  BY <1>1, <1>2, SmallestSet
<1>4. PICK x \in s : x \notin R
  BY <1>0
<1>5. IsFiniteSet(s \ {x}) /\ Cardinality(s \ {x}) < Cardinality(s)
  BY <1>2, OneLess
<1>6. s \ {x} \notin bad
  BY <1>2, <1>3, <1>5, FS_CardinalityType
<1>7. Tokens(R) <= Tokens(s \ {x})
  BY <1>4, <1>6
<1>8. Tokens(s) = Size(x) + Tokens(s \ {x})
  BY <1>2, TokensOfOne
<1>9. Tokens(s \ {x}) \in Nat /\ Size(x) \in Nat
  BY <1>5, TokensType
<1>. QED
  BY <1>0, <1>7, <1>8, <1>9

-----------------------------------------------------------------------------
(* The rows of a session.  USE makes the shapes of messages known.         *)

USE DEF User, Assistant, Result, vars

Version == [version : Nat \cup {-1}, through : Nat, covers : SUBSET Nat, tokens : Nat,
            omits : SUBSET Nat]
Stage == {"none", "building", "compressing", "ready", "calling", "failed"}
Worker == [stage : Stage, passes : Nat, groups : SUBSET SUBSET Nat, base : Version]

Types ==
    /\ messages \in Seq(Message)
    /\ status \in [Task -> {"none", "created", "running", "waiting", "over"}]
    /\ compaction \in Version
    /\ worker \in [Task -> Worker]

IsHead(i) == messages[i].role # "tool"
Group(i) == {i} \cup Answers(i)
IsWhole(i) == \A call \in messages[i].calls : \E j \in Answers(i) : messages[j].calls = {call}
IsActive(t) == status[t] \in {"created", "running", "waiting"}
IsAt(t, stages) == status[t] = "running" /\ worker[t].stage \in stages

(* A task that was created has one goal. *)
GoalsAreOne ==
    /\ \A i \in Rows : /\ status[messages[i].task] # "none"
                       /\ messages[i].role = "user" => messages[i] = User(messages[i].task)
    /\ \A i, j \in Rows : /\ messages[i].role = "user" /\ messages[j].role = "user"
                          /\ messages[i].task = messages[j].task
                          => i = j
    /\ \A t \in Task : status[t] # "none" => \E i \in Rows : messages[i] = User(t)
    /\ \A t, u \in Task : IsActive(t) /\ IsActive(u) => t = u

(* The ids of the calls of a task are its own, and each is answered once.  *)
IdsAreUsedOnce ==
    /\ \A i, j \in Rows : /\ IsHead(i) /\ IsHead(j) /\ messages[i].task = messages[j].task
                          /\ messages[i].calls \cap messages[j].calls # {}
                          => i = j
    /\ \A i, j \in Rows : /\ ~IsHead(i) /\ ~IsHead(j) /\ messages[i].task = messages[j].task
                          /\ messages[i].calls = messages[j].calls
                          => i = j

(* A result comes after its call and after other results of its batch.     *)
IsResultOf(j, i) ==
    /\ i < j /\ messages[i].role = "assistant"
    /\ messages[i].task = messages[j].task /\ messages[i].scope = messages[j].scope
    /\ messages[j].calls \subseteq messages[i].calls
    /\ \A k \in Rows : i < k /\ k < j => ~IsHead(k)
ResultsFollow ==
    \A j \in Rows : ~IsHead(j) =>
        /\ \E call \in CallId : messages[j].calls = {call}
        /\ \E i \in Rows : IsResultOf(j, i)

(* A task goes on when its batch is answered.                              *)
Settled(t) == \A i \in Rows : messages[i].task = t /\ IsHead(i) => IsWhole(i)
IsLastBatch(t, i) ==
    /\ messages[i].role = "assistant" /\ messages[i].task = t
    /\ \A k \in Rows : k > i => /\ ~IsHead(k) /\ messages[k].task = t
                               /\ messages[k].calls \subseteq messages[i].calls
BatchesInOrder ==
    \A i, k \in Rows : /\ i < k /\ IsHead(i) /\ IsHead(k)
                       /\ messages[i].task = messages[k].task
                       => IsWhole(i)
BatchesAreAnswered ==
    \A t \in Task :
        /\ status[t] = "created" \/ IsAt(t, {"building", "compressing", "ready"}) => Settled(t)
        /\ status[t] = "waiting" \/ IsAt(t, {"calling"}) => \E i \in Rows : IsLastBatch(t, i)

RowsInv == /\ Types /\ GoalsAreOne /\ IdsAreUsedOnce /\ ResultsFollow
           /\ BatchesInOrder /\ BatchesAreAnswered

-----------------------------------------------------------------------------
(* The summary and the workers. *)

SummaryIsOfConversation ==
    /\ compaction.through <= Len(messages)
    /\ \A i \in compaction.covers :
          i \in Rows /\ i <= compaction.through /\ messages[i].scope = "conversation"
    /\ \A t \in Task : IsActive(t) => GoalOf(t) \notin compaction.covers

(* Behind the cutoff nothing of an active task is still open, and nothing  *)
(* that is whole is lost.                                                  *)
CutoffIsSafe ==
    \A i \in Rows : IsHead(i) /\ i <= compaction.through =>
        /\ status[messages[i].task] # "over" => IsWhole(i)
        /\ messages[i].scope = "conversation" /\ IsWhole(i) =>
              Group(i) \subseteq compaction.covers \/ Group(i) \subseteq compaction.omits

(* What a worker holds is what it would read now: nobody but the worker of *)
(* the active task writes.                                                 *)
WorkersAreCurrent ==
    \A t \in Task :
        /\ IsAt(t, {"compressing"}) =>
              /\ worker[t].base = compaction
              /\ worker[t].groups = CompactionBatch(t) /\ worker[t].groups # {}
        /\ IsAt(t, {"ready"}) => /\ worker[t].base = compaction
                                 /\ worker[t].groups = GroupsAfterCompaction(t)

ContextInv == RowsInv /\ SummaryIsOfConversation /\ CutoffIsSafe /\ WorkersAreCurrent

-----------------------------------------------------------------------------
(* What groups of rows look like. *)

LEMMA RowTypes ==
    ASSUME Types
    PROVE  /\ Len(messages) \in Nat /\ Rows = 1..Len(messages) /\ Rows \subseteq Nat
           /\ \A i \in Rows : /\ messages[i] \in Message
                              /\ messages[i].role \in {"user", "assistant", "tool"}
                              /\ messages[i].scope \in {"conversation", "task"}
                              /\ messages[i].task \in Task /\ messages[i].calls \subseteq CallId
                              /\ messages[i].tokens \in Nat
<1>1. messages \in Seq(Message)
  BY DEF Types
<1>2. Len(messages) \in Nat /\ \A i \in 1..Len(messages) : messages[i] \in Message
  BY <1>1
<1>3. Rows = 1..Len(messages)
  BY DEF Rows
<1>. QED
  BY <1>2, <1>3 DEF Message

LEMMA HeadOfAnswer ==
    ASSUME RowsInv, NEW i \in Rows, IsHead(i), NEW j \in Answers(i)
    PROVE  j \in Rows /\ ~IsHead(j) /\ IsResultOf(j, i)
<1>1. j \in Rows /\ ~IsHead(j) /\ messages[j].task = messages[i].task
      /\ messages[j].calls \subseteq messages[i].calls
  BY DEF Answers, IsHead
<1>2. PICK call \in CallId : messages[j].calls = {call}
  BY <1>1 DEF RowsInv, ResultsFollow
<1>3. PICK h \in Rows : IsResultOf(j, h)
  BY <1>1 DEF RowsInv, ResultsFollow
<1>4. IsHead(h) /\ messages[h].task = messages[i].task
      /\ call \in messages[h].calls \cap messages[i].calls
  BY <1>1, <1>2, <1>3 DEF IsResultOf, IsHead
<1>5. h = i
  BY <1>4 DEF RowsInv, IdsAreUsedOnce
<1>. QED
  BY <1>1, <1>3, <1>5

LEMMA GroupRows ==
    ASSUME RowsInv, NEW i \in Rows, IsHead(i)
    PROVE  /\ Group(i) \subseteq Rows /\ i \in Group(i)
           /\ \A j \in Group(i) : /\ i <= j /\ (j = i \/ ~IsHead(j))
                                  /\ messages[j].task = messages[i].task
                                  /\ messages[j].scope = messages[i].scope
           /\ Min(Group(i)) = i
           /\ \A k \in Rows : IsHead(k) /\ i < k => \A j \in Group(i) : j < k
<1>1. Rows \subseteq Nat
  BY RowTypes DEF RowsInv
<1>2. ASSUME NEW j \in Group(i), j # i
      PROVE  j \in Rows /\ ~IsHead(j) /\ IsResultOf(j, i)
  BY <1>2, HeadOfAnswer DEF Group
<1>3. Group(i) \subseteq Rows /\ i \in Group(i)
  BY <1>2 DEF Group
<1>4. ASSUME NEW j \in Group(i)
      PROVE  /\ i <= j /\ (j = i \/ ~IsHead(j))
             /\ messages[j].task = messages[i].task
             /\ messages[j].scope = messages[i].scope
  <2>1. CASE j = i
    BY <1>1, <2>1
  <2>2. CASE j # i
    <3>1. j \in Nat /\ i \in Nat /\ i < j
      BY <1>1, <1>2, <2>2 DEF IsResultOf
    <3>. QED
      BY <1>2, <2>2, <3>1 DEF IsResultOf
  <2>. QED
    BY <2>1, <2>2
<1>5. Min(Group(i)) = i
  <2>1. Min(Group(i)) \in Group(i) /\ Min(Group(i)) <= i /\ Min(Group(i)) \in Nat
    BY <1>1, <1>3, MinOfNumbers
  <2>. QED
    BY <1>1, <1>4, <2>1
<1>6. ASSUME NEW k \in Rows, IsHead(k), i < k, NEW j \in Group(i)
      PROVE  j < k
  <2>1. CASE j = i
    BY <1>6, <2>1
  <2>2. CASE j # i
    <3>1. j \in Nat /\ k \in Nat /\ ~IsHead(j) /\ ~(i < k /\ k < j)
      BY <1>1, <1>2, <1>6, <2>2 DEF IsResultOf
    <3>. QED
      BY <1>6, <3>1
  <2>. QED
    BY <2>1, <2>2
<1>. QED
  BY <1>3, <1>4, <1>5, <1>6

LEMMA GroupsDiffer ==
    ASSUME RowsInv, NEW i \in Rows, IsHead(i), NEW k \in Rows, IsHead(k), Group(i) = Group(k)
    PROVE  i = k
  BY GroupRows

LEMMA GroupMax ==
    ASSUME RowsInv, NEW i \in Rows, IsHead(i)
    PROVE  Max(Group(i)) \in Group(i) /\ Max(Group(i)) \in Nat /\ i <= Max(Group(i))
<1>1. Rows = 1..Len(messages) /\ Len(messages) \in Nat
  BY RowTypes DEF RowsInv
<1>2. Group(i) \subseteq Nat /\ i \in Group(i) /\ \A j \in Group(i) : j <= Len(messages)
  BY <1>1, GroupRows
<1>. QED
  BY <1>1, <1>2, MaxOfNumbers

(* A goal is a group by itself. *)
LEMMA GoalIsRow ==
    ASSUME RowsInv, NEW t \in Task, status[t] # "none"
    PROVE  /\ GoalOf(t) \in Rows /\ messages[GoalOf(t)] = User(t)
           /\ IsHead(GoalOf(t)) /\ IsWhole(GoalOf(t)) /\ Group(GoalOf(t)) = {GoalOf(t)}
           /\ messages[GoalOf(t)].scope = "conversation" /\ messages[GoalOf(t)].task = t
           /\ messages[GoalOf(t)].role = "user"
           /\ \A i \in Rows : messages[i] = User(t) => i = GoalOf(t)
<1> DEFINE g == GoalOf(t)
<1>1. \E i \in Rows : messages[i] = User(t)
  BY DEF RowsInv, GoalsAreOne
<1>2. g \in Rows /\ messages[g] = User(t)
  BY <1>1 DEF GoalOf
<1> HIDE DEF g
<1>3. messages[g].role = "user" /\ messages[g].calls = {} /\ messages[g].task = t
      /\ messages[g].scope = "conversation"
  BY <1>2
<1>4. IsHead(g) /\ IsWhole(g)
  BY <1>3 DEF IsHead, IsWhole
<1>5. Answers(g) = {}
  <2>1. ASSUME NEW j \in Answers(g) PROVE FALSE
    BY <1>2, <1>3, <1>4, HeadOfAnswer DEF IsResultOf
  <2>. QED
    BY <2>1
<1>6. \A i \in Rows : messages[i] = User(t) => i = g
  BY <1>2, <1>3 DEF RowsInv, GoalsAreOne
<1>. QED
  BY <1>2, <1>3, <1>4, <1>5, <1>6 DEF g, Group

-----------------------------------------------------------------------------
(* The groups of an input, which the model finds by the ids of their calls. *)

LEMMA ResultsOfCall ==
    ASSUME RowsInv, NEW rows \in SUBSET Rows, NEW i \in Rows, IsHead(i), Answers(i) \subseteq rows,
           NEW call \in messages[i].calls
    PROVE  Results(rows, i, call) = {j \in Answers(i) : messages[j].calls = {call}}
<1>1. ASSUME NEW j \in Results(rows, i, call)
      PROVE  j \in Answers(i) /\ messages[j].calls = {call}
  <2>1. j \in rows /\ ~IsHead(j) /\ call \in messages[j].calls
        /\ messages[j].task = messages[i].task
    BY DEF Results, SameKey, IsHead
  <2>2. messages[j].calls = {call}
    BY <2>1 DEF RowsInv, ResultsFollow
  <2>. QED
    BY <2>1, <2>2 DEF Answers, IsHead
<1>2. ASSUME NEW j \in Answers(i), messages[j].calls = {call}
      PROVE  j \in Results(rows, i, call)
  BY <1>2 DEF Answers, Results, SameKey
<1>. QED
  BY <1>1, <1>2

LEMMA AnsweredIsWhole ==
    ASSUME RowsInv, NEW rows \in SUBSET Rows, NEW i \in rows, IsHead(i), Answers(i) \subseteq rows
    PROVE  /\ IsAnswered(rows, i) <=> IsWhole(i)
           /\ GroupOf(rows, i) = Group(i)
<1>1. ASSUME NEW call \in messages[i].calls
      PROVE  CallMessages(rows, i, call) = {i}
  <2>1. ASSUME NEW j \in CallMessages(rows, i, call) PROVE j = i
    <3>1. j \in Rows /\ IsHead(j) /\ call \in messages[i].calls \cap messages[j].calls
          /\ messages[i].task = messages[j].task
      BY DEF CallMessages, SameKey, IsHead
    <3>. QED
      BY <3>1 DEF RowsInv, IdsAreUsedOnce
  <2>2. i \in CallMessages(rows, i, call)
    BY DEF CallMessages, SameKey, IsHead
  <2>. QED
    BY <2>1, <2>2
<1>2. ASSUME NEW call \in messages[i].calls, NEW j \in Answers(i), messages[j].calls = {call}
      PROVE  Results(rows, i, call) = {j} /\ j > i /\ j \in rows
  <2>1. j \in Rows /\ ~IsHead(j) /\ IsResultOf(j, i) /\ j \in rows
    BY HeadOfAnswer
  <2>2. ASSUME NEW k \in Answers(i), messages[k].calls = {call} PROVE k = j
    <3>1. k \in Rows /\ ~IsHead(k) /\ messages[k].task = messages[j].task
          /\ messages[k].calls = messages[j].calls
      BY <1>2, <2>1, <2>2 DEF Answers, IsHead, IsResultOf
    <3>. QED
      BY <2>1, <3>1 DEF RowsInv, IdsAreUsedOnce
  <2>3. Results(rows, i, call) = {k \in Answers(i) : messages[k].calls = {call}}
    BY ResultsOfCall
  <2>4. i \in Nat /\ j \in Nat
    BY <2>1, RowTypes DEF RowsInv
  <2>. QED
    BY <1>2, <2>1, <2>2, <2>3, <2>4 DEF IsResultOf
<1>3. IsWhole(i) => IsAnswered(rows, i)
  BY <1>1, <1>2 DEF IsWhole, IsAnswered
<1>4. IsAnswered(rows, i) => IsWhole(i)
  <2>1. ASSUME IsAnswered(rows, i), NEW call \in messages[i].calls
        PROVE  \E j \in Answers(i) : messages[j].calls = {call}
    <3>1. PICK j \in rows : Results(rows, i, call) = {j}
      BY <2>1 DEF IsAnswered
    <3>2. j \in {k \in Answers(i) : messages[k].calls = {call}}
      BY <3>1, ResultsOfCall
    <3>. QED
      BY <3>2
  <2>. QED
    BY <2>1 DEF IsWhole
<1>5. UNION {Results(rows, i, call) : call \in messages[i].calls} = Answers(i)
  <2>1. ASSUME NEW call \in messages[i].calls, NEW j \in Results(rows, i, call)
        PROVE  j \in Answers(i)
    <3>1. i \in Rows /\ Results(rows, i, call) = {k \in Answers(i) : messages[k].calls = {call}}
      BY ResultsOfCall
    <3>. QED
      BY <2>1, <3>1
  <2>2. ASSUME NEW j \in Answers(i)
        PROVE  \E call \in messages[i].calls : j \in Results(rows, i, call)
    <3>1. PICK call \in CallId : messages[j].calls = {call}
      BY HeadOfAnswer DEF RowsInv, ResultsFollow
    <3>2. call \in messages[i].calls
      BY <3>1 DEF Answers
    <3>. QED
      BY <3>1, <3>2, ResultsOfCall
  <2>. QED
    BY <2>1, <2>2
<1>. QED
  BY <1>3, <1>4, <1>5 DEF GroupOf, Group

LEMMA InputGroups ==
    ASSUME RowsInv, compaction.through \in Nat, NEW t \in Task, status[t] # "none"
    PROVE  ProjectMessageGroups(InputRows(t))
              = {Group(i) : i \in {j \in InputRows(t) : IsHead(j) /\ IsWhole(j)}}
<1> DEFINE rows == InputRows(t)
<1>1. rows \in SUBSET Rows
  BY DEF InputRows
<1>2. ASSUME NEW i \in rows, IsHead(i)
      PROVE  Answers(i) \subseteq rows
  <2>1. ASSUME NEW j \in Answers(i) PROVE j \in rows
    <3>1. j \in Rows /\ i \in Rows /\ IsResultOf(j, i)
      BY <1>1, <1>2, HeadOfAnswer
    <3>2. /\ i < j /\ messages[i].task = messages[j].task /\ messages[i].scope = messages[j].scope
          /\ messages[i].role = "assistant" /\ i \in Nat /\ j \in Nat
      BY <3>1, RowTypes DEF IsResultOf, RowsInv
    <3>3. i # GoalOf(t)
      BY <3>2, GoalIsRow
    <3>. QED
      BY <3>1, <3>2, <3>3 DEF InputRows
  <2>. QED
    BY <2>1
<1>3. ASSUME NEW i \in rows, IsHead(i)
      PROVE  /\ IsAnswered(rows, i) <=> IsWhole(i)
             /\ GroupOf(rows, i) = Group(i)
  BY <1>1, <1>2, <1>3, AnsweredIsWhole
<1> HIDE DEF rows
<1>4. ProjectMessageGroups(rows)
        = {GroupOf(rows, i) : i \in {j \in rows : IsHead(j) /\ IsAnswered(rows, j)}}
  BY DEF ProjectMessageGroups, IsHead
<1>5. {j \in rows : IsHead(j) /\ IsAnswered(rows, j)} = {j \in rows : IsHead(j) /\ IsWhole(j)}
  BY <1>3
<1>. QED
  BY <1>3, <1>4, <1>5 DEF rows

(* The groups of the conversation, and those of the input of a task. *)
Wholes == {i \in Rows : IsHead(i) /\ IsWhole(i)}
Conversation == {i \in Wholes : messages[i].scope = "conversation"}
NewHeads(t) == {i \in Conversation : i > compaction.through /\ i # GoalOf(t)}
InputHeads(t) ==
    {i \in Wholes : IF messages[i].scope = "conversation"
                    THEN i > compaction.through \/ i = GoalOf(t)
                    ELSE messages[i].task = t}

LEMMA ConversationOfHeads ==
    ASSUME RowsInv
    PROVE  ConversationGroups = {Group(i) : i \in Conversation}
<1>1. ASSUME NEW i \in Rows, IsHead(i)
      PROVE  messages[i].calls = UNION {messages[k].calls : k \in Answers(i)} <=> IsWhole(i)
  <2>1. ASSUME NEW k \in Answers(i)
        PROVE  messages[k].calls \subseteq messages[i].calls
               /\ \E call \in CallId : messages[k].calls = {call}
    BY <1>1, HeadOfAnswer DEF IsResultOf, RowsInv, ResultsFollow
  <2>2. IsWhole(i) => \A call \in messages[i].calls :
                         \E k \in Answers(i) : call \in messages[k].calls
    BY DEF IsWhole
  <2>3. (\A call \in messages[i].calls : \E k \in Answers(i) : call \in messages[k].calls)
           => IsWhole(i)
    BY <2>1 DEF IsWhole
  <2>4. UNION {messages[k].calls : k \in Answers(i)} \subseteq messages[i].calls
    BY <2>1
  <2>5. messages[i].calls \subseteq UNION {messages[k].calls : k \in Answers(i)}
          <=> \A call \in messages[i].calls : \E k \in Answers(i) : call \in messages[k].calls
    OBVIOUS
  <2>. QED
    BY <2>2, <2>3, <2>4, <2>5
<1>2. {j \in Rows : /\ messages[j].role # "tool" /\ messages[j].scope = "conversation"
                    /\ messages[j].calls = UNION {messages[k].calls : k \in Answers(j)}}
        = Conversation
  BY <1>1 DEF Conversation, Wholes, IsHead
<1>. QED
  BY <1>2 DEF ConversationGroups, Group

LEMMA IsConversationOfHead ==
    ASSUME RowsInv, NEW i \in Rows, IsHead(i)
    PROVE  IsConversation(Group(i)) <=> messages[i].scope = "conversation"
  BY GroupRows DEF IsConversation

LEMMA GoalInGroup ==
    ASSUME RowsInv, NEW t \in Task, status[t] # "none", NEW i \in Rows, IsHead(i)
    PROVE  GoalOf(t) \in Group(i) <=> i = GoalOf(t)
  BY GoalIsRow, GroupRows

LEMMA HeadsOfInput ==
    ASSUME RowsInv, compaction.through \in Nat, NEW t \in Task, status[t] # "none"
    PROVE  /\ Compactable(t) = {Group(i) : i \in NewHeads(t)}
           /\ GroupsAfterCompaction(t) = {Group(i) : i \in InputHeads(t)}
<1> DEFINE heads == {j \in InputRows(t) : IsHead(j) /\ IsWhole(j)}
<1>1. ProjectMessageGroups(InputRows(t)) = {Group(i) : i \in heads}
  BY InputGroups
<1>2. heads = InputHeads(t) /\ heads \subseteq Rows
  BY DEF InputRows, InputHeads, Wholes
<1>3. ASSUME NEW i \in heads
      PROVE  /\ IsConversation(Group(i)) <=> messages[i].scope = "conversation"
             /\ GoalOf(t) \in Group(i) <=> i = GoalOf(t)
             /\ i > compaction.through => Max(Group(i)) > compaction.through
  <2>1. i \in Rows /\ IsHead(i)
    BY <1>2
  <2>2. Max(Group(i)) \in Nat /\ i <= Max(Group(i)) /\ i \in Nat
    BY <2>1, GroupMax, RowTypes DEF RowsInv
  <2>. QED
    BY <2>1, <2>2, IsConversationOfHead, GoalInGroup
<1>4. ASSUME NEW i \in heads
      PROVE  (IsConversation(Group(i)) /\ Max(Group(i)) > compaction.through
                 /\ GoalOf(t) \notin Group(i)) <=> i \in NewHeads(t)
  BY <1>2, <1>3 DEF NewHeads, Conversation, Wholes, InputHeads
<1>5. NewHeads(t) \subseteq heads
  BY <1>2 DEF NewHeads, Conversation, InputHeads
<1>6. ASSUME NEW i \in heads
      PROVE  \/ ~IsConversation(Group(i)) \/ Max(Group(i)) > compaction.through
             \/ GoalOf(t) \in Group(i)
  BY <1>2, <1>3 DEF InputHeads
<1> HIDE DEF heads
<1>7. Compactable(t) = {Group(i) : i \in NewHeads(t)}
  BY <1>1, <1>4, <1>5 DEF Compactable
<1>8. GroupsAfterCompaction(t) = {Group(i) : i \in heads}
  BY <1>1, <1>6 DEF GroupsAfterCompaction
<1>. QED
  BY <1>2, <1>7, <1>8

(* Sets of groups are finite. *)
LEMMA UnionOfGroups ==
    ASSUME RowsInv, NEW groups, \A g \in groups : g \subseteq Rows
    PROVE  /\ UNION groups \subseteq Rows /\ IsFiniteSet(UNION groups)
           /\ \A i \in UNION groups : Size(i) \in Nat
<1>1. Len(messages) \in Nat /\ Rows = 1..Len(messages) /\ \A i \in Rows : messages[i].tokens \in Nat
  BY RowTypes DEF RowsInv
<1>2. IsFiniteSet(Rows)
  BY <1>1, FS_Interval
<1>3. UNION groups \in SUBSET Rows
  OBVIOUS
<1>. QED
  BY <1>1, <1>2, <1>3, FS_Subset DEF Size

LEMMA FewerTokens ==
    ASSUME RowsInv, NEW groups, \A g \in groups : g \subseteq Rows, NEW fewer, fewer \subseteq groups
    PROVE  /\ Tokens(UNION fewer) <= Tokens(UNION groups)
           /\ Tokens(UNION fewer) \in Nat /\ Tokens(UNION groups) \in Nat
<1>1. UNION fewer \subseteq UNION groups
  OBVIOUS
<1>2. IsFiniteSet(UNION groups) /\ \A i \in UNION groups : Size(i) \in Nat
  BY UnionOfGroups
<1>. QED
  BY <1>1, <1>2, TokensGrow

(* What a compaction summarises has no gap: with a group, it takes every   *)
(* older one that the summary does not cover yet.                          *)
LEMMA BatchHasNoGap ==
    ASSUME RowsInv, compaction \in Version, NEW t \in Task, status[t] # "none",
           NEW b \in NewHeads(t), Group(b) \in CompactionBatch(t),
           NEW i \in NewHeads(t), i < b
    PROVE  Group(i) \in CompactionBatch(t)
<1> DEFINE C == Compactable(t)
           old == OldConversationGroups(t)
<1>1. compaction.through \in Nat /\ compaction.tokens \in Nat
  BY DEF Version
<1>2. C = {Group(k) : k \in NewHeads(t)}
  BY <1>1, HeadsOfInput
<1>3. \A k \in NewHeads(t) : k \in Rows /\ IsHead(k) /\ k \in Nat
  BY RowTypes DEF NewHeads, Conversation, Wholes, RowsInv
<1>4. \A k \in NewHeads(t) : Group(k) \subseteq Rows /\ Min(Group(k)) = k
  BY <1>3, GroupRows
<1>5. old \subseteq C /\ \A g \in C : g \subseteq Rows
  BY <1>2, <1>4 DEF OldConversationGroups
<1>6. Group(b) \in old /\ ~IsKept(C, Group(b))
      /\ compaction.tokens + Tokens(UNION Until(old, Group(b))) <= InputTokenLimit
  BY DEF CompactionBatch, OldConversationGroups
<1>7. Group(i) \in C /\ Group(b) \in C /\ Group(i) # Group(b)
      /\ Min(Group(i)) = i /\ Min(Group(b)) = b /\ i \in Nat /\ b \in Nat
  BY <1>2, <1>3, <1>4
<1>8. \A g \in C : Min(g) \in Nat
  BY <1>2, <1>3, <1>4
<1> HIDE DEF C, old
<1>9. Group(i) \in old
  <2>1. Since(C, Group(b)) \subseteq Since(C, Group(i)) /\ Group(b) \in Since(C, Group(i))
    BY <1>7, <1>8 DEF Since
  <2>2. \A g \in Since(C, Group(i)) : g \subseteq Rows
    BY <1>5 DEF Since
  <2>3. /\ Tokens(UNION Since(C, Group(b))) <= Tokens(UNION Since(C, Group(i)))
        /\ Tokens(UNION Since(C, Group(b))) \in Nat /\ Tokens(UNION Since(C, Group(i))) \in Nat
    BY <2>1, <2>2, FewerTokens
  <2>4. ~(Tokens(UNION Since(C, Group(b))) <= KeepRecentInputTokens)
    BY <1>6 DEF IsKept
  <2>5. KeepRecentInputTokens \in Nat
    BY TokensAssumption
  <2>6. ~(Tokens(UNION Since(C, Group(i))) <= KeepRecentInputTokens)
    BY <2>3, <2>4, <2>5
  <2>7. ~IsKept(C, Group(i))
    BY <1>7, <2>1, <2>6 DEF IsKept
  <2>. QED
    BY <1>7, <2>7 DEF OldConversationGroups, C, old
<1>10. compaction.tokens + Tokens(UNION Until(old, Group(i))) <= InputTokenLimit
  <2>1. Until(old, Group(i)) \subseteq Until(old, Group(b))
    BY <1>5, <1>7, <1>8 DEF Until
  <2>2. \A g \in Until(old, Group(b)) : g \subseteq Rows
    BY <1>5 DEF Until
  <2>3. /\ Tokens(UNION Until(old, Group(i))) <= Tokens(UNION Until(old, Group(b)))
        /\ Tokens(UNION Until(old, Group(i))) \in Nat /\ Tokens(UNION Until(old, Group(b))) \in Nat
    BY <2>1, <2>2, FewerTokens
  <2>4. InputTokenLimit \in Nat
    BY TokensAssumption
  <2>. QED
    BY <1>1, <1>6, <2>3, <2>4
<1>. QED
  BY <1>9, <1>10 DEF CompactionBatch, old

-----------------------------------------------------------------------------
(* What the invariant says of an input, and of the messages behind the cutoff. *)

LEMMA NothingIsLost ==
    ASSUME ContextInv
    PROVE  NothingElseIsLost
<1> SUFFICES ASSUME NEW i \in Conversation, Min(Group(i)) <= compaction.through
             PROVE  Group(i) \subseteq compaction.covers \/ Group(i) \subseteq compaction.omits
  BY ConversationOfHeads DEF NothingElseIsLost, ContextInv
<1>1. i \in Rows /\ IsHead(i) /\ IsWhole(i) /\ messages[i].scope = "conversation"
  BY DEF Conversation, Wholes
<1>2. Min(Group(i)) = i
  BY <1>1, GroupRows DEF ContextInv
<1>. QED
  BY <1>1, <1>2 DEF ContextInv, CutoffIsSafe

LEMMA WholeIsAnswered ==
    ASSUME RowsInv, NEW i \in Rows, IsHead(i), IsWhole(i)
    PROVE  messages[i].calls = UNION {messages[j].calls : j \in Answers(i)}
<1>1. \A j \in Answers(i) : messages[j].calls \subseteq messages[i].calls
  BY HeadOfAnswer DEF IsResultOf
<1>2. \A call \in messages[i].calls : \E j \in Answers(i) : call \in messages[j].calls
  BY DEF IsWhole
<1>. QED
  BY <1>1, <1>2

LEMMA InputOfWorker ==
    ASSUME ContextInv, NEW t \in Task, IsAt(t, {"ready"})
    PROVE  InputIsWhole(t)
<1> DEFINE rows == UNION worker[t].groups
<1> USE DEF ContextInv
<1>1. /\ status[t] = "running" /\ worker[t].base = compaction
      /\ worker[t].groups = GroupsAfterCompaction(t)
  BY DEF WorkersAreCurrent, IsAt
<1>2. compaction.through \in Nat
  BY DEF RowsInv, Types, Version
<1>3. worker[t].groups = {Group(i) : i \in InputHeads(t)}
  BY <1>1, <1>2, HeadsOfInput
<1>4. \A i \in InputHeads(t) : i \in Rows /\ IsHead(i) /\ IsWhole(i) /\ i \in Nat
  BY RowTypes DEF InputHeads, Wholes, RowsInv
<1>5. /\ \A i \in InputHeads(t) : Group(i) \subseteq rows
      /\ \A j \in rows : \E i \in InputHeads(t) : j \in Group(i)
  BY <1>3
<1> HIDE DEF rows
<1>6. GoalOf(t) \in rows
  <2>1. GoalOf(t) \in InputHeads(t) /\ GoalOf(t) \in Group(GoalOf(t))
    BY <1>1, GoalIsRow DEF InputHeads, Wholes
  <2>. QED
    BY <1>5, <2>1
<1>7. rows \cap compaction.covers = {}
  <2>1. ASSUME NEW j \in rows, j \in compaction.covers PROVE FALSE
    <3>1. PICK i \in InputHeads(t) : j \in Group(i)
      BY <1>5
    <3>2. j \in Rows /\ i <= j /\ i \in Nat /\ j \in Nat /\ messages[j].scope = messages[i].scope
      BY <1>4, <3>1, GroupRows, RowTypes DEF RowsInv
    <3>3. j <= compaction.through /\ messages[j].scope = "conversation"
      BY <2>1 DEF SummaryIsOfConversation
    <3>4. i = GoalOf(t)
      <4>1. ~(i > compaction.through)
        BY <1>2, <3>2, <3>3
      <4>. QED
        BY <3>2, <3>3, <4>1 DEF InputHeads
    <3>5. j = GoalOf(t)
      <4>1. status[t] # "none"
        BY <1>1
      <4>2. Group(GoalOf(t)) = {GoalOf(t)}
        BY <4>1, GoalIsRow
      <4>. QED
        BY <3>1, <3>4, <4>2
    <3>. QED
      BY <1>1, <2>1, <3>5 DEF SummaryIsOfConversation, IsActive
  <2>. QED
    BY <2>1
<1>8. ASSUME NEW g \in ConversationGroups
      PROVE  g \subseteq rows \cup compaction.covers \/ g \subseteq compaction.omits
  <2>1. PICK i \in Conversation : g = Group(i)
    BY ConversationOfHeads
  <2>2. i \in Rows /\ IsHead(i) /\ IsWhole(i) /\ messages[i].scope = "conversation" /\ i \in Nat
    BY RowTypes DEF Conversation, Wholes, RowsInv
  <2>3. CASE i <= compaction.through
    BY <2>1, <2>2, <2>3 DEF CutoffIsSafe
  <2>4. CASE i > compaction.through
    <3>1. i \in InputHeads(t)
      BY <2>2, <2>4 DEF InputHeads, Wholes
    <3>. QED
      BY <1>5, <2>1, <3>1
  <2>. QED
    BY <1>2, <2>2, <2>3, <2>4
<1>9. ASSUME NEW j \in rows, messages[j].scope = "task" PROVE messages[j].task = t
  <2>1. PICK i \in InputHeads(t) : j \in Group(i)
    BY <1>5
  <2>2. messages[j].task = messages[i].task /\ messages[i].scope = "task"
    BY <1>4, <1>9, <2>1, GroupRows
  <2>. QED
    BY <2>2 DEF InputHeads
<1>10. ASSUME NEW i \in rows, messages[i].role = "assistant"
       PROVE  messages[i].calls = UNION {messages[j].calls : j \in rows \cap Answers(i)}
  <2>1. PICK h \in InputHeads(t) : i \in Group(h)
    BY <1>5
  <2>2. i = h
    BY <1>4, <1>10, <2>1, GroupRows DEF IsHead
  <2>3. rows \cap Answers(i) = Answers(i)
    BY <1>5, <2>2 DEF Group
  <2>. QED
    BY <1>4, <2>2, <2>3, WholeIsAnswered
<1>11. ASSUME NEW j \in rows, messages[j].role = "tool"
       PROVE  \E i \in rows : messages[i].role = "assistant" /\ j \in Answers(i)
  <2>1. PICK i \in InputHeads(t) : j \in Group(i)
    BY <1>5
  <2>2. i \in Rows /\ IsHead(i) /\ j \in Answers(i)
    BY <1>4, <1>11, <2>1 DEF Group, IsHead
  <2>3. messages[i].role = "assistant"
    BY <2>2, HeadOfAnswer DEF IsResultOf
  <2>4. i \in rows
    BY <1>5, <2>2 DEF Group
  <2>. QED
    BY <2>2, <2>3, <2>4
<1>. QED
  BY <1>1, <1>6, <1>7, <1>8, <1>9, <1>10, <1>11 DEF InputIsWhole, rows

-----------------------------------------------------------------------------
(* While messages and summary are as they were, so is what is read of them. *)

FoldWith(rows, S) ==
    CHOOSE h : h = [s \in SUBSET S |->
                      IF s = {} THEN 0 ELSE rows[Pick(s)].tokens + h[s \ {Pick(s)}]]

LEMMA TokensStay ==
    ASSUME UNCHANGED messages
    PROVE  \A S : Tokens(S)' = Tokens(S)
<1>1. ASSUME NEW S PROVE Tokens(S) = FoldWith(messages, S)[S]
  BY DEF Tokens, MapThenSumSet, MapThenFoldSet, FoldWith, Pick
<1>2. ASSUME NEW S PROVE Tokens(S)' = FoldWith(messages', S)[S]
  BY DEF Tokens, MapThenSumSet, MapThenFoldSet, FoldWith, Pick
<1>. QED
  BY <1>1, <1>2

LEMMA InputStays ==
    ASSUME UNCHANGED <<messages, compaction>>, NEW t \in Task
    PROVE  /\ GroupsAfterCompaction(t)' = GroupsAfterCompaction(t)
           /\ CompactionBatch(t)' = CompactionBatch(t)
<1>1. GroupsAfterCompaction(t)' = GroupsAfterCompaction(t)
  BY DEF GroupsAfterCompaction, ProjectMessageGroups, InputRows, GroupOf, IsAnswered,
         IsConversation, GoalOf, Results, CallMessages, SameKey, Rows
<1>2. Compactable(t)' = Compactable(t)
  BY DEF Compactable, ProjectMessageGroups, InputRows, GroupOf, IsAnswered,
         IsConversation, GoalOf, Results, CallMessages, SameKey, Rows
<1>3. OldConversationGroups(t)' = OldConversationGroups(t)
  BY <1>2, TokensStay DEF OldConversationGroups, IsKept, Since
<1>4. CompactionBatch(t)' = CompactionBatch(t)
  BY <1>3, TokensStay DEF CompactionBatch, Until
<1>. QED
  BY <1>1, <1>4

LEMMA RowsStay ==
    ASSUME UNCHANGED messages
    PROVE  /\ Rows' = Rows
           /\ \A i : /\ IsHead(i)' = IsHead(i) /\ Group(i)' = Group(i)
                     /\ Answers(i)' = Answers(i) /\ IsWhole(i)' = IsWhole(i)
           /\ \A i, j : IsResultOf(j, i)' = IsResultOf(j, i)
           /\ \A t : GoalOf(t)' = GoalOf(t) /\ Settled(t)' = Settled(t)
           /\ \A t, i : IsLastBatch(t, i)' = IsLastBatch(t, i)
  BY DEF Rows, IsHead, Group, Answers, IsWhole, IsResultOf, GoalOf, Settled, IsLastBatch

(* A step that writes no message. *)
StatusMoves ==
    \A t \in Task : /\ status'[t] = "none" <=> status[t] = "none"
                    /\ status[t] = "over" => status'[t] = "over"
WorkMoves ==
    \A t \in Task :
        /\ (status[t] = "created" \/ IsAt(t, {"building", "compressing", "ready"}))'
              => status[t] = "created" \/ IsAt(t, {"building", "compressing", "ready"})
        /\ (status[t] = "waiting" \/ IsAt(t, {"calling"}))'
              => status[t] = "waiting" \/ IsAt(t, {"calling"})

LEMMA QuietRows ==
    ASSUME RowsInv, Types', UNCHANGED messages, StatusMoves, WorkMoves
    PROVE  RowsInv'
<1> USE DEF RowsInv
<1>0. \A i \in Rows : messages[i].task \in Task
  BY RowTypes
<1>1. \A t \in Task : IsActive(t)' => IsActive(t)
  BY DEF StatusMoves, IsActive, Types
<1>2. GoalsAreOne'
  BY <1>0, <1>1, RowsStay DEF GoalsAreOne, StatusMoves
<1>3. IdsAreUsedOnce' /\ ResultsFollow' /\ BatchesInOrder'
  BY RowsStay DEF IdsAreUsedOnce, ResultsFollow, BatchesInOrder
<1>4. BatchesAreAnswered'
  BY RowsStay DEF BatchesAreAnswered, WorkMoves
<1>. QED
  BY <1>2, <1>3, <1>4

LEMMA QuietSummary ==
    ASSUME ContextInv, Types', UNCHANGED <<messages, compaction>>, StatusMoves
    PROVE  SummaryIsOfConversation' /\ CutoffIsSafe'
<1> USE DEF ContextInv
<1>0. \A i \in Rows : messages[i].task \in Task
  BY RowTypes DEF RowsInv
<1>1. \A t \in Task : IsActive(t)' => IsActive(t)
  BY DEF StatusMoves, IsActive, RowsInv, Types
<1>2. SummaryIsOfConversation'
  BY <1>1, RowsStay DEF SummaryIsOfConversation
<1>3. CutoffIsSafe'
  BY <1>0, RowsStay DEF CutoffIsSafe, StatusMoves
<1>. QED
  BY <1>2, <1>3

-----------------------------------------------------------------------------
(* A message is added: the rows before it stay, and what is whole stays so. *)

LEMMA RowsGrow ==
    ASSUME RowsInv, NEW m \in Message, Add(m), NEW n \in Nat, n = Len(messages) + 1
    PROVE  /\ messages' \in Seq(Message) /\ Len(messages)' = n
           /\ Rows' = Rows \cup {n} /\ n \notin Rows
           /\ \A i \in Rows : /\ i < n /\ i \in Nat /\ messages'[i] = messages[i]
                              /\ IsHead(i)' <=> IsHead(i)
           /\ messages'[n] = m /\ (IsHead(n)' <=> m.role # "tool")
<1>1. messages \in Seq(Message) /\ Len(messages) \in Nat
  BY DEF RowsInv, Types
<1>2. /\ messages' \in Seq(Message) /\ Len(messages') = n /\ messages'[n] = m
      /\ \A i \in 1..Len(messages) : messages'[i] = messages[i]
  BY <1>1 DEF Add
<1>3. Rows = 1..Len(messages) /\ Rows' = 1..n
  BY <1>2 DEF Rows
<1>4. Rows' = Rows \cup {n} /\ n \notin Rows /\ \A i \in Rows : i < n /\ i \in Nat
  BY <1>1, <1>3
<1>. QED
  BY <1>2, <1>3, <1>4 DEF IsHead

LEMMA AnswersGrow ==
    ASSUME RowsInv, NEW m \in Message, Add(m), NEW n \in Nat, n = Len(messages) + 1,
           NEW i \in Rows
    PROVE  /\ Answers(i) \subseteq Answers(i)' /\ Answers(i)' \subseteq Answers(i) \cup {n}
           /\ n \in Answers(i)' <=> /\ m.role = "tool" /\ m.task = messages[i].task
                                    /\ m.calls \subseteq messages[i].calls
           /\ IsWhole(i) => IsWhole(i)'
<1>1. /\ Rows' = Rows \cup {n} /\ n \notin Rows /\ messages'[n] = m
      /\ \A j \in Rows : messages'[j] = messages[j]
  BY RowsGrow
<1>2. Answers(i) \subseteq Answers(i)' /\ Answers(i)' \subseteq Answers(i) \cup {n}
  BY <1>1 DEF Answers
<1>3. n \in Answers(i)' <=> /\ m.role = "tool" /\ m.task = messages[i].task
                            /\ m.calls \subseteq messages[i].calls
  BY <1>1 DEF Answers
<1>4. \A j \in Answers(i) : messages'[j] = messages[j]
  BY <1>1 DEF Answers
<1>5. IsWhole(i) => IsWhole(i)'
  BY <1>1, <1>2, <1>4 DEF IsWhole
<1>. QED
  BY <1>2, <1>3, <1>5

(* No result is added to a group that is whole. *)
LEMMA GroupStays ==
    ASSUME RowsInv, NEW m \in Message, Add(m), NEW n \in Nat, n = Len(messages) + 1,
           IdsAreUsedOnce', ResultsFollow', NEW i \in Rows,
           IsWhole(i) \/ messages[i].task # m.task
    PROVE  Group(i)' = Group(i)
<1>1. /\ Rows' = Rows \cup {n} /\ n \notin Rows /\ messages'[n] = m
      /\ \A j \in Rows : messages'[j] = messages[j] /\ (IsHead(j)' <=> IsHead(j))
      /\ IsHead(n)' <=> m.role # "tool"
  BY RowsGrow
<1>2. ASSUME n \in Answers(i)' PROVE FALSE
  <2>1. m.role = "tool" /\ m.task = messages[i].task /\ m.calls \subseteq messages[i].calls
    BY <1>2, AnswersGrow
  <2>2. ~IsHead(n)' /\ n \in Rows'
    BY <1>1, <2>1
  <2>3. PICK call \in CallId : m.calls = {call}
    BY <1>1, <2>2 DEF ResultsFollow
  <2>4. PICK j \in Answers(i) : messages[j].calls = {call}
    BY <2>1, <2>3 DEF IsWhole
  <2>5. j \in Rows /\ ~IsHead(j) /\ messages[j].task = m.task
    BY <2>1 DEF Answers, IsHead
  <2>6. j \in Rows' /\ ~IsHead(j)' /\ messages'[j].task = messages'[n].task
        /\ messages'[j].calls = messages'[n].calls
    BY <1>1, <2>3, <2>4, <2>5
  <2>7. j = n
    BY <2>2, <2>6 DEF IdsAreUsedOnce
  <2>. QED
    BY <1>1, <2>5, <2>7
<1>3. Answers(i) \subseteq Answers(i)' /\ Answers(i)' \subseteq Answers(i) \cup {n}
  BY AnswersGrow
<1>4. Answers(i)' = Answers(i)
  BY <1>2, <1>3
<1>. QED
  BY <1>4 DEF Group

LEMMA GoalsGrow ==
    ASSUME RowsInv, NEW m \in Message, Add(m), Types', StatusMoves,
           m.role # "user", status[m.task] # "none"
    PROVE  GoalsAreOne'
<1>1. PICK n \in Nat : n = Len(messages) + 1
  BY RowTypes DEF RowsInv
<1>2. /\ Rows' = Rows \cup {n} /\ messages'[n] = m
      /\ \A i \in Rows : messages'[i] = messages[i]
  BY <1>1, RowsGrow
<1>3. \A i \in Rows : messages[i].task \in Task
  BY RowTypes DEF RowsInv
<1>4. m.task \in Task
  BY DEF Message
<1>5. \A u \in Task : IsActive(u)' => IsActive(u)
  BY DEF RowsInv, Types, StatusMoves, IsActive
<1>6. \A i \in Rows' : /\ status'[messages'[i].task] # "none"
                       /\ messages'[i].role = "user" =>
                             i \in Rows /\ messages'[i] = User(messages'[i].task)
  BY <1>2, <1>3, <1>4 DEF RowsInv, GoalsAreOne, StatusMoves
<1>7. \A i, j \in Rows' : /\ messages'[i].role = "user" /\ messages'[j].role = "user"
                          /\ messages'[i].task = messages'[j].task
                          => i = j
  BY <1>2, <1>6 DEF RowsInv, GoalsAreOne
<1>8. ASSUME NEW u \in Task, status'[u] # "none"
      PROVE  \E i \in Rows' : messages'[i] = User(u)
  <2>1. status[u] # "none"
    BY <1>8 DEF StatusMoves
  <2>2. PICK i \in Rows : messages[i] = User(u)
    BY <2>1 DEF RowsInv, GoalsAreOne
  <2>3. i \in Rows' /\ messages'[i] = messages[i]
    BY <1>2
  <2>. QED
    BY <2>2, <2>3
<1>9. \A u, v \in Task : IsActive(u)' /\ IsActive(v)' => u = v
  BY <1>5 DEF RowsInv, GoalsAreOne
<1>. QED
  BY <1>6, <1>7, <1>8, <1>9 DEF GoalsAreOne

(* A text or a batch of calls, by a task whose batches are answered. *)
LEMMA HeadGrows ==
    ASSUME RowsInv, NEW m \in Message, Add(m), m.role # "tool", Settled(m.task),
           m.calls \cap UsedCalls(m.task) = {}
    PROVE  IdsAreUsedOnce' /\ ResultsFollow' /\ BatchesInOrder'
<1>1. PICK n \in Nat : n = Len(messages) + 1
  BY RowTypes DEF RowsInv
<1>2. /\ Rows' = Rows \cup {n} /\ n \notin Rows /\ messages'[n] = m
      /\ IsHead(n)'
      /\ \A i \in Rows : /\ messages'[i] = messages[i] /\ (IsHead(i)' <=> IsHead(i))
                         /\ i < n /\ i \in Nat
  BY <1>1, RowsGrow
<1>3. \A i \in Rows : messages[i].task = m.task => messages[i].calls \cap m.calls = {}
  BY DEF UsedCalls
<1>4. \A i, j \in Rows' : /\ IsHead(i)' /\ IsHead(j)' /\ messages'[i].task = messages'[j].task
                          /\ messages'[i].calls \cap messages'[j].calls # {}
                          => i = j
  BY <1>2, <1>3 DEF RowsInv, IdsAreUsedOnce
<1>5. \A i, j \in Rows' : /\ ~IsHead(i)' /\ ~IsHead(j)' /\ messages'[i].task = messages'[j].task
                          /\ messages'[i].calls = messages'[j].calls
                          => i = j
  BY <1>2 DEF RowsInv, IdsAreUsedOnce
<1>6. ASSUME NEW j \in Rows', ~IsHead(j)'
      PROVE  /\ \E call \in CallId : messages'[j].calls = {call}
             /\ \E i \in Rows' : IsResultOf(j, i)'
  <2>1. j \in Rows /\ ~IsHead(j) /\ messages'[j] = messages[j] /\ j < n /\ j \in Nat
    BY <1>2, <1>6
  <2>2. PICK i \in Rows : IsResultOf(j, i)
    BY <2>1 DEF RowsInv, ResultsFollow
  <2>3. IsResultOf(j, i)'
    BY <1>2, <2>1, <2>2 DEF IsResultOf
  <2>. QED
    BY <1>2, <2>1, <2>2, <2>3 DEF RowsInv, ResultsFollow
<1>7. ASSUME NEW i \in Rows', NEW k \in Rows', i < k, IsHead(i)', IsHead(k)',
             messages'[i].task = messages'[k].task
      PROVE  IsWhole(i)'
  <2>1. i \in Rows
    BY <1>2, <1>7
  <2>2. IsWhole(i)
    BY <1>2, <1>7, <2>1 DEF RowsInv, BatchesInOrder, Settled
  <2>. QED
    BY <1>1, <2>1, <2>2, AnswersGrow
<1>. QED
  BY <1>4, <1>5, <1>6, <1>7 DEF IdsAreUsedOnce, ResultsFollow, BatchesInOrder

(* A result, for a call of the last batch that has none yet. *)
LEMMA ResultGrows ==
    ASSUME RowsInv, NEW m \in Message, Add(m), m.role = "tool",
           NEW i \in Rows, IsLastBatch(m.task, i), m.scope = messages[i].scope,
           NEW call \in messages[i].calls, m.calls = {call},
           \A j \in Answers(i) : messages[j].calls # {call}
    PROVE  /\ IdsAreUsedOnce' /\ ResultsFollow' /\ BatchesInOrder'
           /\ i \in Rows' /\ IsLastBatch(m.task, i)'
           /\ (\A c \in messages[i].calls \ {call} : \E j \in Answers(i) : messages[j].calls = {c})
                 => Settled(m.task)'
<1>1. PICK n \in Nat : n = Len(messages) + 1
  BY RowTypes DEF RowsInv
<1>2. /\ Rows' = Rows \cup {n} /\ n \notin Rows /\ messages'[n] = m
      /\ ~IsHead(n)'
      /\ \A k \in Rows : /\ messages'[k] = messages[k] /\ (IsHead(k)' <=> IsHead(k))
                         /\ k < n /\ k \in Nat
  BY <1>1, RowsGrow
<1>3. /\ IsHead(i) /\ messages[i].task = m.task /\ messages[i].role = "assistant"
      /\ \A k \in Rows : k > i => ~IsHead(k) /\ messages[k].task = m.task
                                  /\ messages[k].calls \subseteq messages[i].calls
  BY DEF IsLastBatch, IsHead
<1>4. ASSUME NEW j \in Rows, ~IsHead(j), messages[j].task = m.task
      PROVE  messages[j].calls # {call}
  <2>1. SUFFICES ASSUME messages[j].calls = {call} PROVE FALSE
    OBVIOUS
  <2>2. PICK h \in Rows : IsResultOf(j, h)
    BY <1>4 DEF RowsInv, ResultsFollow
  <2>3. IsHead(h) /\ messages[h].task = m.task /\ call \in messages[h].calls
    BY <1>4, <2>1, <2>2 DEF IsResultOf, IsHead
  <2>4. messages[h].calls \cap messages[i].calls # {}
    BY <2>3
  <2>5. h = i
    BY <1>3, <2>3, <2>4 DEF RowsInv, IdsAreUsedOnce
  <2>6. j \in Answers(i)
    BY <1>4, <2>2, <2>5 DEF Answers, IsHead, IsResultOf
  <2>. QED
    BY <2>1, <2>6
<1>5. IdsAreUsedOnce'
  <2>1. \A h, k \in Rows' : /\ IsHead(h)' /\ IsHead(k)' /\ messages'[h].task = messages'[k].task
                            /\ messages'[h].calls \cap messages'[k].calls # {}
                            => h = k
    BY <1>2 DEF RowsInv, IdsAreUsedOnce
  <2>2. \A h, k \in Rows' : /\ ~IsHead(h)' /\ ~IsHead(k)' /\ messages'[h].task = messages'[k].task
                            /\ messages'[h].calls = messages'[k].calls
                            => h = k
    BY <1>2, <1>4 DEF RowsInv, IdsAreUsedOnce
  <2>. QED
    BY <2>1, <2>2 DEF IdsAreUsedOnce
<1>6. ASSUME NEW j \in Rows', ~IsHead(j)'
      PROVE  /\ \E c \in CallId : messages'[j].calls = {c}
             /\ \E h \in Rows' : IsResultOf(j, h)'
  <2>1. CASE j = n
    <3>1. IsResultOf(n, i)'
      BY <1>2, <1>3 DEF IsResultOf
    <3>2. call \in CallId
      BY RowTypes DEF RowsInv
    <3>. QED
      BY <1>2, <2>1, <3>1, <3>2
  <2>2. CASE j # n
    <3>1. j \in Rows /\ ~IsHead(j) /\ messages'[j] = messages[j] /\ j < n /\ j \in Nat
      BY <1>2, <1>6, <2>2
    <3>2. PICK h \in Rows : IsResultOf(j, h)
      BY <3>1 DEF RowsInv, ResultsFollow
    <3>3. IsResultOf(j, h)'
      BY <1>2, <3>1, <3>2 DEF IsResultOf
    <3>. QED
      BY <1>2, <3>1, <3>2, <3>3 DEF RowsInv, ResultsFollow
  <2>. QED
    BY <2>1, <2>2
<1>7. ASSUME NEW h \in Rows', NEW k \in Rows', h < k, IsHead(h)', IsHead(k)',
             messages'[h].task = messages'[k].task
      PROVE  IsWhole(h)'
  <2>1. h \in Rows /\ k \in Rows
    BY <1>2, <1>7
  <2>2. IsWhole(h)
    BY <1>2, <1>7, <2>1 DEF RowsInv, BatchesInOrder
  <2>. QED
    BY <1>1, <2>1, <2>2, AnswersGrow
<1>8. i \in Rows' /\ IsLastBatch(m.task, i)'
  <2>1. messages'[i].role = "assistant" /\ messages'[i].task = m.task
    BY <1>2, <1>3
  <2>2. \A k \in Rows' : k > i => /\ ~IsHead(k)' /\ messages'[k].task = m.task
                                  /\ messages'[k].calls \subseteq messages'[i].calls
    BY <1>2, <1>3
  <2>. QED
    BY <1>2, <2>1, <2>2 DEF IsLastBatch
<1>9. ASSUME \A c \in messages[i].calls \ {call} : \E j \in Answers(i) : messages[j].calls = {c},
             NEW h \in Rows', messages'[h].task = m.task, IsHead(h)'
      PROVE  IsWhole(h)'
  <2>1. h \in Rows /\ IsHead(h) /\ messages[h].task = m.task
    BY <1>2, <1>9
  <2>2. CASE h = i
    <3>1. n \in Answers(i)' /\ Answers(i) \subseteq Answers(i)'
      BY <1>1, <1>3, AnswersGrow
    <3>2. \A j \in Answers(i) : messages'[j] = messages[j]
      BY <1>2 DEF Answers
    <3>3. \A c \in messages'[i].calls : \E j \in Answers(i)' : messages'[j].calls = {c}
      BY <1>2, <1>9, <3>1, <3>2
    <3>. QED
      BY <2>2, <3>3 DEF IsWhole
  <2>3. CASE h # i
    <3>1. h < i
      BY <1>2, <1>3, <2>1, <2>3
    <3>2. IsWhole(h)
      BY <1>3, <2>1, <3>1 DEF RowsInv, BatchesInOrder
    <3>. QED
      BY <1>1, <2>1, <3>2, AnswersGrow
  <2>. QED
    BY <2>2, <2>3
<1>. QED
  BY <1>5, <1>6, <1>7, <1>8, <1>9 DEF ResultsFollow, BatchesInOrder, Settled

(* The batch that is being answered, and its calls without a result. *)
LEMMA NewestIsLast ==
    ASSUME RowsInv, NEW t \in Task, NEW i \in Rows, IsLastBatch(t, i)
    PROVE  /\ NewestBatch(t) = i
           /\ OpenCalls(t) = {call \in messages[i].calls :
                                 \A j \in Answers(i) : messages[j].calls # {call}}
<1> DEFINE S == {k \in Rows : messages[k].task = t /\ messages[k].role = "assistant"}
<1>1. Rows \subseteq Nat /\ Len(messages) \in Nat /\ \A k \in Rows : k <= Len(messages)
  BY RowTypes DEF RowsInv
<1>2. i \in S /\ S \subseteq Rows
  BY DEF IsLastBatch
<1>3. \A k \in S : k <= i
  BY <1>1 DEF IsLastBatch, IsHead
<1>4. NewestBatch(t) = Max(S)
  BY DEF NewestBatch
<1> HIDE DEF S
<1>5. Max(S) \in S /\ i <= Max(S) /\ Max(S) \in Nat
  BY <1>1, <1>2, MaxOfNumbers
<1>6. NewestBatch(t) = i
  BY <1>1, <1>3, <1>4, <1>5
<1>7. IsHead(i) /\ Answers(i) \subseteq Rows
  BY DEF IsLastBatch, IsHead, Answers
<1>8. \A call \in messages[i].calls :
         Results(Rows, i, call) = {j \in Answers(i) : messages[j].calls = {call}}
  BY <1>7, ResultsOfCall
<1>. QED
  BY <1>6, <1>8 DEF OpenCalls

(* Only the active task adds messages, and the summary stays what it was.  *)
LEMMA AddKeeps ==
    ASSUME ContextInv, NEW t \in Task, NEW m \in Message, Add(m), m.task = t, RowsInv',
           UNCHANGED compaction, IsActive(t) \/ status[t] = "none",
           \A u \in Task \ {t} : ~IsActive(u) /\ status'[u] = status[u],
           status'[t] # "none", ~IsAt(t, {"compressing", "ready"})'
    PROVE  ContextInv'
<1> USE DEF ContextInv
<1>1. PICK n \in Nat : n = Len(messages) + 1
  BY RowTypes DEF RowsInv
<1>2. /\ Rows' = Rows \cup {n} /\ n \notin Rows /\ messages'[n] = m /\ Len(messages)' = n
      /\ \A i \in Rows : /\ messages'[i] = messages[i] /\ (IsHead(i)' <=> IsHead(i))
                         /\ i < n /\ i \in Nat
  BY <1>1, RowsGrow
<1>3. Rows = 1..Len(messages) /\ Len(messages) \in Nat /\ \A i \in Rows : messages[i].task \in Task
  BY RowTypes DEF RowsInv
<1>4. \A u \in Task : status'[u] # "none" =>
         /\ GoalOf(u)' \in Rows' /\ messages'[GoalOf(u)'] = User(u)
         /\ \A i \in Rows' : messages'[i] = User(u) => i = GoalOf(u)'
  <2>1. ASSUME NEW u \in Task, status'[u] # "none"
        PROVE  GoalOf(u)' \in Rows' /\ messages'[GoalOf(u)'] = User(u)
    <3>1. \E i \in Rows' : messages'[i] = User(u)
      BY <2>1 DEF RowsInv, GoalsAreOne
    <3>. QED
      BY <3>1 DEF GoalOf
  <2>2. ASSUME NEW u \in Task, status'[u] # "none", NEW i \in Rows', messages'[i] = User(u)
        PROVE  i = GoalOf(u)'
    <3>1. GoalOf(u)' \in Rows' /\ messages'[GoalOf(u)'] = User(u)
      BY <2>1, <2>2
    <3> DEFINE g == GoalOf(u)'
    <3> HIDE DEF g
    <3>2. g \in Rows' /\ messages'[g] = User(u)
      BY <3>1 DEF g
    <3>3. messages'[g].role = "user" /\ messages'[i].role = "user"
          /\ messages'[g].task = messages'[i].task
      BY <2>2, <3>2
    <3>4. i = g
      BY <3>2, <3>3 DEF RowsInv, GoalsAreOne
    <3>. QED
      BY <3>4 DEF g
  <2>. QED
    BY <2>1, <2>2
<1>5. ASSUME NEW u \in Task, status[u] # "none" PROVE GoalOf(u)' = GoalOf(u)
  <2>1. GoalOf(u) \in Rows /\ messages[GoalOf(u)] = User(u)
    BY <1>5, GoalIsRow
  <2>2. status'[u] # "none"
    BY <1>5
  <2>3. GoalOf(u) \in Rows' /\ messages'[GoalOf(u)] = User(u)
    BY <1>2, <2>1
  <2>. QED
    BY <1>4, <2>2, <2>3
<1>6. SummaryIsOfConversation'
  <2>1. ASSUME NEW u \in Task, IsActive(u)' PROVE GoalOf(u)' \notin compaction.covers
    <3>1. u = t
      BY <2>1 DEF IsActive
    <3>2. CASE status[t] = "none"
      <4>1. ASSUME NEW i \in Rows PROVE messages[i] # User(t)
        BY <3>2 DEF RowsInv, GoalsAreOne
      <4>2. GoalOf(t)' \notin Rows
        BY <1>2, <1>4, <4>1
      <4>. QED
        BY <3>1, <4>2 DEF SummaryIsOfConversation
    <3>3. CASE IsActive(t)
      BY <1>5, <3>1, <3>3 DEF SummaryIsOfConversation, IsActive
    <3>. QED
      BY <3>2, <3>3
  <2>2. compaction.through <= n
    <3>1. compaction.through \in Nat
      BY DEF RowsInv, Types, Version
    <3>. QED
      BY <1>1, <1>3, <3>1 DEF SummaryIsOfConversation
  <2>. QED
    BY <1>2, <2>1, <2>2 DEF SummaryIsOfConversation
<1>7. CutoffIsSafe'
  <2>1. compaction.through \in Nat /\ compaction.through <= Len(messages)
    BY DEF SummaryIsOfConversation, RowsInv, Types, Version
  <2>2. ASSUME NEW i \in Rows', IsHead(i)', i <= compaction.through
        PROVE  /\ status'[messages'[i].task] # "over" => IsWhole(i)'
               /\ messages'[i].scope = "conversation" /\ IsWhole(i)' =>
                     Group(i)' \subseteq compaction.covers \/ Group(i)' \subseteq compaction.omits
    <3>1. i \in Rows /\ IsHead(i) /\ messages'[i] = messages[i]
      BY <1>1, <1>2, <1>3, <2>1, <2>2
    <3>2. status[messages[i].task] # "none"
      BY <3>1 DEF RowsInv, GoalsAreOne
    <3>3. IsWhole(i) \/ messages[i].task # t
      BY <3>1, <3>2, <2>2 DEF CutoffIsSafe, IsActive
    <3>4. Group(i)' = Group(i)
      BY <1>1, <3>1, <3>3, GroupStays DEF RowsInv
    <3>5. IsWhole(i)' <=> IsWhole(i)
      <4>1. CASE IsWhole(i)
        BY <1>1, <3>1, <4>1, AnswersGrow
      <4>2. CASE ~IsWhole(i)
        <5>1. messages[i].task # t
          BY <3>3, <4>2
        <5>2. Answers(i)' \subseteq Answers(i) \cup {n} /\ n \notin Answers(i)'
              /\ Answers(i) \subseteq Answers(i)'
          BY <1>1, <3>1, <5>1, AnswersGrow
        <5>3. \A j \in Answers(i) : messages'[j] = messages[j]
          BY <1>2 DEF Answers
        <5>. QED
          BY <3>1, <5>2, <5>3 DEF IsWhole
      <4>. QED
        BY <4>1, <4>2
    <3>6. status'[messages[i].task] # "over" => IsWhole(i)
      <4>1. CASE messages[i].task = t
        BY <3>3, <4>1
      <4>2. CASE messages[i].task # t
        <5>1. status'[messages[i].task] = status[messages[i].task]
          BY <1>3, <3>1, <4>2
        <5>. QED
          BY <2>2, <3>1, <5>1 DEF CutoffIsSafe
      <4>. QED
        BY <4>1, <4>2
    <3>7. messages[i].scope = "conversation" /\ IsWhole(i) =>
             Group(i) \subseteq compaction.covers \/ Group(i) \subseteq compaction.omits
      BY <2>2, <3>1 DEF CutoffIsSafe
    <3>. QED
      BY <3>1, <3>4, <3>5, <3>6, <3>7
  <2>. QED
    BY <2>2 DEF CutoffIsSafe
<1>8. WorkersAreCurrent'
  <2>1. ASSUME NEW u \in Task, IsAt(u, {"compressing", "ready"})' PROVE FALSE
    <3>1. u # t /\ status'[u] = "running"
      BY <2>1 DEF IsAt
    <3>. QED
      BY <3>1 DEF IsActive
  <2>2. \A u \in Task : ~IsAt(u, {"compressing"})' /\ ~IsAt(u, {"ready"})'
    BY <2>1 DEF IsAt
  <2>. QED
    BY <2>2 DEF WorkersAreCurrent
<1>. QED
  BY <1>6, <1>7, <1>8

LEMMA OneIsActive ==
    ASSUME RowsInv, NEW t \in Task, IsActive(t)
    PROVE  \A u \in Task \ {t} : ~IsActive(u)
  BY DEF RowsInv, GoalsAreOne

LEMMA CreateTaskKeeps ==
    ASSUME ContextInv, NEW t \in Task, CreateTask(t)
    PROVE  ContextInv'
<1> DEFINE m == User(t)
<1>1. /\ status[t] = "none" /\ \A u \in Task : status[u] \in {"none", "over"}
      /\ Add(m) /\ status' = [status EXCEPT ![t] = "created"] /\ UNCHANGED <<compaction, worker>>
  BY DEF CreateTask
<1>2. RowsInv
  BY DEF ContextInv
<1>3. m \in Message /\ m.task = t /\ m.role = "user" /\ m.calls = {}
  BY DEF Message
<1> HIDE DEF m
<1>4. PICK n \in Nat : n = Len(messages) + 1
  BY <1>2, RowTypes DEF RowsInv
<1>5. /\ messages' \in Seq(Message) /\ Rows' = Rows \cup {n} /\ n \notin Rows
      /\ messages'[n] = m /\ \A i \in Rows : messages'[i] = messages[i]
  BY <1>1, <1>2, <1>3, <1>4, RowsGrow
<1>6. \A i \in Rows : messages[i].task # t /\ messages[i].task \in Task
  BY <1>1, <1>2, RowTypes DEF RowsInv, GoalsAreOne
<1>7. Types'
  BY <1>1, <1>2, <1>5 DEF RowsInv, Types
<1>8. status'[t] = "created" /\ \A u \in Task \ {t} : ~IsActive(u) /\ status'[u] = status[u]
  BY <1>1, <1>2 DEF RowsInv, Types, IsActive
<1>9. GoalsAreOne'
  <2>1. \A i \in Rows' : /\ status'[messages'[i].task] # "none"
                         /\ messages'[i].role = "user" => messages'[i] = User(messages'[i].task)
    <3>1. /\ status'[messages'[n].task] # "none"
          /\ messages'[n].role = "user" => messages'[n] = User(messages'[n].task)
      BY <1>3, <1>5, <1>8 DEF m
    <3>2. \A i \in Rows : /\ status'[messages[i].task] # "none"
                          /\ messages[i].role = "user" => messages[i] = User(messages[i].task)
      BY <1>2, <1>6, <1>8 DEF RowsInv, GoalsAreOne
    <3>. QED
      BY <1>5, <3>1, <3>2
  <2>2. \A i, j \in Rows' : /\ messages'[i].role = "user" /\ messages'[j].role = "user"
                            /\ messages'[i].task = messages'[j].task
                            => i = j
    BY <1>2, <1>3, <1>5, <1>6 DEF RowsInv, GoalsAreOne
  <2>3. ASSUME NEW u \in Task, status'[u] # "none" PROVE \E i \in Rows' : messages'[i] = User(u)
    <3>1. CASE u = t
      BY <1>5, <3>1 DEF m
    <3>2. CASE u # t
      <4>1. status[u] # "none"
        BY <1>8, <2>3, <3>2
      <4>2. PICK i \in Rows : messages[i] = User(u)
        BY <1>2, <4>1 DEF RowsInv, GoalsAreOne
      <4>. QED
        BY <1>5, <4>2
    <3>. QED
      BY <3>1, <3>2
  <2>4. \A u, v \in Task : IsActive(u)' /\ IsActive(v)' => u = v
    BY <1>8 DEF IsActive
  <2>. QED
    BY <2>1, <2>2, <2>3, <2>4 DEF GoalsAreOne
<1>10. Settled(t) /\ m.calls \cap UsedCalls(t) = {}
  BY <1>3, <1>6 DEF Settled
<1>11. IdsAreUsedOnce' /\ ResultsFollow' /\ BatchesInOrder'
  BY <1>1, <1>2, <1>3, <1>10, HeadGrows
<1>12. BatchesAreAnswered'
  <2>1. Settled(t)'
    BY <1>3, <1>5, <1>6 DEF Settled, IsWhole
  <2>. QED
    BY <1>8, <2>1 DEF BatchesAreAnswered, IsAt, IsActive
<1>13. RowsInv'
  BY <1>7, <1>9, <1>11, <1>12 DEF RowsInv
<1>14. ~IsAt(t, {"compressing", "ready"})' /\ status'[t] # "none" /\ UNCHANGED compaction
  BY <1>1, <1>8 DEF IsAt
<1>. QED
  BY <1>1, <1>3, <1>8, <1>13, <1>14, AddKeeps

LEMMA MoveTypes ==
    ASSUME Types, NEW t \in Task, NEW stage \in Stage, Moves(t, stage)
    PROVE  /\ worker' \in [Task -> Worker] /\ worker'[t].stage = stage
           /\ \A u \in Task \ {t} : worker'[u] = worker[u]
<1>1. worker' = [worker EXCEPT ![t] = [worker[t] EXCEPT !.stage = stage]]
  BY DEF Moves
<1>2. [worker[t] EXCEPT !.stage = stage] \in Worker /\ [worker[t] EXCEPT !.stage = stage].stage = stage
  <2>1. worker[t] \in Worker
    BY DEF Types
  <2>. QED
    BY <2>1 DEF Worker
<1>. QED
  BY <1>1, <1>2 DEF Types

LEMMA SaveToolCallsKeeps ==
    ASSUME ContextInv, NEW t \in Task, SaveToolCalls(t)
    PROVE  ContextInv'
<1>1. RowsInv /\ worker[t].stage = "ready" /\ status[t] = "running" /\ UNCHANGED <<status, compaction>>
      /\ Moves(t, "calling") /\ "calling" \in Stage
  BY DEF SaveToolCalls, ContextInv, Stage
<1>2. PICK calls \in (SUBSET (CallId \ UsedCalls(t))) \ {{}}, scope \in {"conversation", "task"} :
         Add(Assistant(t, scope, calls))
  BY DEF SaveToolCalls
<1> DEFINE m == Assistant(t, scope, calls)
<1>3. /\ m \in Message /\ m.task = t /\ m.role = "assistant" /\ m.calls = calls
      /\ m.calls \cap UsedCalls(t) = {}
  BY DEF Message
<1>4. Add(m)
  BY <1>2
<1> HIDE DEF m
<1>5. PICK n \in Nat : n = Len(messages) + 1
  BY <1>1, RowTypes DEF RowsInv
<1>6. /\ messages' \in Seq(Message) /\ Rows' = Rows \cup {n} /\ messages'[n] = m
      /\ \A i \in Rows : i < n /\ i \in Nat
  BY <1>1, <1>3, <1>4, <1>5, RowsGrow
<1>7. Types' /\ worker'[t].stage = "calling"
  <2>1. worker' \in [Task -> Worker] /\ worker'[t].stage = "calling"
    BY <1>1, MoveTypes DEF RowsInv
  <2>. QED
    BY <1>1, <1>6, <2>1 DEF RowsInv, Types
<1>8. IsActive(t) /\ IsAt(t, {"ready"}) /\ \A u \in Task \ {t} : ~IsActive(u) /\ status'[u] = status[u]
  BY <1>1, OneIsActive DEF IsActive, IsAt
<1>9. StatusMoves
  BY <1>1 DEF StatusMoves
<1>10. GoalsAreOne'
  BY <1>1, <1>3, <1>4, <1>7, <1>9, GoalsGrow
<1>11. Settled(t)
  BY <1>1 DEF RowsInv, BatchesAreAnswered, IsAt
<1>12. IdsAreUsedOnce' /\ ResultsFollow' /\ BatchesInOrder'
  BY <1>1, <1>3, <1>4, <1>11, HeadGrows
<1>13. BatchesAreAnswered'
  <2>1. n \in Rows' /\ IsLastBatch(t, n)'
    BY <1>3, <1>5, <1>6 DEF IsLastBatch
  <2>2. \A u \in Task \ {t} : ~IsActive(u)'
    BY <1>1, <1>8 DEF IsActive
  <2>. QED
    BY <1>1, <1>7, <2>1, <2>2 DEF BatchesAreAnswered, IsAt, IsActive
<1>14. RowsInv'
  BY <1>7, <1>10, <1>12, <1>13 DEF RowsInv
<1>15. ~IsAt(t, {"compressing", "ready"})' /\ status'[t] # "none" /\ UNCHANGED compaction
  BY <1>1, <1>7 DEF IsAt
<1>. QED
  BY <1>3, <1>4, <1>8, <1>14, <1>15, AddKeeps

LEMMA CompleteTaskKeeps ==
    ASSUME ContextInv, NEW t \in Task, CompleteTask(t)
    PROVE  ContextInv'
<1> DEFINE m == Assistant(t, "conversation", {})
<1>1. /\ RowsInv /\ worker[t].stage = "ready" /\ status[t] = "running" /\ UNCHANGED compaction
      /\ status' = [status EXCEPT ![t] = "over"]
      /\ Moves(t, "none") /\ Add(m) /\ "none" \in Stage
  BY DEF CompleteTask, ContextInv, Stage
<1>3. /\ m \in Message /\ m.task = t /\ m.role = "assistant" /\ m.calls = {}
  BY DEF Message
<1> HIDE DEF m
<1>5. PICK n \in Nat : n = Len(messages) + 1
  BY <1>1, RowTypes DEF RowsInv
<1>6. messages' \in Seq(Message)
  BY <1>1, <1>3, <1>5, RowsGrow
<1>7. Types' /\ status'[t] = "over"
  <2>1. worker' \in [Task -> Worker]
    BY <1>1, MoveTypes DEF RowsInv
  <2>. QED
    BY <1>1, <1>6, <2>1 DEF RowsInv, Types
<1>8. IsActive(t) /\ IsAt(t, {"ready"}) /\ \A u \in Task \ {t} : ~IsActive(u) /\ status'[u] = status[u]
  BY <1>1, OneIsActive DEF IsActive, IsAt, RowsInv, Types
<1>9. StatusMoves
  BY <1>1, <1>7, <1>8 DEF StatusMoves
<1>10. GoalsAreOne'
  BY <1>1, <1>3, <1>7, <1>9, GoalsGrow
<1>11. Settled(t)
  BY <1>1 DEF RowsInv, BatchesAreAnswered, IsAt
<1>12. IdsAreUsedOnce' /\ ResultsFollow' /\ BatchesInOrder'
  BY <1>1, <1>3, <1>11, HeadGrows
<1>13. BatchesAreAnswered'
  <2>2. \A u \in Task : ~IsActive(u)'
    BY <1>7, <1>8 DEF IsActive
  <2>. QED
    BY <2>2 DEF BatchesAreAnswered, IsAt, IsActive
<1>14. RowsInv'
  BY <1>7, <1>10, <1>12, <1>13 DEF RowsInv
<1>15. ~IsAt(t, {"compressing", "ready"})' /\ status'[t] # "none"
  BY <1>7 DEF IsAt
<1>. QED
  BY <1>1, <1>3, <1>8, <1>14, <1>15, AddKeeps

(* A result is added for an open call of the last batch of an active task; *)
(* the task goes on when it was the last one.                              *)
LEMMA ResultKeeps ==
    ASSUME ContextInv, NEW t \in Task, NEW call \in OpenCalls(t), AddResult(t, call),
           status[t] = "waiting" \/ IsAt(t, {"calling"}),
           Types', StatusMoves, UNCHANGED compaction,
           \A u \in Task \ {t} : status'[u] = status[u],
           ~IsAt(t, {"compressing", "ready"})',
           status'[t] = "created" \/ IsAt(t, {"building"})' => OpenCalls(t) = {call}
    PROVE  ContextInv'
<1>1. RowsInv /\ IsActive(t)
  BY DEF ContextInv, IsActive, IsAt
<1>2. \A u \in Task \ {t} : ~IsActive(u)
  BY <1>1, OneIsActive
<1>3. PICK i \in Rows : IsLastBatch(t, i)
  BY <1>1 DEF RowsInv, BatchesAreAnswered
<1>4. /\ NewestBatch(t) = i
      /\ OpenCalls(t) = {c \in messages[i].calls : \A j \in Answers(i) : messages[j].calls # {c}}
  BY <1>1, <1>3, NewestIsLast
<1>5. PICK tokens \in ResultTokens : Add(Result(t, messages[i].scope, call, tokens))
  BY <1>4 DEF AddResult
<1>6. PICK m \in Message : m = Result(t, messages[i].scope, call, tokens)
  <2>1. messages[i].scope \in {"conversation", "task"} /\ messages[i].calls \subseteq CallId
    BY <1>1, RowTypes DEF RowsInv
  <2>2. tokens \in Nat \ {0}
    BY TokensAssumption
  <2>. QED
    BY <1>4, <2>1, <2>2 DEF Message
<1>7. /\ Add(m) /\ m.task = t /\ m.role = "tool" /\ m.calls = {call}
      /\ m.scope = messages[i].scope
  BY <1>5, <1>6
<1>8. call \in messages[i].calls /\ \A j \in Answers(i) : messages[j].calls # {call}
  BY <1>4
<1>9. GoalsAreOne'
  <2>1. m.role # "user" /\ status[m.task] # "none"
    BY <1>1, <1>7 DEF IsActive
  <2>. QED
    BY <1>1, <1>7, <2>1, GoalsGrow
<1>10. /\ IdsAreUsedOnce' /\ ResultsFollow' /\ BatchesInOrder'
       /\ i \in Rows' /\ IsLastBatch(t, i)'
       /\ (\A c \in messages[i].calls \ {call} : \E j \in Answers(i) : messages[j].calls = {c})
             => Settled(t)'
  <2>1. IsLastBatch(m.task, i)
    BY <1>3, <1>7
  <2>2. /\ IdsAreUsedOnce' /\ ResultsFollow' /\ BatchesInOrder'
        /\ i \in Rows' /\ IsLastBatch(m.task, i)'
        /\ (\A c \in messages[i].calls \ {call} : \E j \in Answers(i) : messages[j].calls = {c})
              => Settled(m.task)'
    BY <1>1, <1>7, <1>8, <2>1, ResultGrows
  <2>. QED
    BY <1>7, <2>2
<1>11. BatchesAreAnswered'
  <2>1. OpenCalls(t) = {call} => Settled(t)'
    BY <1>4, <1>10
  <2>2. \A u \in Task \ {t} : ~IsActive(u)'
    BY <1>2 DEF IsActive
  <2>3. status'[t] = "created" \/ IsAt(t, {"building", "compressing", "ready"})' => Settled(t)'
    BY <2>1 DEF IsAt
  <2>. QED
    BY <1>10, <2>2, <2>3 DEF BatchesAreAnswered, IsAt, IsActive
<1>12. RowsInv'
  BY <1>9, <1>10, <1>11 DEF RowsInv
<1>13. status'[t] # "none"
  BY <1>1 DEF StatusMoves, IsActive
<1>. QED
  BY <1>1, <1>2, <1>7, <1>12, <1>13, AddKeeps

LEMMA NoWorkerType ==
    /\ NoCompaction \in Version
    /\ NoWorker \in Worker
    /\ \A stage \in Stage, n \in Nat :
          /\ [NoWorker EXCEPT !.stage = stage] \in Worker
          /\ [NoWorker EXCEPT !.stage = stage, !.passes = n] \in Worker
<1>1. NoCompaction \in Version
  BY DEF NoCompaction, Version
<1>2. NoWorker \in Worker
  BY <1>1 DEF NoWorker, Stage, Worker
<1>. QED
  BY <1>1, <1>2 DEF Worker

LEMMA AddedType ==
    ASSUME RowsInv, NEW t \in Task, NEW call \in OpenCalls(t), AddResult(t, call),
           status[t] = "waiting" \/ IsAt(t, {"calling"})
    PROVE  messages' \in Seq(Message)
<1>1. PICK i \in Rows : IsLastBatch(t, i)
  BY DEF RowsInv, BatchesAreAnswered
<1>2. NewestBatch(t) = i /\ call \in messages[i].calls
  BY <1>1, NewestIsLast
<1>3. PICK tokens \in ResultTokens : Add(Result(t, messages[i].scope, call, tokens))
  BY <1>2 DEF AddResult
<1>4. Result(t, messages[i].scope, call, tokens) \in Message
  <2>1. messages[i].scope \in {"conversation", "task"} /\ messages[i].calls \subseteq CallId
    BY RowTypes DEF RowsInv
  <2>2. tokens \in Nat \ {0}
    BY TokensAssumption
  <2>. QED
    BY <1>2, <2>1, <2>2 DEF Message
<1>5. messages \in Seq(Message)
  BY DEF RowsInv, Types
<1> HIDE DEF Result
<1>. QED
  BY <1>3, <1>4, <1>5 DEF Add

LEMMA CompleteToolCallKeeps ==
    ASSUME ContextInv, NEW t \in Task, CompleteToolCall(t)
    PROVE  ContextInv'
<1>1. /\ worker[t].stage = "calling" /\ status[t] = "running" /\ UNCHANGED <<status, compaction>>
      /\ RowsInv /\ Types
  BY DEF CompleteToolCall, ContextInv, RowsInv
<1>2. PICK call \in OpenCalls(t) :
         /\ AddResult(t, call)
         /\ IF OpenCalls(t) = {call}
            THEN worker' = [worker EXCEPT ![t] = [NoWorker EXCEPT !.stage = "building"]]
            ELSE UNCHANGED worker
  BY DEF CompleteToolCall
<1>3. IsAt(t, {"calling"}) /\ StatusMoves
  BY <1>1 DEF IsAt, StatusMoves
<1>4. messages' \in Seq(Message)
  BY <1>1, <1>2, <1>3, AddedType
<1>5. worker' \in [Task -> Worker]
  <2>1. "building" \in Stage
    BY DEF Stage
  <2>2. [NoWorker EXCEPT !.stage = "building"] \in Worker
    BY <2>1, NoWorkerType
  <2>. QED
    BY <1>1, <1>2, <2>2 DEF Types
<1>6. Types'
  BY <1>1, <1>4, <1>5 DEF Types
<1>7. worker'[t].stage = IF OpenCalls(t) = {call} THEN "building" ELSE "calling"
  BY <1>1, <1>2 DEF Types, NoWorker
<1>8. /\ \A u \in Task \ {t} : status'[u] = status[u]
      /\ ~IsAt(t, {"compressing", "ready"})'
      /\ status'[t] = "created" \/ IsAt(t, {"building"})' => OpenCalls(t) = {call}
  BY <1>1, <1>7 DEF IsAt
<1>. QED
  BY <1>1, <1>2, <1>3, <1>6, <1>8, ResultKeeps

LEMMA AnswerUserInputKeeps ==
    ASSUME ContextInv, NEW t \in Task, AnswerUserInput(t)
    PROVE  ContextInv'
<1>1. status[t] = "waiting" /\ UNCHANGED <<compaction, worker>> /\ RowsInv /\ Types
  BY DEF AnswerUserInput, ContextInv, RowsInv
<1>2. PICK call \in OpenCalls(t) :
         /\ AddResult(t, call)
         /\ status' = [status EXCEPT ![t] = IF OpenCalls(t) = {call}
                                            THEN "created" ELSE "waiting"]
  BY DEF AnswerUserInput
<1>3. messages' \in Seq(Message)
  BY <1>1, <1>2, AddedType
<1>4. Types'
  BY <1>1, <1>2, <1>3 DEF Types
<1>5. /\ status'[t] = IF OpenCalls(t) = {call} THEN "created" ELSE "waiting"
      /\ \A u \in Task \ {t} : status'[u] = status[u]
  BY <1>1, <1>2 DEF Types
<1>6. StatusMoves
  BY <1>1, <1>5 DEF StatusMoves
<1>7. /\ ~IsAt(t, {"compressing", "ready"})'
      /\ status'[t] = "created" \/ IsAt(t, {"building"})' => OpenCalls(t) = {call}
  BY <1>5 DEF IsAt
<1>. QED
  BY <1>1, <1>2, <1>4, <1>5, <1>6, <1>7, ResultKeeps

-----------------------------------------------------------------------------
(* Steps that write neither a message nor a summary. *)

LEMMA QuietKeeps ==
    ASSUME ContextInv, Types', UNCHANGED <<messages, compaction>>, StatusMoves, WorkMoves,
           \A u \in Task : IsAt(u, {"compressing", "ready"})' =>
                              status[u] = "running" /\ worker'[u] = worker[u]
    PROVE  ContextInv'
<1>1. RowsInv'
  BY QuietRows DEF ContextInv
<1>2. SummaryIsOfConversation' /\ CutoffIsSafe'
  BY QuietSummary
<1>3. WorkersAreCurrent'
  <2>1. \A u \in Task : /\ GroupsAfterCompaction(u)' = GroupsAfterCompaction(u)
                        /\ CompactionBatch(u)' = CompactionBatch(u)
    BY InputStays
  <2>2. ASSUME NEW u \in Task, IsAt(u, {"compressing"})'
        PROVE  /\ worker'[u].base = compaction
               /\ worker'[u].groups = CompactionBatch(u) /\ worker'[u].groups # {}
    <3>1. worker'[u] = worker[u] /\ IsAt(u, {"compressing"})
      BY <2>2 DEF IsAt
    <3>. QED
      BY <3>1 DEF ContextInv, WorkersAreCurrent
  <2>3. ASSUME NEW u \in Task, IsAt(u, {"ready"})'
        PROVE  worker'[u].base = compaction /\ worker'[u].groups = GroupsAfterCompaction(u)
    <3>1. worker'[u] = worker[u] /\ IsAt(u, {"ready"})
      BY <2>3 DEF IsAt
    <3>. QED
      BY <3>1 DEF ContextInv, WorkersAreCurrent
  <2>. QED
    BY <2>1, <2>2, <2>3 DEF WorkersAreCurrent
<1>. QED
  BY <1>1, <1>2, <1>3 DEF ContextInv

(* The worker of a task moves to a stage where it holds nothing. *)
LEMMA WorkerMoves ==
    ASSUME ContextInv, NEW t \in Task, NEW stage \in {"none", "failed"}, Moves(t, stage),
           UNCHANGED <<messages, compaction>>,
           \/ UNCHANGED status
           \/ /\ status[t] = "running" /\ worker[t].stage = "calling"
              /\ status' = [status EXCEPT ![t] = "waiting"]
    PROVE  ContextInv'
<1>1. Types /\ stage \in Stage
  BY DEF ContextInv, RowsInv, Stage
<1>2. /\ worker' \in [Task -> Worker] /\ worker'[t].stage = stage
      /\ \A u \in Task \ {t} : worker'[u] = worker[u]
  BY <1>1, MoveTypes
<1>3. /\ status' \in [Task -> {"none", "created", "running", "waiting", "over"}]
      /\ \A u \in Task \ {t} : status'[u] = status[u]
      /\ status'[t] = status[t] \/ (status'[t] = "waiting" /\ IsAt(t, {"calling"}))
  <2>1. status \in [Task -> {"none", "created", "running", "waiting", "over"}]
    BY <1>1 DEF Types
  <2>2. CASE UNCHANGED status
    BY <2>1, <2>2
  <2>3. CASE /\ status[t] = "running" /\ worker[t].stage = "calling"
             /\ status' = [status EXCEPT ![t] = "waiting"]
    BY <2>1, <2>3 DEF IsAt
  <2>. QED
    BY <2>2, <2>3
<1>4. Types'
  BY <1>1, <1>2, <1>3 DEF Types
<1>5. StatusMoves
  BY <1>3 DEF StatusMoves, IsAt
<1>6. WorkMoves
  BY <1>2, <1>3 DEF WorkMoves, IsAt
<1>7. \A u \in Task : IsAt(u, {"compressing", "ready"})' =>
                         status[u] = "running" /\ worker'[u] = worker[u]
  BY <1>2, <1>3 DEF IsAt
<1>. QED
  BY <1>4, <1>5, <1>6, <1>7, QuietKeeps

LEMMA StartTaskRunKeeps ==
    ASSUME ContextInv, NEW t \in Task, StartTaskRun(t)
    PROVE  ContextInv'
<1>1. /\ status[t] = "created" /\ status' = [status EXCEPT ![t] = "running"]
      /\ worker' = [worker EXCEPT ![t] = [NoWorker EXCEPT !.stage = "building"]]
      /\ UNCHANGED <<messages, compaction>> /\ Types
  BY DEF StartTaskRun, ContextInv, RowsInv
<1>2. [NoWorker EXCEPT !.stage = "building"] \in Worker
      /\ [NoWorker EXCEPT !.stage = "building"].stage = "building"
  BY NoWorkerType DEF Stage, NoWorker
<1>3. /\ Types' /\ worker'[t].stage = "building" /\ status'[t] = "running"
      /\ \A u \in Task \ {t} : worker'[u] = worker[u] /\ status'[u] = status[u]
  BY <1>1, <1>2 DEF Types
<1>4. StatusMoves /\ WorkMoves
  BY <1>1, <1>3 DEF StatusMoves, WorkMoves, IsAt
<1>5. \A u \in Task : IsAt(u, {"compressing", "ready"})' =>
                         status[u] = "running" /\ worker'[u] = worker[u]
  BY <1>3 DEF IsAt
<1>. QED
  BY <1>1, <1>3, <1>4, <1>5, QuietKeeps

LEMMA CancelTaskKeeps ==
    ASSUME ContextInv, NEW t \in Task, CancelTask(t)
    PROVE  ContextInv'
<1>1. /\ status[t] \in {"created", "running", "waiting"}
      /\ status' = [status EXCEPT ![t] = "over"]
      /\ UNCHANGED <<messages, compaction, worker>> /\ Types
  BY DEF CancelTask, ContextInv, RowsInv
<1>2. /\ Types' /\ status'[t] = "over"
      /\ \A u \in Task \ {t} : status'[u] = status[u]
  BY <1>1 DEF Types
<1>3. StatusMoves /\ WorkMoves
  BY <1>1, <1>2 DEF StatusMoves, WorkMoves, IsAt
<1>4. \A u \in Task : IsAt(u, {"compressing", "ready"})' =>
                         status[u] = "running" /\ worker'[u] = worker[u]
  BY <1>1, <1>2 DEF IsAt
<1>. QED
  BY <1>1, <1>2, <1>3, <1>4, QuietKeeps

LEMMA FailTaskKeeps ==
    ASSUME ContextInv, NEW t \in Task, FailTask(t)
    PROVE  ContextInv'
<1>1. /\ worker[t].stage = "failed"
      /\ status' = [status EXCEPT ![t] = IF @ = "running" THEN "over" ELSE @]
      /\ worker' = [worker EXCEPT ![t] = NoWorker]
      /\ UNCHANGED <<messages, compaction>> /\ Types
  BY DEF FailTask, ContextInv, RowsInv
<1>2. NoWorker \in Worker /\ NoWorker.stage = "none"
  BY NoWorkerType DEF NoWorker
<1>3. /\ Types' /\ worker'[t].stage = "none"
      /\ status'[t] = IF status[t] = "running" THEN "over" ELSE status[t]
      /\ \A u \in Task \ {t} : worker'[u] = worker[u] /\ status'[u] = status[u]
  BY <1>1, <1>2 DEF Types
<1>4. StatusMoves /\ WorkMoves
  BY <1>1, <1>3 DEF StatusMoves, WorkMoves, IsAt
<1>5. \A u \in Task : IsAt(u, {"compressing", "ready"})' =>
                         status[u] = "running" /\ worker'[u] = worker[u]
  BY <1>3 DEF IsAt
<1>. QED
  BY <1>1, <1>3, <1>4, <1>5, QuietKeeps

-----------------------------------------------------------------------------
(* A build: what a worker takes is what it would read now. *)

LEMMA GroupsAreRows ==
    ASSUME Types, NEW t \in Task
    PROVE  GroupsAfterCompaction(t) \in SUBSET SUBSET Nat /\ CompactionBatch(t) \in SUBSET SUBSET Nat
<1>1. InputRows(t) \subseteq Nat
  BY RowTypes DEF InputRows
<1>2. \A i \in InputRows(t) : GroupOf(InputRows(t), i) \subseteq Nat
  BY <1>1 DEF GroupOf, Results
<1>3. \A g \in ProjectMessageGroups(InputRows(t)) : g \subseteq Nat
  BY <1>2 DEF ProjectMessageGroups
<1>4. /\ GroupsAfterCompaction(t) \subseteq ProjectMessageGroups(InputRows(t))
      /\ CompactionBatch(t) \subseteq ProjectMessageGroups(InputRows(t))
  BY DEF GroupsAfterCompaction, CompactionBatch, OldConversationGroups, Compactable
<1>. QED
  BY <1>3, <1>4

Takes(t, stage, groups) ==
    worker' = [worker EXCEPT ![t].stage = stage, ![t].groups = groups, ![t].base = compaction]

LEMMA BuildKeeps ==
    ASSUME ContextInv, NEW t \in Task, NEW stage \in {"ready", "compressing"},
           worker[t].stage = "building", UNCHANGED <<messages, status, compaction>>,
           NEW groups, groups = IF stage = "ready" THEN GroupsAfterCompaction(t)
                                                   ELSE CompactionBatch(t),
           stage = "compressing" => groups # {},
           Takes(t, stage, groups)
    PROVE  ContextInv'
<1>1. Types /\ stage \in Stage /\ groups \in SUBSET SUBSET Nat /\ compaction \in Version
  BY GroupsAreRows DEF ContextInv, RowsInv, Stage, Types
<1> DEFINE w == [worker[t] EXCEPT !.stage = stage, !.groups = groups, !.base = compaction]
<1>2. w \in Worker /\ w.stage = stage /\ w.groups = groups /\ w.base = compaction
  <2>1. worker[t] \in Worker
    BY <1>1 DEF Types
  <2>. QED
    BY <1>1, <2>1 DEF Worker
<1>3. worker' = [worker EXCEPT ![t] = w]
  BY <1>1 DEF Types, Takes
<1> HIDE DEF w
<1>4. worker' \in [Task -> Worker] /\ worker'[t] = w /\ \A u \in Task \ {t} : worker'[u] = worker[u]
  <2>1. worker \in [Task -> Worker]
    BY <1>1 DEF Types
  <2>. QED
    BY <1>2, <1>3, <2>1
<1>5. Types'
  BY <1>1, <1>4 DEF Types
<1>6. StatusMoves /\ WorkMoves
  BY <1>2, <1>4 DEF StatusMoves, WorkMoves, IsAt
<1>7. RowsInv'
  BY <1>5, <1>6, QuietRows DEF ContextInv
<1>8. SummaryIsOfConversation' /\ CutoffIsSafe'
  BY <1>5, <1>6, QuietSummary
<1>9. WorkersAreCurrent'
  <2>1. \A u \in Task : /\ GroupsAfterCompaction(u)' = GroupsAfterCompaction(u)
                        /\ CompactionBatch(u)' = CompactionBatch(u)
    BY InputStays
  <2>2. ASSUME NEW u \in Task, IsAt(u, {"compressing"})'
        PROVE  /\ worker'[u].base = compaction
               /\ worker'[u].groups = CompactionBatch(u) /\ worker'[u].groups # {}
    <3>1. CASE u = t
      BY <1>2, <1>4, <2>2, <3>1 DEF IsAt
    <3>2. CASE u # t
      <4>1. worker'[u] = worker[u] /\ IsAt(u, {"compressing"})
        BY <1>4, <2>2, <3>2 DEF IsAt
      <4>. QED
        BY <4>1 DEF ContextInv, WorkersAreCurrent
    <3>. QED
      BY <3>1, <3>2
  <2>3. ASSUME NEW u \in Task, IsAt(u, {"ready"})'
        PROVE  worker'[u].base = compaction /\ worker'[u].groups = GroupsAfterCompaction(u)
    <3>1. CASE u = t
      BY <1>2, <1>4, <2>3, <3>1 DEF IsAt
    <3>2. CASE u # t
      <4>1. worker'[u] = worker[u] /\ IsAt(u, {"ready"})
        BY <1>4, <2>3, <3>2 DEF IsAt
      <4>. QED
        BY <4>1 DEF ContextInv, WorkersAreCurrent
    <3>. QED
      BY <3>1, <3>2
  <2>. QED
    BY <2>1, <2>2, <2>3 DEF WorkersAreCurrent
<1>. QED
  BY <1>7, <1>8, <1>9 DEF ContextInv

(* The end of what a worker summarises lies in one of its groups.          *)
LEMMA BatchThrough ==
    ASSUME ContextInv, NEW t \in Task, IsAt(t, {"compressing"})
    PROVE  /\ worker[t].base = compaction /\ worker[t].groups = CompactionBatch(t)
           /\ UNION worker[t].groups \subseteq Rows
           /\ \A g \in worker[t].groups : \E i \in NewHeads(t) : g = Group(i)
           /\ Through(t) \in UNION worker[t].groups /\ Through(t) \in Nat
           /\ \A i \in UNION worker[t].groups : i <= Through(t)
<1> DEFINE rows == UNION worker[t].groups
<1>1. /\ worker[t].base = compaction /\ worker[t].groups = CompactionBatch(t)
      /\ worker[t].groups # {} /\ status[t] # "none" /\ compaction.through \in Nat /\ RowsInv
  BY DEF ContextInv, WorkersAreCurrent, IsAt, RowsInv, Types, Version
<1>2. worker[t].groups \subseteq {Group(i) : i \in NewHeads(t)}
  BY <1>1, HeadsOfInput DEF CompactionBatch, OldConversationGroups
<1>3. \A i \in NewHeads(t) : i \in Rows /\ IsHead(i) /\ Group(i) \subseteq Rows /\ i \in Group(i)
  BY <1>1, GroupRows DEF NewHeads, Conversation, Wholes
<1>4. rows \subseteq Rows /\ rows # {}
  BY <1>1, <1>2, <1>3
<1>5. Len(messages) \in Nat /\ \A i \in Rows : i \in Nat /\ i <= Len(messages)
  BY <1>1, RowTypes DEF RowsInv
<1>6. Through(t) = Max(rows)
  BY DEF Through
<1> HIDE DEF rows
<1>7. Max(rows) \in rows /\ Max(rows) \in Nat /\ \A i \in rows : i <= Max(rows)
  BY <1>4, <1>5, MaxOfNumbers
<1>. QED
  BY <1>1, <1>2, <1>4, <1>6, <1>7 DEF rows

LEMMA ReplaceCompactionKeeps ==
    ASSUME ContextInv, NEW t \in Task, ReplaceCompaction(t)
    PROVE  ContextInv'
<1> DEFINE rows == UNION worker[t].groups
           T == Through(t)
<1>1. /\ worker[t].stage = "compressing" /\ status[t] = "running" /\ T > compaction.through
      /\ UNCHANGED <<messages, status>>
      /\ worker' = [worker EXCEPT ![t] = [NoWorker EXCEPT !.stage = "building",
                                                          !.passes = worker[t].passes + 1]]
  BY DEF ReplaceCompaction, MayReplace
<1>2. PICK tokens \in 1..SummaryMaxTokens :
         compaction' = [version |-> compaction.version + 1, through |-> T,
                        covers |-> worker[t].base.covers \cup rows, tokens |-> tokens,
                        omits |-> worker[t].base.omits \cup LeftOut(t)]
  BY DEF ReplaceCompaction, SummarySizes
<1>3. IsAt(t, {"compressing"}) /\ IsActive(t) /\ RowsInv /\ Types
  BY <1>1 DEF IsAt, IsActive, ContextInv, RowsInv
<1>4. /\ worker[t].base = compaction /\ worker[t].groups = CompactionBatch(t)
      /\ rows \subseteq Rows /\ T \in rows /\ T \in Nat /\ \A i \in rows : i <= T
      /\ \A g \in worker[t].groups : \E i \in NewHeads(t) : g = Group(i)
  BY <1>3, BatchThrough
<1> HIDE DEF rows, T
<1>5. \A u \in Task \ {t} : ~IsActive(u)
  BY <1>3, OneIsActive
<1>6. /\ Len(messages) \in Nat /\ Rows = 1..Len(messages) /\ Rows \subseteq Nat
      /\ \A i \in Rows : messages[i].task \in Task
  BY <1>3, RowTypes
<1>7. compaction \in Version /\ compaction.version \in Nat \cup {-1} /\ compaction.through \in Nat
      /\ compaction.covers \subseteq Nat /\ compaction.omits \subseteq Nat
  BY <1>3 DEF Types, Version
<1>8. /\ compaction'.through = T /\ compaction'.covers = compaction.covers \cup rows
      /\ compaction'.omits = compaction.omits \cup LeftOut(t)
  BY <1>2, <1>4
<1>9. /\ worker' \in [Task -> Worker] /\ worker'[t].stage = "building"
      /\ \A u \in Task \ {t} : worker'[u] = worker[u]
  <2>1. worker[t] \in Worker
    BY <1>3 DEF Types
  <2>2. worker[t].passes + 1 \in Nat /\ "building" \in Stage
    BY <2>1 DEF Worker, Stage
  <2>3. [NoWorker EXCEPT !.stage = "building", !.passes = worker[t].passes + 1] \in Worker
    BY <2>2, NoWorkerType
  <2>. QED
    BY <1>1, <1>3, <2>3 DEF Types, NoWorker
<1>10. Types'
  <2>1. /\ tokens \in Nat /\ compaction.version + 1 \in Nat \cup {-1}
        /\ compaction.covers \cup rows \subseteq Nat
        /\ compaction.omits \cup LeftOut(t) \subseteq Nat
    <3>1. SummaryMaxTokens \in Nat
      BY TokensAssumption
    <3>2. tokens \in Nat
      BY <3>1
    <3>3. compaction.version + 1 \in Nat \cup {-1}
      BY <1>7
    <3>4. LeftOut(t) \subseteq Nat
      <4>1. GoalOf(t) \in Rows
        BY <1>1, <1>3, GoalIsRow
      <4>2. LeftOut(t) \subseteq {GoalOf(t)}
        BY DEF LeftOut
      <4>. QED
        BY <1>6, <4>1, <4>2
    <3>. QED
      BY <1>4, <1>6, <1>7, <3>2, <3>3, <3>4
  <2>2. compaction' \in Version
    BY <1>2, <1>4, <2>1 DEF Version
  <2>. QED
    BY <1>1, <1>3, <1>9, <2>2 DEF Types
<1>11. StatusMoves /\ WorkMoves
  BY <1>1, <1>3, <1>9 DEF StatusMoves, WorkMoves, IsAt
<1>12. RowsInv'
  BY <1>1, <1>3, <1>10, <1>11, QuietRows
<1>13. \A i \in NewHeads(t) :
          /\ i \in Rows /\ IsHead(i) /\ messages[i].scope = "conversation" /\ i # GoalOf(t)
  BY DEF NewHeads, Conversation, Wholes
<1>14. SummaryIsOfConversation'
  <2>1. T <= Len(messages)
    BY <1>4, <1>6
  <2>2. ASSUME NEW i \in compaction.covers \cup rows
        PROVE  i \in Rows /\ i <= T /\ messages[i].scope = "conversation" /\ i # GoalOf(t)
    <3>1. CASE i \in compaction.covers
      <4>1. i \in Rows /\ i <= compaction.through /\ messages[i].scope = "conversation"
            /\ i # GoalOf(t)
        BY <1>3, <3>1 DEF ContextInv, SummaryIsOfConversation
      <4>. QED
        BY <1>1, <1>4, <1>6, <1>7, <4>1
    <3>2. CASE i \in rows
      <4>1. PICK h \in NewHeads(t) : i \in Group(h)
        BY <1>4, <3>2 DEF rows
      <4>2. h \in Rows /\ IsHead(h) /\ h # GoalOf(t) /\ messages[h].scope = "conversation"
        BY <1>13
      <4>3. messages[i].scope = "conversation"
        BY <1>3, <4>1, <4>2, GroupRows
      <4>4. i # GoalOf(t)
        BY <1>1, <1>3, <4>1, <4>2, GoalInGroup
      <4>. QED
        BY <1>4, <3>2, <4>3, <4>4
    <3>. QED
      BY <2>2, <3>1, <3>2
  <2>3. \A u \in Task : IsActive(u)' => u = t
    BY <1>1, <1>5 DEF IsActive
  <2>. QED
    BY <1>1, <1>8, <2>1, <2>2, <2>3, RowsStay DEF SummaryIsOfConversation
<1>15. CutoffIsSafe'
  <2>1. ASSUME NEW i \in Rows, IsHead(i), i <= T
        PROVE  /\ status[messages[i].task] # "over" => IsWhole(i)
               /\ messages[i].scope = "conversation" /\ IsWhole(i) =>
                     \/ Group(i) \subseteq compaction.covers \cup rows
                     \/ Group(i) \subseteq compaction.omits \cup LeftOut(t)
    <3>1. ASSUME status[messages[i].task] # "over" PROVE IsWhole(i)
      <4>1. status[messages[i].task] # "none"
        BY <1>3 DEF RowsInv, GoalsAreOne
      <4>2. messages[i].task = t
        BY <1>3, <1>5, <1>6, <3>1, <4>1 DEF IsActive, Types
      <4>3. Settled(t)
        BY <1>3 DEF RowsInv, BatchesAreAnswered, IsAt
      <4>. QED
        BY <2>1, <4>2, <4>3 DEF Settled
    <3>2. ASSUME messages[i].scope = "conversation", IsWhole(i)
          PROVE  \/ Group(i) \subseteq compaction.covers \cup rows
                 \/ Group(i) \subseteq compaction.omits \cup LeftOut(t)
      <4>1. CASE i <= compaction.through
        BY <2>1, <3>2, <4>1 DEF ContextInv, CutoffIsSafe
      <4>2. CASE i > compaction.through /\ i = GoalOf(t)
        <5>1. Group(GoalOf(t)) = {GoalOf(t)}
          BY <1>1, <1>3, GoalIsRow
        <5>2. GoalOf(t) \in LeftOut(t)
          BY <2>1, <4>2 DEF LeftOut, T
        <5>. QED
          BY <4>2, <5>1, <5>2
      <4>3. CASE i > compaction.through /\ i # GoalOf(t)
        <5>1. i \in NewHeads(t)
          BY <2>1, <3>2, <4>3 DEF NewHeads, Conversation, Wholes
        <5>2. PICK b \in NewHeads(t) : Group(b) \in worker[t].groups /\ T \in Group(b)
          BY <1>4 DEF rows
        <5>3. b \in Rows /\ IsHead(b) /\ b \in Nat /\ i \in Nat
          BY <1>6, <1>13
        <5>4. CASE i < b
          BY <1>1, <1>3, <1>4, <1>7, <5>1, <5>2, <5>4, BatchHasNoGap DEF rows
        <5>5. CASE i = b
          BY <5>2, <5>5 DEF rows
        <5>6. CASE b < i
          <6>1. T < i
            BY <1>3, <2>1, <5>2, <5>3, <5>6, GroupRows
          <6>. QED
            BY <1>4, <2>1, <5>3, <6>1
        <5>. QED
          BY <5>3, <5>4, <5>5, <5>6
      <4>. QED
        BY <1>6, <1>7, <4>1, <4>2, <4>3
    <3>. QED
      BY <3>1, <3>2
  <2>. QED
    BY <1>1, <1>8, <2>1, RowsStay DEF CutoffIsSafe
<1>16. WorkersAreCurrent'
  BY <1>1, <1>5, <1>9 DEF WorkersAreCurrent, IsAt, IsActive
<1>. QED
  BY <1>12, <1>14, <1>15, <1>16 DEF ContextInv

-----------------------------------------------------------------------------
(* The invariant, and what follows from it. *)

LEMMA ContextInit == Init => ContextInv
<1> SUFFICES ASSUME Init PROVE ContextInv
  OBVIOUS
<1>1. /\ messages = <<>> /\ status = [t \in Task |-> "none"] /\ compaction = NoCompaction
      /\ worker = [t \in Task |-> NoWorker]
  BY DEF Init
<1>2. Rows = {} /\ messages \in Seq(Message) /\ Len(messages) = 0
  BY <1>1 DEF Rows
<1>3. Types
  BY <1>1, <1>2, NoWorkerType DEF Types
<1>4. \A t \in Task : status[t] = "none" /\ ~IsActive(t)
  BY <1>1 DEF IsActive
<1>5. RowsInv
  BY <1>2, <1>3, <1>4
     DEF RowsInv, GoalsAreOne, IdsAreUsedOnce, ResultsFollow, BatchesInOrder,
         BatchesAreAnswered, IsAt
<1>6. SummaryIsOfConversation /\ CutoffIsSafe
  BY <1>1, <1>2, <1>4 DEF SummaryIsOfConversation, CutoffIsSafe, NoCompaction
<1>7. WorkersAreCurrent
  BY <1>4 DEF WorkersAreCurrent, IsAt
<1>. QED
  BY <1>5, <1>6, <1>7 DEF ContextInv

LEMMA ContextStep == ContextInv /\ [Next]_vars => ContextInv'
<1> SUFFICES ASSUME ContextInv, [Next]_vars PROVE ContextInv'
  OBVIOUS
<1>1. CASE UNCHANGED vars
  <2>1. UNCHANGED <<messages, compaction>> /\ UNCHANGED <<status, worker>>
    BY <1>1
  <2>2. Types'
    BY <2>1 DEF ContextInv, RowsInv, Types
  <2>3. StatusMoves /\ WorkMoves
    BY <2>1 DEF StatusMoves, WorkMoves, IsAt
  <2>4. \A u \in Task : IsAt(u, {"compressing", "ready"})' =>
                           status[u] = "running" /\ worker'[u] = worker[u]
    BY <2>1 DEF IsAt
  <2>. QED
    BY <2>1, <2>2, <2>3, <2>4, QuietKeeps
<1>2. ASSUME NEW t \in Task, CreateTask(t) PROVE ContextInv'
  BY <1>2, CreateTaskKeeps
<1>3. ASSUME NEW t \in Task, StartTaskRun(t) PROVE ContextInv'
  BY <1>3, StartTaskRunKeeps
<1>4. ASSUME NEW t \in Task, CancelTask(t) PROVE ContextInv'
  BY <1>4, CancelTaskKeeps
<1>5. ASSUME NEW t \in Task, WorkerDies(t) PROVE ContextInv'
  BY <1>5, WorkerMoves DEF WorkerDies
<1>6. ASSUME NEW t \in Task, SaveToolCalls(t) PROVE ContextInv'
  BY <1>6, SaveToolCallsKeeps
<1>7. ASSUME NEW t \in Task, CompleteTask(t) PROVE ContextInv'
  BY <1>7, CompleteTaskKeeps
<1>8. ASSUME NEW t \in Task, LosesRun(t) PROVE ContextInv'
  BY <1>8, WorkerMoves DEF LosesRun
<1>9. ASSUME NEW t \in Task, CompleteToolCall(t) PROVE ContextInv'
  BY <1>9, CompleteToolCallKeeps
<1>10. ASSUME NEW t \in Task, PauseForUser(t) PROVE ContextInv'
  BY <1>10, WorkerMoves DEF PauseForUser
<1>11. ASSUME NEW t \in Task, AnswerUserInput(t) PROVE ContextInv'
  BY <1>11, AnswerUserInputKeeps
<1>12. ASSUME NEW t \in Task, InputFits(t) PROVE ContextInv'
  BY <1>12, BuildKeeps DEF InputFits, Takes
<1>13. ASSUME NEW t \in Task, BeginCompaction(t) PROVE ContextInv'
  BY <1>13, BuildKeeps DEF BeginCompaction, MayCompact, Takes
<1>14. ASSUME NEW t \in Task, InputTooLarge(t) PROVE ContextInv'
  BY <1>14, WorkerMoves DEF InputTooLarge
<1>15. ASSUME NEW t \in Task, ReplaceCompaction(t) PROVE ContextInv'
  BY <1>15, ReplaceCompactionKeeps
<1>16. ASSUME NEW t \in Task, CompactionFails(t) PROVE ContextInv'
  BY <1>16, WorkerMoves DEF CompactionFails
<1>17. ASSUME NEW t \in Task, FailTask(t) PROVE ContextInv'
  BY <1>17, FailTaskKeeps
<1>. QED
  BY <1>1, <1>2, <1>3, <1>4, <1>5, <1>6, <1>7, <1>8, <1>9, <1>10, <1>11, <1>12,
     <1>13, <1>14, <1>15, <1>16, <1>17 DEF Next

(* The messages, the summary and what the workers of a session hold fit    *)
(* together, for any tasks, sizes and limits.                              *)
THEOREM ContextInvariance == Spec => []ContextInv
<1>1. Init => ContextInv
  BY ContextInit
<1>2. ContextInv /\ [Next]_vars => ContextInv'
  BY ContextStep
<1>. QED
  BY <1>1, <1>2, PTL DEF Spec

(* NothingElseIsLost: behind the cutoff, every whole group of the          *)
(* conversation is in the summary, but for goals that compactions of their *)
(* own tasks left out.                                                     *)
THEOREM SummaryHasNoGap == Spec => []NothingElseIsLost
<1>1. ContextInv => NothingElseIsLost
  BY NothingIsLost
<1>. QED
  BY <1>1, ContextInvariance, PTL

(* InputsAreWhole: the model sees the goal of its task, the conversation   *)
(* as text or as summary but for what compactions of earlier tasks left    *)
(* out of it, their own goals, and no call without its result.             *)
THEOREM ModelSeesWholeInput == Spec => []InputsAreWhole
<1>1. ContextInv => InputsAreWhole
  BY InputOfWorker DEF InputsAreWhole, IsAt
<1>. QED
  BY <1>1, ContextInvariance, PTL

(* CompactionAdvances: a summary is replaced only by the next version,     *)
(* which reaches further and covers all that it covered.                   *)
THEOREM SummariesAdvance == Spec => CompactionAdvances
<1> DEFINE Advances == compaction' # compaction =>
              /\ compaction'.version = compaction.version + 1
              /\ compaction'.through > compaction.through
              /\ compaction.covers \subseteq compaction'.covers
<1>1. ContextInv /\ [Next]_vars => [Advances]_vars
  <2> SUFFICES ASSUME ContextInv, Next, compaction' # compaction PROVE Advances
    OBVIOUS
  <2>1. PICK t \in Task : ReplaceCompaction(t)
    BY DEF Next, CreateTask, StartTaskRun, CancelTask, WorkerDies, SaveToolCalls, CompleteTask,
           LosesRun, CompleteToolCall, PauseForUser, AnswerUserInput, InputFits,
           BeginCompaction, InputTooLarge, CompactionFails, FailTask
  <2>2. IsAt(t, {"compressing"}) /\ Through(t) > compaction.through
    BY <2>1 DEF ReplaceCompaction, MayReplace, IsAt
  <2>3. worker[t].base = compaction
    BY <2>2, BatchThrough
  <2>4. PICK tokens \in 1..SummaryMaxTokens :
           compaction' = [version |-> compaction.version + 1, through |-> Through(t),
                          covers |-> worker[t].base.covers \cup UNION worker[t].groups,
                          tokens |-> tokens,
                          omits |-> worker[t].base.omits \cup LeftOut(t)]
    BY <2>1 DEF ReplaceCompaction, SummarySizes
  <2>. QED
    BY <2>2, <2>3, <2>4
<1>. QED
  BY <1>1, ContextInvariance, PTL DEF Spec, CompactionAdvances
==============================================================================
