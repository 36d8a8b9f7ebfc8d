------------------------- MODULE PolicyStoreProofs -------------------------
(***************************************************************************)
(* Proofs about the stored policy, for any sets of profiles, rules and     *)
(* threads and for any limit of the positions.                             *)
(***************************************************************************)
EXTENDS PolicyStore, FunctionTheorems, FiniteSetTheorems, TLAPS

(***************************************************************************)
(* Sets in the order of numbers given to their elements.                   *)
(***************************************************************************)
Below(S, pos, r) == {s \in S : pos[s] < pos[r]}

Rank(S, pos, r) == Cardinality(Below(S, pos, r))

Ranked(S, pos) ==
  [i \in 1..Cardinality(S) |-> CHOOSE r \in S : Rank(S, pos, r) = i - 1]

Numbered(S, pos) ==
  /\ IsFiniteSet(S)
  /\ \A r \in S : pos[r] \in Nat
  /\ \A r, s \in S : r # s => pos[r] # pos[s]

(* A higher number means a higher rank, and ranks are below the size of    *)
(* the set.                                                                *)
LEMMA RankGrows ==
  ASSUME NEW S, NEW pos, Numbered(S, pos)
  PROVE  /\ \A r \in S : Rank(S, pos, r) \in 0..(Cardinality(S) - 1)
         /\ \A r, s \in S : pos[r] < pos[s] => Rank(S, pos, r) < Rank(S, pos, s)
<1>1. IsFiniteSet(S) /\ \A r \in S : pos[r] \in Nat
  BY DEF Numbered
<1>2. Cardinality(S) \in Nat
  BY <1>1, FS_CardinalityType
<1>3. ASSUME NEW r \in S
      PROVE  /\ IsFiniteSet(Below(S, pos, r)) /\ Rank(S, pos, r) \in Nat
             /\ Rank(S, pos, r) < Cardinality(S)
  <2> DEFINE B == Below(S, pos, r)
  <2>1. B \in SUBSET S /\ r \notin B
    BY <1>1 DEF Below
  <2>2. IsFiniteSet(B) /\ Cardinality(B) <= Cardinality(S)
        /\ (Cardinality(S) = Cardinality(B) => S = B)
    BY <1>1, <2>1, FS_Subset
  <2>3. Cardinality(B) \in Nat
    BY <2>2, FS_CardinalityType
  <2>4. Cardinality(B) # Cardinality(S)
    BY <2>1, <2>2
  <2> QED
    BY <1>2, <2>2, <2>3, <2>4 DEF Rank
<1>4. ASSUME NEW r \in S, NEW s \in S, pos[r] < pos[s]
      PROVE  Rank(S, pos, r) < Rank(S, pos, s)
  <2> DEFINE B == Below(S, pos, r)  C == Below(S, pos, s)
  <2>1. B \in SUBSET C
    BY <1>1, <1>4 DEF Below
  <2>2. r \in C /\ r \notin B
    BY <1>1, <1>4 DEF Below
  <2>3. IsFiniteSet(C) /\ Cardinality(C) \in Nat /\ Cardinality(B) \in Nat
    BY <1>3 DEF Rank
  <2>4. Cardinality(B) <= Cardinality(C) /\ (Cardinality(C) = Cardinality(B) => C = B)
    BY <2>1, <2>3, FS_Subset
  <2>5. Cardinality(C) # Cardinality(B)
    BY <2>2, <2>4
  <2> QED
    BY <2>3, <2>4, <2>5 DEF Rank
<1> QED
  BY <1>2, <1>3, <1>4

(* Each element is found at its rank, and nowhere else.                    *)
LEMMA RankedIsAnOrder ==
  ASSUME NEW S, NEW pos, Numbered(S, pos)
  PROVE  /\ Cardinality(S) \in Nat
         /\ Ranked(S, pos) \in [1..Cardinality(S) -> S]
         /\ \A i \in 1..Cardinality(S) : Rank(S, pos, Ranked(S, pos)[i]) = i - 1
         /\ \A r \in S : \E i \in 1..Cardinality(S) : Ranked(S, pos)[i] = r
<1> DEFINE n == Cardinality(S)
           rank == [r \in S |-> Rank(S, pos, r) + 1]
<1>1. IsFiniteSet(S) /\ \A r \in S : pos[r] \in Nat
  BY DEF Numbered
<1>2. n \in Nat
  BY <1>1, FS_CardinalityType
<1> HIDE DEF n
<1>3. \A r \in S : Rank(S, pos, r) \in 0..(n - 1)
  BY RankGrows DEF n
<1>4. \A r, s \in S : pos[r] < pos[s] => Rank(S, pos, r) < Rank(S, pos, s)
  BY RankGrows
<1>5. \A r, s \in S : Rank(S, pos, r) = Rank(S, pos, s) => r = s
  <2> SUFFICES ASSUME NEW r \in S, NEW s \in S, r # s
               PROVE  Rank(S, pos, r) # Rank(S, pos, s)
    OBVIOUS
  <2>1. pos[r] # pos[s] /\ pos[r] \in Nat /\ pos[s] \in Nat
    BY DEF Numbered
  <2>2. pos[r] < pos[s] \/ pos[s] < pos[r]
    BY <2>1
  <2>3. Rank(S, pos, r) \in Nat /\ Rank(S, pos, s) \in Nat
    BY <1>2, <1>3
  <2> QED
    BY <1>4, <2>2, <2>3
<1>6. rank \in [S -> 1..n]
  BY <1>2, <1>3
<1>7. rank \in Injection(S, 1..n)
  <2>1. \A r, s \in S : rank[r] = rank[s] => r = s
    BY <1>2, <1>3, <1>5
  <2> QED
    BY <1>6, <2>1 DEF Injection, IsInjective
<1>8. IsFiniteSet(1..n) /\ Cardinality(1..n) = n
  BY <1>2, FS_Interval
<1>9. rank \in Surjection(S, 1..n)
  BY <1>7, <1>8, FS_Injection DEF n
<1>10. \A i \in 1..n : \E r \in S : rank[r] = i
  BY <1>9 DEF Surjection
<1>11. \A i \in 1..n : \E r \in S : Rank(S, pos, r) = i - 1
  <2> SUFFICES ASSUME NEW i \in 1..n PROVE \E r \in S : Rank(S, pos, r) = i - 1
    OBVIOUS
  <2>1. PICK r \in S : rank[r] = i
    BY <1>10
  <2>2. Rank(S, pos, r) + 1 = i /\ Rank(S, pos, r) \in Int
    BY <1>2, <1>3, <2>1
  <2> QED
    BY <2>2
<1>12. Ranked(S, pos) = [i \in 1..n |-> CHOOSE r \in S : Rank(S, pos, r) = i - 1]
  BY DEF Ranked, n
<1>13. \A i \in 1..n : Ranked(S, pos)[i] \in S /\ Rank(S, pos, Ranked(S, pos)[i]) = i - 1
  BY <1>11, <1>12
<1>14. Ranked(S, pos) \in [1..n -> S]
  BY <1>12, <1>13
<1>15. ASSUME NEW r \in S
       PROVE  \E i \in 1..n : Ranked(S, pos)[i] = r
  <2>1. Rank(S, pos, r) + 1 \in 1..n /\ Rank(S, pos, r) \in Int
    BY <1>2, <1>3
  <2>2. Rank(S, pos, Ranked(S, pos)[Rank(S, pos, r) + 1]) = Rank(S, pos, r)
    BY <1>13, <2>1
  <2> QED
    BY <1>5, <1>13, <2>1, <2>2
<1> QED
  BY <1>2, <1>13, <1>14, <1>15 DEF n

(* The order rises.                                                        *)
LEMMA RankedRises ==
  ASSUME NEW S, NEW pos, Numbered(S, pos),
         NEW i \in 1..Cardinality(S), NEW j \in 1..Cardinality(S), i < j
  PROVE  pos[Ranked(S, pos)[i]] < pos[Ranked(S, pos)[j]]
<1> DEFINE r == Ranked(S, pos)[i]  s == Ranked(S, pos)[j]
<1>1. r \in S /\ s \in S /\ Rank(S, pos, r) = i - 1 /\ Rank(S, pos, s) = j - 1
  BY RankedIsAnOrder
<1> HIDE DEF r, s
<1>2. pos[r] \in Nat /\ pos[s] \in Nat /\ (r # s => pos[r] # pos[s])
  BY <1>1 DEF Numbered
<1>3. Cardinality(S) \in Nat
  BY RankedIsAnOrder
<1>4. r # s
  BY <1>1, <1>3
<1>5. ~(pos[s] < pos[r])
  <2> SUFFICES ASSUME pos[s] < pos[r] PROVE FALSE
    OBVIOUS
  <2>1. Rank(S, pos, s) < Rank(S, pos, r)
    BY <1>1, RankGrows
  <2> QED
    BY <1>1, <1>3, <2>1
<1>6. pos[r] < pos[s]
  BY <1>2, <1>4, <1>5
<1> QED
  BY <1>6 DEF r, s

(* Whatever lists a set with rising numbers is its order.                  *)
LEMMA OnlyOneOrder ==
  ASSUME NEW S, NEW pos, Numbered(S, pos), NEW n \in Nat, NEW g \in [1..n -> S],
         \A r \in S : \E i \in 1..n : g[i] = r,
         \A i, j \in 1..n : i < j => pos[g[i]] < pos[g[j]]
  PROVE  Cardinality(S) = n /\ Ranked(S, pos) = g
<1>1. \A i \in 1..n : g[i] \in S /\ pos[g[i]] \in Nat
  BY DEF Numbered
<1>2. \A i, j \in 1..n : i # j => g[i] # g[j]
  <2> SUFFICES ASSUME NEW i \in 1..n, NEW j \in 1..n, i # j PROVE g[i] # g[j]
    OBVIOUS
  <2>1. i < j \/ j < i
    OBVIOUS
  <2> QED
    BY <1>1, <2>1
<1>3. Cardinality(S) = n
  <2>1. g \in Bijection(1..n, S)
    BY <1>2 DEF Bijection, Injection, IsInjective, Surjection
  <2> QED
    BY <2>1, FS_CountingElements DEF ExistsBijection
<1>4. ASSUME NEW i \in 1..n PROVE Rank(S, pos, g[i]) = i - 1
  <2> DEFINE m == i - 1
             B == Below(S, pos, g[i])
             h == [j \in 1..m |-> g[j]]
  <2>1. m \in Nat /\ \A j \in 1..m : j \in 1..n /\ j < i
    OBVIOUS
  <2>2. \A j \in 1..m : g[j] \in B
    BY <1>1, <2>1 DEF Below
  <2>3. ASSUME NEW s \in B PROVE \E j \in 1..m : g[j] = s
    <3>1. s \in S /\ pos[s] < pos[g[i]]
      BY DEF Below
    <3>2. PICK j \in 1..n : g[j] = s
      BY <3>1
    <3>3. ~(i < j) /\ i # j
      BY <1>1, <3>1, <3>2
    <3> QED
      BY <3>2, <3>3
  <2>4. h \in [1..m -> B]
    BY <2>2
  <2>5. \A j, k \in 1..m : j # k => h[j] # h[k]
    BY <1>2, <2>1
  <2>6. \A s \in B : \E j \in 1..m : h[j] = s
    BY <2>3
  <2> HIDE DEF h, B, m
  <2>7. h \in Bijection(1..m, B)
    BY <2>4, <2>5, <2>6 DEF Bijection, Injection, IsInjective, Surjection
  <2>8. Cardinality(B) = m
    BY <2>1, <2>7, FS_CountingElements DEF ExistsBijection
  <2> QED
    BY <2>8 DEF B, m, Rank
<1>5. /\ Ranked(S, pos) \in [1..n -> S]
      /\ \A i \in 1..n : Rank(S, pos, Ranked(S, pos)[i]) = i - 1
  <2>1. /\ Ranked(S, pos) \in [1..Cardinality(S) -> S]
        /\ \A i \in 1..Cardinality(S) : Rank(S, pos, Ranked(S, pos)[i]) = i - 1
    BY RankedIsAnOrder
  <2> QED
    BY <1>3, <2>1, Zenon
<1>6. ASSUME NEW i \in 1..n PROVE Ranked(S, pos)[i] = g[i]
  <2> DEFINE r == Ranked(S, pos)[i]
  <2>1. r \in S /\ Rank(S, pos, r) = i - 1
    BY <1>5
  <2>2. PICK j \in 1..n : g[j] = r
    BY <2>1
  <2>3. Rank(S, pos, r) = j - 1
    BY <1>4, <2>2
  <2>4. i = j
    BY <2>1, <2>3
  <2> QED
    BY <2>2, <2>4
<1> HIDE DEF Ranked
<1> QED
  BY <1>3, <1>5, <1>6

(* The order depends on the numbers of the elements only.                  *)
LEMMA SameNumbersSameOrder ==
  ASSUME NEW S, NEW pos, NEW new, Numbered(S, pos), \A r \in S : new[r] = pos[r]
  PROVE  Numbered(S, new) /\ Ranked(S, new) = Ranked(S, pos)
<1> DEFINE n == Cardinality(S)  g == Ranked(S, pos)
<1>1. Numbered(S, new)
  BY DEF Numbered
<1>2. n \in Nat /\ g \in [1..n -> S] /\ \A r \in S : \E i \in 1..n : g[i] = r
  BY RankedIsAnOrder
<1>3. \A i, j \in 1..n : i < j => pos[g[i]] < pos[g[j]]
  BY RankedRises
<1> HIDE DEF n, g
<1>4. \A i, j \in 1..n : i < j => new[g[i]] < new[g[j]]
  BY <1>2, <1>3
<1>5. Ranked(S, new) = g
  BY <1>1, <1>2, <1>4, OnlyOneOrder
<1> QED
  BY <1>1, <1>5 DEF g

(***************************************************************************)
(* The invariant.                                                          *)
(***************************************************************************)
Step == {"idle", "create find name", "create", "rename find name", "rename",
         "delete find", "delete count", "delete", "add find", "add",
         "begin", "shift", "assign"}

StoreTyped ==
  /\ profiles \in [Profile -> [name : Name \cup {NoName}, default : Action]]
  /\ rules \in [Rule -> [profile : Profile \cup {NoProfile}, position : Nat,
                         content : Content \cup {NoContent}]]
  /\ working \in [Rule -> Nat]
  /\ at \in [Actor -> Step]
  /\ arg \in [Actor -> [profile : Profile \cup {NoProfile}, name : Name \cup {NoName},
                        ordered : Seq(Rule)]]

(* A profile that exists has a name; ids that are in use are spent.        *)
ProfileRow(f) == Exists(f) => profiles[f].name \in Name /\ f \in spent

(* A rule belongs to a profile that exists, below the limit.               *)
RuleRow(r) ==
  rules[r] # NoRule =>
    /\ rules[r].profile \in Profile /\ Exists(rules[r].profile)
    /\ rules[r].position < PositionLimit
    /\ rules[r].content \in Content
    /\ r \in spent

(* UNIQUE (profile_id, position) *)
DistinctPositions ==
  \A r, s \in Rule :
    /\ r # s /\ rules[r].profile = rules[s].profile /\ rules[r].profile \in Profile
    => rules[r].position # rules[s].position

(* A command knows what it is about.                                       *)
Called(a) ==
  /\ at[a] \in {"create find name", "create", "rename find name", "rename"} => arg[a].name \in Name
  /\ at[a] \notin {"idle", "create find name", "create"} => arg[a].profile \in Profile
  /\ at[a] \in {"begin", "shift", "assign"} =>
       \A i, j \in 1..Len(arg[a].ordered) : i # j => arg[a].ordered[i] # arg[a].ordered[j]

(* The mutex of the connection.                                            *)
OneTransaction == \A a, b \in Actor : InTransaction(a) /\ InTransaction(b) => a = b

(* The first n rules of the list have their new positions, the others of   *)
(* the profile are out of the way.                                         *)
Renumbered(a, n) ==
  /\ \A i \in 1..n : /\ arg[a].ordered[i] \in RulesOf(arg[a].profile)
                     /\ working[arg[a].ordered[i]] = i - 1
  /\ \A r \in RulesOf(arg[a].profile) :
       (\A i \in 1..n : arg[a].ordered[i] # r)
         => working[r] = rules[r].position + PositionShift

(* How far a transaction has got.                                          *)
Underway(a) ==
  InTransaction(a) =>
    /\ Len(arg[a].ordered) = Cardinality(RulesOf(arg[a].profile))
    /\ \A r \in Rule : rules[r].profile # arg[a].profile => working[r] = rules[r].position
    /\ at[a] = "shift" =>
         \A r \in RulesOf(arg[a].profile) :
           working[r] \in {rules[r].position, rules[r].position + PositionShift}
    /\ at[a] = "assign" => \E n \in 0..Len(arg[a].ordered) : Renumbered(a, n)

RowsInv ==
  /\ \A f \in Profile : ProfileRow(f)
  /\ \A r \in Rule : RuleRow(r)
  /\ DistinctPositions

IInv ==
  /\ StoreTyped
  /\ RowsInv
  /\ \A a \in Actor : Called(a)
  /\ OneTransaction
  /\ \A a \in Actor : Underway(a)

(* The rules of a profile are numbered by their positions, and fewer than  *)
(* the limit: positions are distinct numbers below it.                     *)
LEMMA RulesNumbered ==
  ASSUME StoreTyped, RowsInv, NEW f \in Profile
  PROVE  /\ Numbered(RulesOf(f), Positions)
         /\ Cardinality(RulesOf(f)) \in Nat /\ Cardinality(RulesOf(f)) <= PositionLimit
<1> DEFINE S == RulesOf(f)  below == 0..(PositionLimit - 1)
           pos == [r \in S |-> rules[r].position]
<1>1. \A r \in Rule : rules[r].position \in Nat
  BY DEF StoreTyped
<1>2. ASSUME NEW r \in S PROVE r \in Rule /\ rules[r].profile = f /\ rules[r].position < PositionLimit
  <2>1. r \in Rule /\ rules[r].profile = f
    BY DEF RulesOf
  <2>2. rules[r] # NoRule
    BY <2>1, NoneAssumption DEF NoRule
  <2>3. RuleRow(r)
    BY <2>1 DEF RowsInv
  <2> QED
    BY <2>1, <2>2, <2>3 DEF RuleRow
<1>3. \A r, s \in S : r # s => rules[r].position # rules[s].position
  BY <1>2 DEF RowsInv, DistinctPositions
<1>4. PositionLimit \in Nat
  BY LimitAssumption
<1>5. \A r \in S : rules[r].position \in below
  BY <1>1, <1>2, <1>4
<1>6. pos \in Injection(S, below)
  <2>1. pos \in [S -> below]
    BY <1>5
  <2>2. \A r, s \in S : pos[r] = pos[s] => r = s
    BY <1>3
  <2> QED
    BY <2>1, <2>2 DEF Injection, IsInjective
<1>7. IsFiniteSet(below) /\ Cardinality(below) = PositionLimit
  BY <1>4, LimitAssumption, FS_Interval
<1>8. IsFiniteSet(S) /\ Cardinality(S) <= Cardinality(below)
  BY <1>6, <1>7, FS_Injection
<1>9. Cardinality(S) \in Nat
  BY <1>8, FS_CardinalityType
<1>10. \A r \in S : Positions[r] = rules[r].position
  BY <1>2 DEF Positions
<1> QED
  BY <1>1, <1>2, <1>3, <1>7, <1>8, <1>9, <1>10 DEF Numbered

(* The control of a command.                                               *)
LEMMA Locals ==
  ASSUME StoreTyped, RowsInv, NEW a \in Actor, Called(a), ActorStep(a)
  PROVE  /\ at' \in [Actor -> Step]
         /\ arg' \in [Actor -> [profile : Profile \cup {NoProfile}, name : Name \cup {NoName},
                                ordered : Seq(Rule)]]
         /\ \A b \in Actor \ {a} : at'[b] = at[b] /\ arg'[b] = arg[b]
         /\ Called(a)'
<1> DEFINE Arg == [profile : Profile \cup {NoProfile}, name : Name \cup {NoName}, ordered : Seq(Rule)]
           Good(step, x) ==
             /\ step \in Step /\ x \in Arg
             /\ step \in {"create find name", "create", "rename find name", "rename"} => x.name \in Name
             /\ step \notin {"idle", "create find name", "create"} => x.profile \in Profile
             /\ step \in {"begin", "shift", "assign"} =>
                  \A i, j \in 1..Len(x.ordered) : i # j => x.ordered[i] # x.ordered[j]
<1>1. at \in [Actor -> Step] /\ arg \in [Actor -> Arg]
  BY DEF StoreTyped
<1>2. Good(at[a], arg[a])
  BY <1>1 DEF Called
<1>3. NoArg \in Arg
  BY DEF NoArg
<1>a. ASSUME NEW n \in Name, NEW x, x = [NoArg EXCEPT !.name = n]
      PROVE  Good("create find name", x)
  <2>1. x = [profile |-> NoProfile, name |-> n, ordered |-> << >>]
    BY <1>a DEF NoArg
  <2>2. x \in Arg /\ x.name = n
    BY <2>1
  <2> QED
    BY <2>2 DEF Step
<1>b. ASSUME NEW f \in Profile, NEW n \in Name,
             NEW x, x = [NoArg EXCEPT !.profile = f, !.name = n]
      PROVE  Good("rename find name", x)
  <2> DEFINE y == [NoArg EXCEPT !.profile = f]
  <2>1. y = [profile |-> f, name |-> NoName, ordered |-> << >>]
    BY DEF NoArg
  <2>2. x = [y EXCEPT !.name = n]
    BY <1>b
  <2> HIDE DEF y
  <2>3. x = [profile |-> f, name |-> n, ordered |-> << >>]
    BY <2>1, <2>2
  <2>4. x \in Arg /\ x.name = n /\ x.profile = f
    BY <2>3
  <2> QED
    BY <2>4 DEF Step
<1>c. ASSUME NEW f \in Profile, NEW x, x = [NoArg EXCEPT !.profile = f]
      PROVE  Good("delete find", x) /\ Good("add find", x)
  <2>1. x = [profile |-> f, name |-> NoName, ordered |-> << >>]
    BY <1>c DEF NoArg
  <2>2. x \in Arg /\ x.profile = f
    BY <2>1
  <2> QED
    BY <2>2 DEF Step
<1>4. ASSUME NEW step, NEW x, Good(step, x),
             at' = [at EXCEPT ![a] = step], arg' = [arg EXCEPT ![a] = x]
      PROVE  /\ at' \in [Actor -> Step] /\ arg' \in [Actor -> Arg]
             /\ \A b \in Actor \ {a} : at'[b] = at[b] /\ arg'[b] = arg[b]
             /\ Called(a)'
  <2>1. at' \in [Actor -> Step] /\ arg' \in [Actor -> Arg]
    BY <1>1, <1>4
  <2>2. at'[a] = step /\ arg'[a] = x
    BY <1>1, <1>4
  <2>3. \A b \in Actor \ {a} : at'[b] = at[b] /\ arg'[b] = arg[b]
    BY <1>1, <1>4
  <2>4. Called(a)'
    <3>1. (at[a] \in {"create find name", "create", "rename find name", "rename"} => arg[a].name \in Name)'
      BY <1>4, <2>2
    <3>2. (at[a] \notin {"idle", "create find name", "create"} => arg[a].profile \in Profile)'
      BY <1>4, <2>2
    <3>3. (at[a] \in {"begin", "shift", "assign"} =>
             \A i, j \in 1..Len(arg[a].ordered) : i # j => arg[a].ordered[i] # arg[a].ordered[j])'
      BY <1>4, <2>2, Zenon
    <3> QED
      BY <3>1, <3>2, <3>3 DEF Called
  <2> QED
    BY <2>1, <2>3, <2>4
<1>5. ASSUME Return(a) PROVE \E step, x : Good(step, x) /\ at' = [at EXCEPT ![a] = step]
                                          /\ arg' = [arg EXCEPT ![a] = x]
  <2>1. Good("idle", NoArg)
    BY <1>3 DEF Step
  <2> QED
    BY <1>5, <2>1 DEF Return
<1>6. ASSUME NEW step, Proceed(a, step), Good(step, arg[a])
      PROVE  \E y, x : Good(y, x) /\ at' = [at EXCEPT ![a] = y] /\ arg' = [arg EXCEPT ![a] = x]
  <2>1. arg' = [arg EXCEPT ![a] = arg[a]]
    BY <1>1, <1>6 DEF Proceed
  <2> QED
    BY <1>6, <2>1 DEF Proceed
<1>7. ASSUME UNCHANGED <<at, arg>>
      PROVE  \E y, x : Good(y, x) /\ at' = [at EXCEPT ![a] = y] /\ arg' = [arg EXCEPT ![a] = x]
  <2>1. at' = [at EXCEPT ![a] = at[a]] /\ arg' = [arg EXCEPT ![a] = arg[a]]
    BY <1>1, <1>7
  <2> QED
    BY <1>2, <2>1
<1>8. ASSUME NEW step, NEW x, Call(a, step, x), Good(step, x)
      PROVE  \E y, z : Good(y, z) /\ at' = [at EXCEPT ![a] = y] /\ arg' = [arg EXCEPT ![a] = z]
  BY <1>8 DEF Call
<1>9. ASSUME NEW from, NEW ok, NEW to, Check(a, from, ok, to), Good(from, arg[a]) => Good(to, arg[a])
      PROVE  \E y, z : Good(y, z) /\ at' = [at EXCEPT ![a] = y] /\ arg' = [arg EXCEPT ![a] = z]
  BY <1>2, <1>5, <1>6, <1>9 DEF Check
<1> SUFFICES \E y, z : Good(y, z) /\ at' = [at EXCEPT ![a] = y] /\ arg' = [arg EXCEPT ![a] = z]
  <2>1. PICK y, z : Good(y, z) /\ at' = [at EXCEPT ![a] = y] /\ arg' = [arg EXCEPT ![a] = z]
    OBVIOUS
  <2> HIDE DEF Good
  <2> QED
    BY <1>4, <2>1, Zenon
<1>10. CASE CallCreateProfile(a)
  <2>1. PICK n \in Name : Call(a, "create find name", [NoArg EXCEPT !.name = n])
    BY <1>10 DEF CallCreateProfile
  <2>2. Good("create find name", [NoArg EXCEPT !.name = n])
    BY <1>a, Zenon
  <2> HIDE DEF Good
  <2> QED
    BY <1>8, <2>1, <2>2
<1>11. CASE CallRename(a)
  <2>1. PICK f \in Profile, n \in Name :
          Call(a, "rename find name", [NoArg EXCEPT !.profile = f, !.name = n])
    BY <1>11 DEF CallRename
  <2>2. Good("rename find name", [NoArg EXCEPT !.profile = f, !.name = n])
    BY <1>b, Zenon
  <2> HIDE DEF Good
  <2> QED
    BY <1>8, <2>1, <2>2
<1>12. CASE CallDeleteProfile(a) \/ CallAddRule(a)
  <2>1. PICK f \in Profile : \/ Call(a, "delete find", [NoArg EXCEPT !.profile = f])
                             \/ Call(a, "add find", [NoArg EXCEPT !.profile = f])
    BY <1>12 DEF CallDeleteProfile, CallAddRule
  <2>2. /\ Good("delete find", [NoArg EXCEPT !.profile = f])
        /\ Good("add find", [NoArg EXCEPT !.profile = f])
    BY <1>c, Zenon
  <2> HIDE DEF Good
  <2> QED
    BY <1>8, <2>1, <2>2
<1>13. CASE CallReorder(a)
  <2>0. PICK f \in Profile : \E order \in SetToSeqs(RulesOf(f)) :
          Call(a, "begin", [NoArg EXCEPT !.profile = f, !.ordered = order])
    BY <1>13 DEF CallReorder
  <2>1. PICK order \in SetToSeqs(RulesOf(f)) :
          Call(a, "begin", [NoArg EXCEPT !.profile = f, !.ordered = order])
    BY <2>0
  <2> DEFINE n == Cardinality(RulesOf(f))
  <2>2. n \in Nat
    BY RulesNumbered
  <2>3. order \in [1..n -> RulesOf(f)] /\ \A i, j \in 1..n : i # j => order[i] # order[j]
    BY DEF SetToSeqs
  <2> HIDE DEF n
  <2>4. order \in [1..n -> Rule]
    BY <2>3 DEF RulesOf
  <2>5. order \in Seq(Rule) /\ Len(order) = n
    BY <2>2, <2>4
  <2>6. Good("begin", [NoArg EXCEPT !.profile = f, !.ordered = order])
    BY <2>3, <2>5 DEF NoArg, Step
  <2> HIDE DEF Good
  <2> QED
    BY <1>8, <2>1, <2>6
<1>14. CASE CreateFindName(a) \/ RenameFindName(a) \/ DeleteFind(a) \/ DeleteCount(a) \/ AddFind(a)
  <2>1. \E from, ok, to : /\ Check(a, from, ok, to)
                          /\ <<from, to>> \in {<<"create find name", "create">>,
                                <<"rename find name", "rename">>, <<"delete find", "delete count">>,
                                <<"delete count", "delete">>, <<"add find", "add">>}
    BY <1>14 DEF CreateFindName, RenameFindName, DeleteFind, DeleteCount, AddFind
  <2>2. PICK from, ok, to : /\ Check(a, from, ok, to)
                            /\ <<from, to>> \in {<<"create find name", "create">>,
                                <<"rename find name", "rename">>, <<"delete find", "delete count">>,
                                <<"delete count", "delete">>, <<"add find", "add">>}
    BY <2>1
  <2>3. Good(from, arg[a]) => Good(to, arg[a])
    BY <2>2 DEF Step
  <2> HIDE DEF Good
  <2> QED
    BY <1>9, <2>2, <2>3
<1>15. CASE Create(a) \/ Rename(a) \/ DeleteProfile(a) \/ AddRule(a) \/ Fail(a) \/ Commit(a)
  BY <1>5, <1>15 DEF Create, Rename, DeleteProfile, AddRule, Fail, Commit, End
<1>16. CASE SetDefaultAction(a) \/ UpdateRule(a) \/ DeleteRule(a)
  BY <1>7, <1>16 DEF SetDefaultAction, UpdateRule, DeleteRule
<1>17. CASE Begin(a)
  <2>1. Return(a) \/ Proceed(a, "shift")
    BY <1>17 DEF Begin
  <2>2. Good("shift", arg[a])
    BY <1>2, <1>17 DEF Begin, Step
  <2> HIDE DEF Good
  <2> QED
    BY <1>5, <1>6, <2>1, <2>2
<1>18. CASE Shift(a)
  <2>1. UNCHANGED <<at, arg>> \/ Proceed(a, "assign")
    BY <1>18 DEF Shift
  <2>2. Good("assign", arg[a])
    BY <1>2, <1>18 DEF Shift, Step
  <2> HIDE DEF Good
  <2> QED
    BY <1>6, <1>7, <2>1, <2>2
<1>19. CASE Assign(a)
  <2>1. UNCHANGED <<at, arg>> \/ Return(a)
    BY <1>19 DEF Assign, End
  <2> HIDE DEF Good
  <2> QED
    BY <1>5, <1>7, <2>1
<1> HIDE DEF Good
<1> QED
  BY <1>10, <1>11, <1>12, <1>13, <1>14, <1>15, <1>16, <1>17, <1>18, <1>19 DEF ActorStep

ProfileRows == [name : Name \cup {NoName}, default : Action]
RuleRows == [profile : Profile \cup {NoProfile}, position : Nat, content : Content \cup {NoContent}]

(* Accesses that leave the tables alone.                                   *)
Looks(a) ==
  \/ CallCreateProfile(a) \/ CreateFindName(a)
  \/ CallRename(a) \/ RenameFindName(a)
  \/ CallDeleteProfile(a) \/ DeleteFind(a) \/ DeleteCount(a)
  \/ CallAddRule(a) \/ AddFind(a)
  \/ CallReorder(a) \/ Begin(a) \/ Shift(a) \/ Assign(a) \/ Fail(a)

LEMMA LooksLeaveTables ==
  ASSUME NEW a \in Actor, Looks(a)
  PROVE  UNCHANGED <<tables, spent>>
BY DEF Looks, CallCreateProfile, CreateFindName, CallRename, RenameFindName, CallDeleteProfile,
       DeleteFind, DeleteCount, CallAddRule, AddFind, CallReorder, Begin, Shift, Assign, Fail,
       Call, Check, tables

(* Who writes to the tables has the connection, and is in no transaction   *)
(* but the one that commits.                                               *)
Writes(a) ==
  \/ Create(a) \/ Rename(a) \/ SetDefaultAction(a) \/ DeleteProfile(a)
  \/ AddRule(a) \/ UpdateRule(a) \/ DeleteRule(a)

(* Every step of a command reads, writes its tables once, or commits a     *)
(* reordering.                                                             *)
LEMMA LooksOrWrites ==
  ASSUME NEW a \in Actor, ActorStep(a)
  PROVE  Looks(a) \/ Writes(a) \/ Commit(a)
BY DEF ActorStep, Looks, Writes

LEMMA TablesTyped ==
  ASSUME StoreTyped, RowsInv, NEW a \in Actor, Called(a), ActorStep(a)
  PROVE  profiles' \in [Profile -> ProfileRows] /\ rules' \in [Rule -> RuleRows]
<1>1. profiles \in [Profile -> ProfileRows] /\ rules \in [Rule -> RuleRows] /\ working \in [Rule -> Nat]
  BY DEF StoreTyped, ProfileRows, RuleRows
<1>2. CASE Looks(a)
  BY <1>1, <1>2, LooksLeaveTables DEF tables
<1>3. CASE Create(a)
  <2>1. arg[a].name \in Name
    BY <1>3 DEF Create, Called
  <2>2. [name |-> arg[a].name, default |-> "deny"] \in ProfileRows
    BY <2>1 DEF ProfileRows, Action
  <2> QED
    BY <1>1, <1>3, <2>2 DEF Create
<1>4. CASE Rename(a)
  <2> DEFINE f == arg[a].profile  row == [profiles[f] EXCEPT !.name = arg[a].name]
  <2>1. arg[a].name \in Name /\ f \in Profile
    BY <1>4 DEF Rename, Called
  <2>2. row \in ProfileRows
    BY <1>1, <2>1 DEF ProfileRows
  <2>3. profiles' = profiles \/ profiles' = [profiles EXCEPT ![f] = row]
    BY <1>4 DEF Rename
  <2>4. rules' = rules
    BY <1>4 DEF Rename
  <2> HIDE DEF row
  <2> QED
    BY <1>1, <2>2, <2>3, <2>4
<1>5. CASE SetDefaultAction(a)
  <2>1. PICK f \in Profile, action \in Action : profiles' = [profiles EXCEPT ![f].default = action]
    BY <1>5 DEF SetDefaultAction
  <2> DEFINE row == [profiles[f] EXCEPT !.default = action]
  <2>2. row \in ProfileRows
    BY <1>1 DEF ProfileRows
  <2>3. profiles' = [profiles EXCEPT ![f] = row]
    BY <2>1
  <2>4. rules' = rules
    BY <1>5 DEF SetDefaultAction
  <2> HIDE DEF row
  <2> QED
    BY <1>1, <2>2, <2>3, <2>4
<1>6. NoRow \in ProfileRows /\ NoRule \in RuleRows
  BY DEF NoRow, NoRule, ProfileRows, RuleRows, Action
<1>7. CASE DeleteProfile(a)
  BY <1>1, <1>6, <1>7 DEF DeleteProfile
<1>8. CASE AddRule(a)
  <2>1. arg[a].profile \in Profile /\ profiles' = profiles
    BY <1>8 DEF AddRule, Called
  <2>2. rules' = rules \/
        \E n \in 0..PositionLimit, r \in Rule, c \in Content :
          rules' = [rules EXCEPT ![r] = [profile |-> arg[a].profile, position |-> n, content |-> c]]
    BY <1>8 DEF AddRule, Unused
  <2>3. \A n \in 0..PositionLimit, c \in Content :
          [profile |-> arg[a].profile, position |-> n, content |-> c] \in RuleRows
    BY <2>1, LimitAssumption DEF RuleRows
  <2> QED
    BY <1>1, <2>1, <2>2, <2>3
<1>9. CASE UpdateRule(a)
  <2>1. PICK r \in Rule, c \in Content : rules' = [rules EXCEPT ![r].content = c]
    BY <1>9 DEF UpdateRule
  <2> DEFINE row == [rules[r] EXCEPT !.content = c]
  <2>2. row \in RuleRows
    BY <1>1 DEF RuleRows
  <2>3. rules' = [rules EXCEPT ![r] = row]
    BY <2>1
  <2>4. profiles' = profiles
    BY <1>9 DEF UpdateRule
  <2> HIDE DEF row
  <2> QED
    BY <1>1, <2>2, <2>3, <2>4
<1>10. CASE DeleteRule(a)
  BY <1>1, <1>6, <1>10 DEF DeleteRule
<1>11. CASE Commit(a)
  <2>1. \A r \in Rule : [rules[r] EXCEPT !.position = working[r]] \in RuleRows /\ rules[r] \in RuleRows
    BY <1>1 DEF RuleRows
  <2> QED
    BY <1>1, <1>11, <2>1 DEF Commit
<1> QED
  BY <1>2, <1>3, <1>4, <1>5, <1>7, <1>8, <1>9, <1>10, <1>11, LooksOrWrites DEF Writes

(* The transaction works on numbers.                                       *)
LEMMA WorkingTyped ==
  ASSUME StoreTyped, RowsInv, NEW a \in Actor, ActorStep(a)
  PROVE  working' \in [Rule -> Nat]
<1>1. /\ working \in [Rule -> Nat] /\ NoWork \in [Rule -> Nat] /\ Positions \in [Rule -> Nat]
      /\ PositionShift \in Nat
  BY LimitAssumption DEF StoreTyped, NoWork, Positions
<1>2. CASE Writes(a)
  BY <1>1, <1>2 DEF Writes, Create, Rename, SetDefaultAction, DeleteProfile, AddRule, UpdateRule, DeleteRule
<1>3. CASE Looks(a)
  <2>1. CASE Shift(a)
    BY <1>1, <2>1 DEF Shift
  <2>2. CASE Assign(a)
    <3>1. Cardinality(Assigned(a)) \in Nat
      <4>1. Len(arg[a].ordered) \in Nat
        <5>1. arg[a].ordered \in Seq(Rule)
          BY DEF StoreTyped
        <5> QED
          BY <5>1
      <4>2. IsFiniteSet(1..Len(arg[a].ordered)) /\ Assigned(a) \in SUBSET (1..Len(arg[a].ordered))
        BY <4>1, FS_Interval DEF Assigned
      <4> QED
        BY <4>2, FS_Subset, FS_CardinalityType
    <3> DEFINE k == Cardinality(Assigned(a)) + 1
               r == arg[a].ordered[k]
    <3>3. IF r \in RulesOf(arg[a].profile)
            THEN working' = [working EXCEPT ![r] = k - 1] /\ UNCHANGED <<at, arg>>
            ELSE End(a)
      BY <2>2, Zenon DEF Assign
    <3>4. k - 1 \in Nat
      BY <3>1
    <3> HIDE DEF k
    <3>5. working' = NoWork \/ working' = [working EXCEPT ![r] = k - 1]
      BY <3>3 DEF End
    <3> QED
      BY <1>1, <3>4, <3>5
  <2>3. CASE Begin(a) \/ Fail(a)
    BY <1>1, <2>3 DEF Begin, Fail
  <2>4. CASE ~(Shift(a) \/ Assign(a) \/ Begin(a) \/ Fail(a))
    BY <1>1, <1>3, <2>4 DEF Looks, CallCreateProfile, CreateFindName, CallRename, RenameFindName,
       CallDeleteProfile, DeleteFind, DeleteCount, CallAddRule, AddFind, CallReorder, Call, Check
  <2> QED
    BY <2>1, <2>2, <2>3, <2>4
<1>4. CASE Commit(a)
  BY <1>1, <1>4 DEF Commit, End
<1> QED
  BY <1>2, <1>3, <1>4, LooksOrWrites

(* A transaction that has renumbered n rules knows it: the rules that wait *)
(* for their number are out of reach of the new numbers.                   *)
LEMMA AssignedSoFar ==
  ASSUME StoreTyped, RowsInv, NEW a \in Actor, Called(a), Underway(a), at[a] = "assign",
         NEW n \in 0..Len(arg[a].ordered), Renumbered(a, n)
  PROVE  /\ Assigned(a) = 1..n /\ Cardinality(Assigned(a)) = n
         /\ Len(arg[a].ordered) \in Nat /\ Len(arg[a].ordered) <= PositionShift
         /\ \A i \in 1..Len(arg[a].ordered) : arg[a].ordered[i] \in Rule
         /\ arg[a].profile \in Profile
<1> DEFINE f == arg[a].profile  list == arg[a].ordered  S == RulesOf(f)
<1>1. f \in Profile /\ \A i, j \in 1..Len(list) : i # j => list[i] # list[j]
  BY DEF Called
<1>2. list \in Seq(Rule)
  BY DEF StoreTyped
<1>3. Len(list) \in Nat /\ \A i \in 1..Len(list) : list[i] \in Rule
  BY <1>2
<1>4. Len(list) = Cardinality(S)
  BY DEF Underway, InTransaction, TransactionStep
<1>5. Cardinality(S) <= PositionLimit
  BY <1>1, RulesNumbered
<1>6. Len(list) <= PositionShift /\ PositionShift \in Nat
  BY <1>3, <1>4, <1>5, LimitAssumption
<1>7. /\ \A i \in 1..n : list[i] \in S /\ working[list[i]] = i - 1
      /\ \A r \in S : (\A i \in 1..n : list[i] # r) => working[r] = rules[r].position + PositionShift
  BY DEF Renumbered
<1>8. \A r \in Rule : rules[r].position \in Nat
  BY DEF StoreTyped
<1> HIDE DEF list, f, S
<1>9. ASSUME NEW i \in 1..Len(list), i > n, \A j \in 1..i : list[j] \in S /\ working[list[j]] = j - 1
      PROVE  FALSE
  <2> DEFINE j == n + 1
  <2>1. j \in 1..i /\ j \in 1..Len(list) /\ n \in Nat
    BY <1>3, <1>9
  <2>2. list[j] \in S /\ working[list[j]] = n
    BY <1>9, <2>1
  <2>3. \A m \in 1..n : list[m] # list[j]
    BY <1>1, <1>3, <2>1
  <2>4. working[list[j]] = rules[list[j]].position + PositionShift
    BY <1>7, <2>2, <2>3
  <2>5. rules[list[j]].position \in Nat
    BY <1>3, <1>8, <2>1
  <2> HIDE DEF j
  <2>6. n >= PositionShift
    BY <1>6, <2>2, <2>4, <2>5, <2>1
  <2> QED
    BY <1>3, <1>6, <1>9, <2>6
<1>10. Assigned(a) = {i \in 1..Len(list) : \A j \in 1..i : list[j] \in S /\ working[list[j]] = j - 1}
  BY DEF Assigned, list, S, f
<1>11. n \in Nat /\ n <= Len(list)
  BY <1>3 DEF list
<1>12. \A i \in 1..n : i \in 1..Len(list) /\ \A j \in 1..i : j \in 1..n
  BY <1>3, <1>11
<1>13. Assigned(a) = 1..n
  <2>1. ASSUME NEW i \in Assigned(a) PROVE i \in 1..n
    BY <1>3, <1>9, <1>10, <1>11, <2>1
  <2>2. ASSUME NEW i \in 1..n PROVE i \in Assigned(a)
    BY <1>7, <1>10, <1>12
  <2> QED
    BY <2>1, <2>2
<1>14. Cardinality(1..n) = n
  BY <1>11, FS_Interval
<1> QED
  BY <1>1, <1>3, <1>6, <1>13, <1>14 DEF list, f

(* At a commit, the list holds the rules of the profile, each once, and    *)
(* they are numbered as they are listed.                                   *)
LEMMA AtCommit ==
  ASSUME StoreTyped, RowsInv, NEW a \in Actor, Called(a), Underway(a), at[a] = "assign",
         Cardinality(Assigned(a)) = Len(arg[a].ordered)
  PROVE  LET S == RulesOf(arg[a].profile)  list == arg[a].ordered  n == Cardinality(S) IN
         /\ arg[a].profile \in Profile
         /\ n \in Nat /\ n <= PositionLimit
         /\ list \in [1..n -> S]
         /\ \A r \in S : \E i \in 1..n : list[i] = r
         /\ \A i \in 1..n : working[list[i]] = i - 1
<1> DEFINE S == RulesOf(arg[a].profile)  list == arg[a].ordered  n == Cardinality(S)
<1>1. PICK m \in 0..Len(list) : Renumbered(a, m)
  BY DEF Underway, InTransaction, TransactionStep
<1>2. m = Len(list) /\ arg[a].profile \in Profile
  BY <1>1, AssignedSoFar
<1>3. Len(list) = n
  BY DEF Underway, InTransaction, TransactionStep
<1>4. n \in Nat /\ n <= PositionLimit /\ IsFiniteSet(S)
  BY <1>2, RulesNumbered DEF Numbered
<1>5. list \in Seq(Rule)
  BY DEF StoreTyped
<1>6. \A i \in 1..n : list[i] \in S /\ working[list[i]] = i - 1
  BY <1>1, <1>2, <1>3 DEF Renumbered
<1>7. list \in [1..n -> S]
  BY <1>3, <1>5, <1>6
<1>8. \A i, j \in 1..n : i # j => list[i] # list[j]
  BY <1>3 DEF Called
<1>9. IsFiniteSet(1..n) /\ Cardinality(1..n) = n
  BY <1>4, FS_Interval
<1>10. list \in Injection(1..n, S)
  BY <1>7, <1>8 DEF Injection, IsInjective
<1>11. list \in Surjection(1..n, S)
  <2> HIDE DEF list, S
  <2> QED
    BY <1>4, <1>9, <1>10, FS_Injection
<1>12. \A r \in S : \E i \in 1..n : list[i] = r
  BY <1>11 DEF Surjection
<1> HIDE DEF list, S, n
<1>13. /\ n \in Nat /\ n <= PositionLimit /\ list \in [1..n -> S]
       /\ \A r \in S : \E i \in 1..n : list[i] = r
       /\ \A i \in 1..n : working[list[i]] = i - 1
  BY <1>4, <1>6, <1>7, <1>12
<1> QED
  BY <1>2, <1>13 DEF list, S, n

(* What a write does to a row.                                             *)
LEMMA RowsKept ==
  ASSUME StoreTyped, RowsInv, NEW a \in Actor, Called(a), Underway(a), ActorStep(a)
  PROVE  RowsInv'
<1>1. profiles \in [Profile -> ProfileRows] /\ rules \in [Rule -> RuleRows]
  BY DEF StoreTyped, ProfileRows, RuleRows
<1>2. /\ \A f \in Profile : ProfileRow(f)
      /\ \A r \in Rule : RuleRow(r)
      /\ DistinctPositions
  BY DEF RowsInv
<1>3. CASE UNCHANGED <<profiles, rules, spent>>
  BY <1>2, <1>3 DEF RowsInv, ProfileRow, RuleRow, DistinctPositions, Exists
<1>4. ASSUME UNCHANGED rules, spent \subseteq spent',
             \A f \in Profile : Exists(f) => Exists(f)',
             \A f \in Profile : ProfileRow(f)'
      PROVE  RowsInv'
  BY <1>1, <1>2, <1>4 DEF RowsInv, RuleRow, DistinctPositions
<1>5. CASE Create(a)
  <2>1. CASE UNCHANGED <<profiles, spent>>
    BY <1>3, <1>5, <2>1 DEF Create
  <2>2. CASE \E f \in Unused(Profile) :
               /\ profiles' = [profiles EXCEPT ![f] = [name |-> arg[a].name, default |-> "deny"]]
               /\ spent' = spent \cup {f}
    <3>1. PICK f \in Unused(Profile) :
               /\ profiles' = [profiles EXCEPT ![f] = [name |-> arg[a].name, default |-> "deny"]]
               /\ spent' = spent \cup {f}
      BY <2>2
    <3>2. f \in Profile /\ arg[a].name \in Name
      BY <1>5 DEF Unused, Create, Called
    <3>3. profiles'[f] = [name |-> arg[a].name, default |-> "deny"]
      BY <1>1, <3>1, <3>2
    <3>4. profiles'[f].name \in Name /\ Exists(f)'
      BY <3>2, <3>3, NoneAssumption DEF Exists, NoRow
    <3>5. \A g \in Profile \ {f} : profiles'[g] = profiles[g]
      BY <1>1, <3>1
    <3> QED
      BY <1>2, <1>4, <1>5, <3>1, <3>4, <3>5 DEF Create, ProfileRow, Exists
  <2> QED
    BY <1>5, <2>1, <2>2 DEF Create
<1>6. CASE Rename(a)
  <2> DEFINE f == arg[a].profile  row == [profiles[f] EXCEPT !.name = arg[a].name]
  <2>1. f \in Profile /\ arg[a].name \in Name
    BY <1>6 DEF Rename, Called
  <2>2. CASE ~(Exists(f) /\ NameFree(arg[a].name, f))
    BY <1>3, <1>6, <2>2 DEF Rename
  <2>3. CASE Exists(f) /\ NameFree(arg[a].name, f)
    <3>1. profiles' = [profiles EXCEPT ![f] = row] /\ UNCHANGED <<rules, spent>>
      BY <1>6, <2>3 DEF Rename
    <3>2. row.name = arg[a].name
      BY <1>1, <2>1 DEF ProfileRows
    <3> HIDE DEF row
    <3>3. profiles'[f] = row /\ \A g \in Profile \ {f} : profiles'[g] = profiles[g]
      BY <1>1, <2>1, <3>1
    <3>4. profiles'[f].name \in Name /\ profiles'[f] # NoRow
      BY <2>1, <3>2, <3>3, NoneAssumption DEF Exists, NoRow
    <3> QED
      <4>1. \A g \in Profile : Exists(g) => Exists(g)'
        BY <3>3, <3>4 DEF Exists
      <4>2. \A g \in Profile : ProfileRow(g)'
        BY <1>2, <2>3, <3>1, <3>3, <3>4 DEF ProfileRow, Exists
      <4> QED
        BY <1>4, <3>1, <4>1, <4>2
  <2> QED
    BY <2>2, <2>3
<1>7. CASE SetDefaultAction(a)
  <2>1. PICK f \in Profile, action \in Action :
          Exists(f) /\ profiles' = [profiles EXCEPT ![f].default = action]
    BY <1>7 DEF SetDefaultAction
  <2> DEFINE row == [profiles[f] EXCEPT !.default = action]
  <2>2. profiles' = [profiles EXCEPT ![f] = row] /\ UNCHANGED <<rules, spent>>
    BY <1>7, <2>1 DEF SetDefaultAction
  <2>3. row.name = profiles[f].name
    BY <1>1 DEF ProfileRows
  <2> HIDE DEF row
  <2>4. profiles'[f] = row /\ \A g \in Profile \ {f} : profiles'[g] = profiles[g]
    BY <1>1, <2>2
  <2>5. profiles[f].name \in Name
    BY <1>2, <2>1 DEF ProfileRow
  <2>6. profiles'[f].name \in Name /\ Exists(f)'
    BY <2>3, <2>4, <2>5, NoneAssumption DEF Exists, NoRow
  <2> QED
    BY <1>2, <1>4, <2>1, <2>2, <2>4, <2>6 DEF ProfileRow, Exists
<1>8. CASE DeleteProfile(a)
  <2> DEFINE f == arg[a].profile
  <2>1. f \in Profile
    BY <1>8 DEF DeleteProfile, Called
  <2>2. /\ profiles' = [profiles EXCEPT ![f] = NoRow] /\ spent' = spent
        /\ rules' = [r \in Rule |-> IF rules[r].profile = f THEN NoRule ELSE rules[r]]
    BY <1>8 DEF DeleteProfile
  <2>3. profiles'[f] = NoRow /\ \A g \in Profile \ {f} : profiles'[g] = profiles[g]
    BY <1>1, <2>1, <2>2
  <2>4. \A g \in Profile : ProfileRow(g)'
    BY <1>2, <2>2, <2>3 DEF ProfileRow, Exists
  <2>5. NoRule.profile \notin Profile
    BY NoneAssumption DEF NoRule
  <2>6. \A r \in Rule : \/ rules'[r] = NoRule
                        \/ rules'[r] = rules[r] /\ rules[r].profile # f
    BY <2>2
  <2>7. ASSUME NEW r \in Rule PROVE RuleRow(r)'
    <3>1. CASE rules'[r] = NoRule
      BY <3>1 DEF RuleRow
    <3>2. CASE rules'[r] = rules[r] /\ rules[r].profile # f
      BY <1>2, <2>2, <2>3, <3>2 DEF RuleRow, Exists
    <3> QED
      BY <2>6, <3>1, <3>2
  <2>8. DistinctPositions'
    BY <1>2, <2>5, <2>6 DEF DistinctPositions
  <2> QED
    BY <2>4, <2>7, <2>8 DEF RowsInv
<1>9. CASE AddRule(a)
  <2> DEFINE f == arg[a].profile
  <2>1. f \in Profile /\ profiles' = profiles
    BY <1>9 DEF AddRule, Called
  <2>2. CASE UNCHANGED <<rules, spent>>
    BY <1>3, <2>1, <2>2
  <2>3. CASE \E n \in 0..PositionLimit : \E r \in Unused(Rule), c \in Content :
               /\ IsNextPosition(f, n) /\ Exists(f) /\ n < PositionLimit
               /\ rules' = [rules EXCEPT ![r] = [profile |-> f, position |-> n, content |-> c]]
               /\ spent' = spent \cup {r}
    <3>1. PICK n \in 0..PositionLimit : \E r \in Unused(Rule), c \in Content :
               /\ IsNextPosition(f, n) /\ Exists(f) /\ n < PositionLimit
               /\ rules' = [rules EXCEPT ![r] = [profile |-> f, position |-> n, content |-> c]]
               /\ spent' = spent \cup {r}
      BY <2>3
    <3>2. PICK r \in Unused(Rule), c \in Content :
               /\ IsNextPosition(f, n) /\ Exists(f) /\ n < PositionLimit
               /\ rules' = [rules EXCEPT ![r] = [profile |-> f, position |-> n, content |-> c]]
               /\ spent' = spent \cup {r}
      BY <3>1
    <3>3. r \in Rule
      BY DEF Unused
    <3>4. /\ rules'[r].profile = f /\ rules'[r].position = n /\ rules'[r].content = c
          /\ \A s \in Rule \ {r} : rules'[s] = rules[s]
      BY <1>1, <3>2, <3>3
    <3>5. \A s \in Rule : rules[s].profile = f => rules[s].position < n
      BY <3>2 DEF IsNextPosition, RulesOf
    <3>6. n \in Nat /\ \A s \in Rule : rules[s].position \in Nat
      BY <1>1, LimitAssumption DEF RuleRows
    <3>7. DistinctPositions'
      <4> SUFFICES ASSUME NEW s \in Rule, NEW t \in Rule, s # t,
                          rules'[s].profile = rules'[t].profile, rules'[s].profile \in Profile
                   PROVE  rules'[s].position # rules'[t].position
        BY DEF DistinctPositions
      <4>1. CASE s # r /\ t # r
        BY <1>2, <3>4, <4>1 DEF DistinctPositions
      <4>2. CASE s = r
        BY <3>4, <3>5, <3>6, <4>2
      <4>3. CASE t = r
        BY <3>4, <3>5, <3>6, <4>3
      <4> QED
        BY <4>1, <4>2, <4>3
    <3>8. \A s \in Rule : RuleRow(s)'
      BY <1>2, <2>1, <3>2, <3>4 DEF RuleRow, Exists
    <3>9. \A g \in Profile : ProfileRow(g)'
      BY <1>2, <2>1, <3>2 DEF ProfileRow, Exists
    <3> QED
      BY <3>7, <3>8, <3>9 DEF RowsInv
  <2> QED
    BY <1>9, <2>2, <2>3 DEF AddRule
<1>10. CASE UpdateRule(a)
  <2>1. PICK r \in Rule, c \in Content : rules[r] # NoRule /\ rules' = [rules EXCEPT ![r].content = c]
    BY <1>10 DEF UpdateRule
  <2> DEFINE row == [rules[r] EXCEPT !.content = c]
  <2>2. rules' = [rules EXCEPT ![r] = row] /\ UNCHANGED <<profiles, spent>>
    BY <1>10, <2>1 DEF UpdateRule
  <2>3. row.profile = rules[r].profile /\ row.position = rules[r].position /\ row.content = c
    BY <1>1 DEF RuleRows
  <2> HIDE DEF row
  <2>4. rules'[r] = row /\ \A s \in Rule \ {r} : rules'[s] = rules[s]
    BY <1>1, <2>2
  <2>5. \A s \in Rule : RuleRow(s)'
    BY <1>2, <2>1, <2>2, <2>3, <2>4 DEF RuleRow, Exists
  <2>6. DistinctPositions'
    BY <1>2, <2>3, <2>4 DEF DistinctPositions
  <2>7. \A f \in Profile : ProfileRow(f)'
    BY <1>2, <2>2 DEF ProfileRow, Exists
  <2> QED
    BY <2>5, <2>6, <2>7 DEF RowsInv
<1>11. CASE DeleteRule(a)
  <2>1. PICK r \in Rule : rules' = [rules EXCEPT ![r] = NoRule]
    BY <1>11 DEF DeleteRule
  <2>2. UNCHANGED <<profiles, spent>>
    BY <1>11 DEF DeleteRule
  <2>3. rules'[r] = NoRule /\ \A s \in Rule \ {r} : rules'[s] = rules[s]
    BY <1>1, <2>1
  <2>4. NoRule.profile \notin Profile
    BY NoneAssumption DEF NoRule
  <2>5. \A s \in Rule : RuleRow(s)'
    BY <1>2, <2>2, <2>3 DEF RuleRow, Exists
  <2>6. DistinctPositions'
    BY <1>2, <2>3, <2>4 DEF DistinctPositions
  <2>7. \A f \in Profile : ProfileRow(f)'
    BY <1>2, <2>2 DEF ProfileRow, Exists
  <2> QED
    BY <2>5, <2>6, <2>7 DEF RowsInv
<1>12. CASE Commit(a)
  <2> DEFINE f == arg[a].profile  S == RulesOf(f)  list == arg[a].ordered  n == Cardinality(S)
  <2>1. /\ f \in Profile /\ n \in Nat /\ n <= PositionLimit /\ list \in [1..n -> S]
        /\ \A r \in S : \E i \in 1..n : list[i] = r
        /\ \A i \in 1..n : working[list[i]] = i - 1
    BY <1>12, AtCommit DEF Commit
  <2>2. /\ rules' = [r \in Rule |-> IF r \in S THEN [rules[r] EXCEPT !.position = working[r]] ELSE rules[r]]
        /\ UNCHANGED <<profiles, spent>>
    BY <1>12 DEF Commit
  <2>3. \A r \in Rule : r \in S <=> rules[r].profile = f
    BY DEF RulesOf
  <2> HIDE DEF S, n, list, f
  <2>4. ASSUME NEW r \in Rule
        PROVE  /\ rules'[r].profile = rules[r].profile /\ rules'[r].content = rules[r].content
               /\ r \in S => rules'[r].position = working[r]
               /\ r \notin S => rules'[r] = rules[r]
    BY <1>1, <2>2 DEF RuleRows
  <2>5. \A r \in S : working[r] \in 0..(n - 1)
    BY <2>1
  <2>6. \A r, s \in S : r # s => working[r] # working[s]
    <3> SUFFICES ASSUME NEW r \in S, NEW s \in S, working[r] = working[s] PROVE r = s
      OBVIOUS
    <3>1. PICK i \in 1..n, j \in 1..n : list[i] = r /\ list[j] = s
      BY <2>1
    <3>2. i - 1 = j - 1
      BY <2>1, <3>1
    <3> QED
      BY <2>1, <3>1, <3>2
  <2>7. DistinctPositions'
    <3> SUFFICES ASSUME NEW s \in Rule, NEW t \in Rule, s # t,
                        rules'[s].profile = rules'[t].profile, rules'[s].profile \in Profile
                 PROVE  rules'[s].position # rules'[t].position
      BY DEF DistinctPositions
    <3>1. rules[s].profile = rules[t].profile /\ rules[s].profile \in Profile
      BY <2>4
    <3>2. CASE s \in S
      BY <2>3, <2>4, <2>6, <3>1, <3>2
    <3>3. CASE s \notin S
      BY <1>2, <2>3, <2>4, <3>1, <3>3 DEF DistinctPositions
    <3> QED
      BY <3>2, <3>3
  <2>8. ASSUME NEW r \in Rule PROVE RuleRow(r)'
    <3>1. CASE r \in S
      <4>1. rules[r] # NoRule
        BY <2>1, <2>3, <3>1, NoneAssumption DEF NoRule
      <4>2. working[r] < PositionLimit
        BY <2>1, <2>5, <3>1, LimitAssumption
      <4> QED
        BY <1>2, <2>2, <2>4, <3>1, <4>1, <4>2 DEF RuleRow, Exists
    <3>2. CASE r \notin S
      BY <1>2, <2>2, <2>4, <3>2 DEF RuleRow, Exists
    <3> QED
      BY <3>1, <3>2
  <2>9. \A g \in Profile : ProfileRow(g)'
    BY <1>2, <2>2 DEF ProfileRow, Exists
  <2> QED
    BY <2>7, <2>8, <2>9 DEF RowsInv
<1>13. CASE Looks(a)
  BY <1>3, <1>13, LooksLeaveTables DEF tables
<1> QED
  BY <1>5, <1>6, <1>7, <1>8, <1>9, <1>10, <1>11, <1>12, <1>13, LooksOrWrites DEF Writes

(* Only a command that begins a transaction gets into one, and whoever     *)
(* begins, writes or commits finds nobody else in one.                     *)
LEMMA Entering ==
  ASSUME StoreTyped, NEW a \in Actor, ActorStep(a)
  PROVE  /\ InTransaction(a)' => Begin(a) \/ Shift(a) \/ Assign(a)
         /\ Begin(a) \/ Writes(a) => Free
         /\ Shift(a) \/ Assign(a) \/ Commit(a) => InTransaction(a)
<1>1. at \in [Actor -> Step]
  BY DEF StoreTyped
<1>2. Begin(a) \/ Writes(a) => Free
  BY DEF Begin, Writes, Create, Rename, SetDefaultAction, DeleteProfile, AddRule, UpdateRule, DeleteRule
<1>3. Shift(a) \/ Assign(a) \/ Commit(a) => InTransaction(a)
  BY DEF Shift, Assign, Commit, InTransaction, TransactionStep
<1>4. CASE Begin(a) \/ Shift(a) \/ Assign(a)
  BY <1>2, <1>3, <1>4
<1>5. CASE Create(a) \/ Rename(a) \/ DeleteProfile(a) \/ AddRule(a) \/ Commit(a) \/ Fail(a)
  <2>1. at'[a] = "idle"
    BY <1>1, <1>5 DEF Create, Rename, DeleteProfile, AddRule, Commit, Fail, End, Return
  <2> QED
    BY <1>2, <1>3, <2>1 DEF InTransaction, TransactionStep
<1>6. CASE SetDefaultAction(a) \/ UpdateRule(a) \/ DeleteRule(a)
  <2>1. at'[a] = "idle"
    BY <1>6 DEF SetDefaultAction, UpdateRule, DeleteRule
  <2> QED
    BY <1>2, <1>3, <2>1 DEF InTransaction, TransactionStep
<1>7. CASE CallCreateProfile(a) \/ CallRename(a) \/ CallDeleteProfile(a) \/ CallAddRule(a) \/ CallReorder(a)
  <2>1. \E x : \/ Call(a, "create find name", x) \/ Call(a, "rename find name", x)
               \/ Call(a, "delete find", x) \/ Call(a, "add find", x) \/ Call(a, "begin", x)
    BY <1>7 DEF CallCreateProfile, CallRename, CallDeleteProfile, CallAddRule, CallReorder
  <2>2. at'[a] \in {"create find name", "rename find name", "delete find", "add find", "begin"}
    BY <1>1, <2>1 DEF Call
  <2> QED
    BY <1>2, <1>3, <2>2 DEF InTransaction, TransactionStep
<1>8. CASE CreateFindName(a) \/ RenameFindName(a) \/ DeleteFind(a) \/ DeleteCount(a) \/ AddFind(a)
  <2>1. at'[a] \in {"idle", "create", "rename", "delete count", "delete", "add"}
    BY <1>1, <1>8 DEF CreateFindName, RenameFindName, DeleteFind, DeleteCount, AddFind, Check,
       Proceed, Return
  <2> QED
    BY <1>2, <1>3, <2>1 DEF InTransaction, TransactionStep
<1> QED
  BY <1>4, <1>5, <1>6, <1>7, <1>8 DEF ActorStep

(* A transaction begins only when there is none (the connection's mutex).  *)
LEMMA OneTransactionKept ==
  ASSUME StoreTyped, RowsInv, OneTransaction, NEW a \in Actor, Called(a), ActorStep(a)
  PROVE  OneTransaction'
<1>1. \A b \in Actor \ {a} : InTransaction(b)' <=> InTransaction(b)
  BY Locals DEF InTransaction
<1>2. InTransaction(a)' => InTransaction(a) \/ Free
  BY Entering
<1> QED
  BY <1>1, <1>2 DEF OneTransaction, Free

(* While somebody is in a transaction, the steps of others change neither  *)
(* the tables nor the positions it works on.                               *)
LEMMA OthersWait ==
  ASSUME StoreTyped, RowsInv, OneTransaction, NEW a \in Actor, Called(a), ActorStep(a),
         NEW b \in Actor \ {a}, InTransaction(b)
  PROVE  UNCHANGED <<rules, working>> /\ at'[b] = at[b] /\ arg'[b] = arg[b]
<1>1. ~Free /\ ~InTransaction(a)
  BY DEF Free, OneTransaction
<1>2. Looks(a) /\ ~Begin(a) /\ ~Shift(a) /\ ~Assign(a)
  BY <1>1, Entering, LooksOrWrites
<1>3. rules' = rules
  BY <1>2, LooksLeaveTables DEF tables
<1>4. working' = working
  BY <1>1, <1>2 DEF Looks, CallCreateProfile, CreateFindName, CallRename, RenameFindName,
     CallDeleteProfile, DeleteFind, DeleteCount, CallAddRule, AddFind, CallReorder, Call, Check, Fail
<1> QED
  BY <1>3, <1>4, Locals

(* The steps of a transaction.                                             *)
LEMMA TransactionGoesOn ==
  ASSUME StoreTyped, RowsInv, NEW a \in Actor, Called(a), Underway(a), ActorStep(a),
         Begin(a) \/ Shift(a) \/ Assign(a)
  PROVE  Underway(a)'
<1> DEFINE f == arg[a].profile  list == arg[a].ordered  S == RulesOf(f)
<1>1. at \in [Actor -> Step] /\ working \in [Rule -> Nat] /\ \A r \in Rule : rules[r].position \in Nat
  BY DEF StoreTyped
<1>2. PositionLimit \in Nat /\ PositionShift \in Nat /\ PositionShift >= PositionLimit
  BY LimitAssumption
<1>3. rules' = rules
  BY LooksLeaveTables DEF Looks, tables
<1>4. f \in Profile /\ \A i, j \in 1..Len(list) : i # j => list[i] # list[j]
  BY DEF Called, Begin, Shift, Assign
<1>5. list \in Seq(Rule)
  BY DEF StoreTyped
<1>6. Len(list) \in Nat /\ \A i \in 1..Len(list) : list[i] \in Rule
  BY <1>5
<1>7. \A r \in Rule : r \in S <=> rules[r].profile = f
  BY DEF RulesOf
<1>8. \A r \in S : r \in Rule /\ rules[r].position < PositionLimit
  <2> SUFFICES ASSUME NEW r \in S PROVE r \in Rule /\ rules[r].position < PositionLimit
    OBVIOUS
  <2>1. r \in Rule /\ rules[r].profile = f
    BY DEF RulesOf
  <2>2. rules[r] # NoRule /\ RuleRow(r)
    BY <1>4, <2>1, NoneAssumption DEF NoRule, RowsInv
  <2> QED
    BY <2>1, <2>2 DEF RuleRow
<1>9. CASE at'[a] \notin TransactionStep
  BY <1>9 DEF Underway, InTransaction
<1>10. ASSUME at'[a] \in TransactionStep, arg'[a] = arg[a], Len(list) = Cardinality(S),
              \A r \in Rule : rules[r].profile # f => working'[r] = rules[r].position,
              at'[a] = "shift" => \A r \in S : working'[r] \in {rules[r].position, rules[r].position + PositionShift},
              at'[a] = "assign" =>
                \E n \in 0..Len(list) :
                  /\ \A i \in 1..n : list[i] \in S /\ working'[list[i]] = i - 1
                  /\ \A r \in S : (\A i \in 1..n : list[i] # r)
                                    => working'[r] = rules[r].position + PositionShift
       PROVE  Underway(a)'
  BY <1>3, <1>10 DEF Underway, Renumbered, RulesOf
<1>11. CASE Begin(a)
  <2>1. CASE Cardinality(S) # Len(list)
    BY <1>1, <1>9, <1>11, <2>1 DEF Begin, Return, TransactionStep
  <2>2. CASE Cardinality(S) = Len(list)
    <3>1. working' = Positions /\ at'[a] = "shift" /\ arg'[a] = arg[a]
      BY <1>1, <1>11, <2>2 DEF Begin, Proceed
    <3>2. \A r \in Rule : working'[r] = rules[r].position
      BY <3>1 DEF Positions
    <3> QED
      BY <1>8, <1>10, <2>2, <3>1, <3>2 DEF TransactionStep
  <2> QED
    BY <2>1, <2>2
<1>12. CASE Shift(a)
  <2>1. /\ Len(list) = Cardinality(S)
        /\ \A r \in Rule : rules[r].profile # f => working[r] = rules[r].position
        /\ \A r \in S : working[r] \in {rules[r].position, rules[r].position + PositionShift}
    BY <1>12 DEF Shift, Underway, InTransaction, TransactionStep
  <2>2. CASE Unshifted(f) = {}
    <3>1. at'[a] = "assign" /\ arg'[a] = arg[a] /\ working' = working
      BY <1>1, <1>12, <2>2 DEF Shift, Proceed
    <3>2. \A r \in S : ~(working[r] < PositionShift)
      BY <2>2 DEF Unshifted
    <3>3. \A r \in S : working[r] = rules[r].position + PositionShift
      BY <1>1, <1>2, <1>8, <2>1, <3>2
    <3>4. 0 \in 0..Len(list) /\ \A i \in 1..0 : FALSE
      BY <1>6
    <3> HIDE DEF list, S, f
    <3> QED
      BY <1>10, <2>1, <3>1, <3>3, <3>4 DEF TransactionStep
  <2>3. CASE Unshifted(f) # {}
    <3>1. PICK r \in Unshifted(f) : working' = [working EXCEPT ![r] = @ + PositionShift]
      BY <1>12, <2>3 DEF Shift
    <3>2. at'[a] = "shift" /\ arg'[a] = arg[a]
      BY <1>12, <2>3 DEF Shift
    <3>3. r \in S /\ r \in Rule /\ working[r] < PositionShift
      BY <1>8 DEF Unshifted
    <3>4. working[r] = rules[r].position
      BY <1>1, <1>2, <2>1, <3>3
    <3>5. working'[r] = rules[r].position + PositionShift
      BY <1>1, <3>1, <3>3, <3>4
    <3>6. \A s \in Rule \ {r} : working'[s] = working[s]
      BY <1>1, <3>1
    <3> HIDE DEF S, f, list
    <3> QED
      BY <1>7, <1>8, <1>10, <2>1, <3>2, <3>3, <3>5, <3>6 DEF TransactionStep
  <2> QED
    BY <2>2, <2>3
<1>13. CASE Assign(a)
  <2>1. at[a] = "assign" /\ Cardinality(Assigned(a)) < Len(list)
    BY <1>13 DEF Assign
  <2>2. /\ Len(list) = Cardinality(S)
        /\ \A r \in Rule : rules[r].profile # f => working[r] = rules[r].position
    BY <2>1 DEF Underway, InTransaction, TransactionStep
  <2>3. PICK n \in 0..Len(list) : Renumbered(a, n)
    BY <2>1 DEF Underway, InTransaction, TransactionStep
  <2>4. /\ \A i \in 1..n : list[i] \in S /\ working[list[i]] = i - 1
        /\ \A r \in S : (\A i \in 1..n : list[i] # r) => working[r] = rules[r].position + PositionShift
    BY <2>3 DEF Renumbered
  <2>5. Cardinality(Assigned(a)) = n
    BY <2>1, <2>3, AssignedSoFar
  <2> DEFINE k == Cardinality(Assigned(a)) + 1
             r == list[k]
  <2>6. IF r \in RulesOf(arg[a].profile)
          THEN working' = [working EXCEPT ![r] = k - 1] /\ UNCHANGED <<at, arg>>
          ELSE End(a)
    BY <1>13, Zenon DEF Assign
  <2>k. k = n + 1
    BY <2>5
  <2> HIDE DEF k
  <2>7. CASE r \notin S
    BY <1>1, <1>9, <2>6, <2>7 DEF End, Return, TransactionStep
  <2>8. CASE r \in S
    <3>1. n \in Nat /\ n < Len(list) /\ n + 1 \in 1..Len(list) /\ n + 1 \in 0..Len(list)
      BY <1>6, <2>1, <2>5
    <3>2. working' = [working EXCEPT ![r] = k - 1] /\ at'[a] = "assign" /\ arg'[a] = arg[a]
      BY <2>1, <2>6, <2>8
    <3>3. r \in Rule
      BY <1>8, <2>8
    <3>4. k - 1 = n
      BY <2>k, <3>1
    <3>5. working'[r] = n
      BY <1>1, <3>2, <3>3, <3>4
    <3>6. \A s \in Rule \ {r} : working'[s] = working[s]
      BY <1>1, <3>2
    <3>7. \A i \in 1..n : list[i] \in Rule \ {r}
      BY <1>4, <1>6, <2>k, <3>1
    <3>8. \A i \in 1..(n + 1) : list[i] \in S /\ working'[list[i]] = i - 1
      <4> SUFFICES ASSUME NEW i \in 1..(n + 1) PROVE list[i] \in S /\ working'[list[i]] = i - 1
        OBVIOUS
      <4>1. CASE i = n + 1
        BY <2>8, <2>k, <3>1, <3>5, <4>1
      <4>2. CASE i \in 1..n
        BY <2>4, <3>6, <3>7, <4>2
      <4>3. i = n + 1 \/ i \in 1..n
        BY <3>1
      <4> QED
        BY <4>1, <4>2, <4>3
    <3>9. ASSUME NEW s \in S, \A i \in 1..(n + 1) : list[i] # s
          PROVE  working'[s] = rules[s].position + PositionShift
      <4>1. n + 1 \in 1..(n + 1) /\ \A i \in 1..n : i \in 1..(n + 1)
        BY <3>1
      <4>2. s \in Rule \ {r}
        BY <1>8, <2>k, <3>9, <4>1
      <4> QED
        BY <2>4, <3>6, <3>9, <4>1, <4>2
    <3>10. \A s \in Rule : rules[s].profile # f => working'[s] = rules[s].position
      BY <1>7, <2>2, <2>8, <3>6
    <3> HIDE DEF list, S, f, r
    <3> QED
      BY <1>10, <2>2, <3>1, <3>2, <3>8, <3>9, <3>10 DEF TransactionStep
  <2> QED
    BY <2>7, <2>8
<1> QED
  BY <1>11, <1>12, <1>13

(***************************************************************************)
(* The invariant holds.                                                    *)
(***************************************************************************)
LEMMA Starts ==
  ASSUME Init PROVE IInv
<1>1. PICK f \in Profile, n \in Name :
        /\ profiles = [[g \in Profile |-> NoRow] EXCEPT ![f] = [name |-> n, default |-> "deny"]]
        /\ spent = {f}
  BY DEF Init
<1>2. /\ rules = [r \in Rule |-> NoRule] /\ working = NoWork
      /\ at = [a \in Actor |-> "idle"] /\ arg = [a \in Actor |-> NoArg]
  BY DEF Init
<1>3. NoArg \in [profile : Profile \cup {NoProfile}, name : Name \cup {NoName}, ordered : Seq(Rule)]
  BY DEF NoArg
<1>4. NoRow \in ProfileRows /\ NoRule \in RuleRows /\ [name |-> n, default |-> "deny"] \in ProfileRows
  BY DEF NoRow, NoRule, ProfileRows, RuleRows, Action
<1>5. StoreTyped
  <2>1. profiles \in [Profile -> ProfileRows]
    BY <1>1, <1>4
  <2>2. rules \in [Rule -> RuleRows] /\ working \in [Rule -> Nat]
    BY <1>2, <1>4 DEF NoWork
  <2> QED
    BY <1>2, <1>3, <2>1, <2>2 DEF StoreTyped, ProfileRows, RuleRows, Step
<1>6. RowsInv
  <2>1. \A g \in Profile : Exists(g) => g = f
    BY <1>1 DEF Exists
  <2>2. profiles[f].name = n
    BY <1>1
  <2>3. \A r \in Rule : rules[r] = NoRule
    BY <1>2
  <2>4. NoRule.profile \notin Profile
    BY NoneAssumption DEF NoRule
  <2> QED
    BY <1>1, <2>1, <2>2, <2>3, <2>4 DEF RowsInv, ProfileRow, RuleRow, DistinctPositions
<1>7. \A a \in Actor : at[a] = "idle"
  BY <1>2
<1> QED
  BY <1>5, <1>6, <1>7 DEF IInv, Called, OneTransaction, Underway, InTransaction, TransactionStep

LEMMA IInvStep ==
  ASSUME IInv, [Next]_vars PROVE IInv'
<1>1. CASE UNCHANGED vars
  <2>1. UNCHANGED <<profiles, rules, spent, working, at, arg>>
    BY <1>1 DEF vars, tables
  <2>2. StoreTyped'
    BY <2>1 DEF IInv, StoreTyped
  <2>3. RowsInv'
    BY <2>1 DEF IInv, RowsInv, ProfileRow, RuleRow, DistinctPositions, Exists
  <2>4. OneTransaction'
    BY <2>1 DEF IInv, OneTransaction, InTransaction
  <2>5. ASSUME NEW a \in Actor PROVE Called(a)' /\ Underway(a)'
    <3>1. Called(a) /\ Underway(a)
      BY DEF IInv
    <3>2. Called(a)'
      BY <2>1, <3>1 DEF Called
    <3>3. RulesOf(arg[a].profile)' = RulesOf(arg[a].profile)
      BY <2>1 DEF RulesOf
    <3>4. \A n : Renumbered(a, n)' <=> Renumbered(a, n)
      BY <2>1, <3>3 DEF Renumbered
    <3>5. Underway(a)'
      BY <2>1, <3>1, <3>3, <3>4 DEF Underway, InTransaction
    <3> QED
      BY <3>2, <3>5
  <2> QED
    BY <2>2, <2>3, <2>4, <2>5 DEF IInv
<1>2. ASSUME NEW a \in Actor, ActorStep(a) PROVE IInv'
  <2>1. /\ StoreTyped /\ RowsInv /\ OneTransaction /\ Called(a) /\ Underway(a)
        /\ \A b \in Actor : Called(b) /\ Underway(b)
    BY DEF IInv
  <2>2. /\ profiles' \in [Profile -> ProfileRows] /\ rules' \in [Rule -> RuleRows]
        /\ working' \in [Rule -> Nat]
    BY <1>2, <2>1, TablesTyped, WorkingTyped
  <2>3. StoreTyped'
    BY <1>2, <2>1, <2>2, Locals DEF StoreTyped, ProfileRows, RuleRows
  <2>4. RowsInv'
    BY <1>2, <2>1, RowsKept
  <2>5. OneTransaction'
    BY <1>2, <2>1, OneTransactionKept
  <2>6. \A b \in Actor : Called(b)'
    <3>1. ASSUME NEW b \in Actor \ {a} PROVE Called(b)'
      <4>1. at'[b] = at[b] /\ arg'[b] = arg[b] /\ Called(b)
        BY <1>2, <2>1, Locals
      <4> QED
        BY <4>1 DEF Called
    <3>2. Called(a)'
      BY <1>2, <2>1, Locals
    <3> QED
      BY <3>1, <3>2
  <2>7. Underway(a)'
    <3>1. CASE Begin(a) \/ Shift(a) \/ Assign(a)
      BY <1>2, <2>1, <3>1, TransactionGoesOn
    <3>2. CASE ~(Begin(a) \/ Shift(a) \/ Assign(a))
      BY <1>2, <2>1, <3>2, Entering DEF Underway
    <3> QED
      BY <3>1, <3>2
  <2>8. ASSUME NEW b \in Actor \ {a} PROVE Underway(b)'
    <3>1. CASE InTransaction(b)
      <4>1. UNCHANGED <<rules, working>> /\ at'[b] = at[b] /\ arg'[b] = arg[b]
        BY <1>2, <2>1, <3>1, OthersWait
      <4>2. Underway(b)
        BY <2>1
      <4>3. RulesOf(arg[b].profile)' = RulesOf(arg[b].profile)
        BY <4>1 DEF RulesOf
      <4>4. \A n : Renumbered(b, n)' <=> Renumbered(b, n)
        BY <4>1, <4>3 DEF Renumbered
      <4> QED
        BY <4>1, <4>2, <4>3, <4>4 DEF Underway, InTransaction
    <3>2. CASE ~InTransaction(b)
      BY <1>2, <2>1, <3>2, Locals DEF Underway, InTransaction
    <3> QED
      BY <3>1, <3>2
  <2> QED
    BY <2>3, <2>4, <2>5, <2>6, <2>7, <2>8 DEF IInv
<1> QED
  BY <1>1, <1>2 DEF Next

(* The store's invariant, in every state that commands can lead to.        *)
THEOREM Inductive == Spec => []IInv
<1> QED
  BY Starts, IInvStep, PTL DEF Spec

(***************************************************************************)
(* Positions during a reordering.                                          *)
(***************************************************************************)

(* No statement of a reordering violates UNIQUE (profile_id, position) or  *)
(* the CHECK on position: not one that shifts a row, not one that gives a  *)
(* rule its new position.                                                  *)
THEOREM ReorderingIsLegal == Spec => []ReorderKeepsConstraints
<1>1. ASSUME IInv PROVE ReorderKeepsConstraints
  <2> SUFFICES ASSUME NEW a \in Actor, InTransaction(a),
                      NEW f \in Profile, NEW r \in RulesOf(f), NEW s \in RulesOf(f)
               PROVE  /\ working[r] < PositionShift + PositionLimit
                      /\ r # s => working[r] # working[s]
    BY DEF ReorderKeepsConstraints, Free
  <2>1. StoreTyped /\ RowsInv /\ Called(a) /\ Underway(a)
    BY <1>1 DEF IInv
  <2>2. Numbered(RulesOf(f), Positions)
    BY <2>1, RulesNumbered
  <2>3. PositionLimit \in Nat /\ PositionShift \in Nat /\ PositionShift >= PositionLimit
    BY LimitAssumption
  <2>4. /\ r \in Rule /\ s \in Rule /\ rules[r].profile = f /\ rules[s].profile = f
        /\ Positions[r] = rules[r].position /\ Positions[s] = rules[s].position
    BY DEF RulesOf, Positions
  <2>5. /\ rules[r].position \in Nat /\ rules[s].position \in Nat
        /\ r # s => rules[r].position # rules[s].position
    BY <2>2, <2>4 DEF Numbered
  <2>6. rules[r].position < PositionLimit /\ rules[s].position < PositionLimit
    <3>1. rules[r] # NoRule /\ rules[s] # NoRule
      BY <2>4, NoneAssumption DEF NoRule
    <3> QED
      BY <2>1, <2>4, <3>1 DEF RowsInv, RuleRow
  <2>7. CASE f # arg[a].profile
    <3>1. working[r] = rules[r].position /\ working[s] = rules[s].position
      BY <2>1, <2>4, <2>7 DEF Underway
    <3> QED
      BY <2>3, <2>5, <2>6, <3>1
  <2>8. CASE f = arg[a].profile /\ at[a] = "shift"
    <3>1. /\ working[r] \in {rules[r].position, rules[r].position + PositionShift}
          /\ working[s] \in {rules[s].position, rules[s].position + PositionShift}
      BY <2>1, <2>8 DEF Underway
    <3> QED
      BY <2>3, <2>5, <2>6, <3>1
  <2>9. CASE f = arg[a].profile /\ at[a] = "assign"
    <3> DEFINE list == arg[a].ordered
    <3>1. PICK n \in 0..Len(list) : Renumbered(a, n)
      BY <2>1, <2>9 DEF Underway
    <3>2. Len(list) \in Nat /\ Len(list) <= PositionShift
      BY <2>1, <2>9, <3>1, AssignedSoFar
    <3>3. n \in Nat /\ n <= PositionShift
      BY <2>3, <3>2
    <3> HIDE DEF list
    <3>4. \A t \in RulesOf(f) : \/ working[t] = rules[t].position + PositionShift
                                \/ \E i \in 1..n : list[i] = t /\ working[t] = i - 1
      BY <2>9, <3>1 DEF Renumbered, list
    <3>5. /\ working[r] = rules[r].position + PositionShift \/ \E i \in 1..n : list[i] = r /\ working[r] = i - 1
          /\ working[s] = rules[s].position + PositionShift \/ \E i \in 1..n : list[i] = s /\ working[s] = i - 1
      BY <3>4
    <3> QED
      BY <2>3, <2>5, <2>6, <3>3, <3>5
  <2> QED
    BY <2>7, <2>8, <2>9 DEF InTransaction, TransactionStep
<1> QED
  BY <1>1, Inductive, PTL

(***************************************************************************)
(* The order of a profile's rules.                                         *)
(***************************************************************************)

(* InOrder is the order of the positions.                                  *)
LEMMA InOrderIsRanked ==
  StoreTyped /\ RowsInv =>
    \A f \in Profile : Numbered(RulesOf(f), Positions) /\ InOrder(f) = Ranked(RulesOf(f), Positions)
<1> SUFFICES ASSUME StoreTyped, RowsInv, NEW f \in Profile
             PROVE  Numbered(RulesOf(f), Positions) /\ InOrder(f) = Ranked(RulesOf(f), Positions)
  OBVIOUS
<1> DEFINE S == RulesOf(f)  n == Cardinality(S)  g == Ranked(S, Positions)
           before(r) == {s \in S : rules[s].position < rules[r].position}
<1>1. Numbered(S, Positions)
  BY RulesNumbered
<1>2. /\ n \in Nat /\ g \in [1..n -> S]
      /\ \A i \in 1..n : Rank(S, Positions, g[i]) = i - 1
      /\ \A r \in S : \E i \in 1..n : g[i] = r
  BY <1>1, RankedIsAnOrder
<1>3. \A r \in S : r \in Rule /\ Positions[r] = rules[r].position
  BY DEF RulesOf, Positions
<1>4. ASSUME NEW r \in S PROVE Cardinality(before(r)) = Rank(S, Positions, r)
  <2>1. before(r) = Below(S, Positions, r)
    BY <1>3 DEF Below
  <2> QED
    BY <2>1 DEF Rank
<1>5. InOrder(f) = [i \in 1..n |-> CHOOSE r \in S : Cardinality(before(r)) = i - 1]
  BY DEF InOrder
<1> HIDE DEF S, n, g, before
<1>6. ASSUME NEW i \in 1..n
      PROVE  (CHOOSE r \in S : Cardinality(before(r)) = i - 1) = g[i]
  <2> DEFINE c == CHOOSE r \in S : Cardinality(before(r)) = i - 1
  <2>1. g[i] \in S /\ Cardinality(before(g[i])) = i - 1
    BY <1>2, <1>4
  <2>2. c \in S /\ Cardinality(before(c)) = i - 1
    BY <2>1
  <2> HIDE DEF c
  <2>3. PICK j \in 1..n : g[j] = c
    BY <1>2, <2>2
  <2>4. j - 1 = i - 1
    BY <1>2, <1>4, <2>2, <2>3
  <2>5. c = g[i]
    BY <2>3, <2>4
  <2> QED
    BY <2>5 DEF c
<1>7. InOrder(f) = g
  BY <1>2, <1>5, <1>6
<1> QED
  BY <1>1, <1>7 DEF S, g

(* The same of the next state.                                             *)
LEMMA InOrderIsRankedNext ==
  (StoreTyped /\ RowsInv)' =>
    \A f \in Profile : (Numbered(RulesOf(f), Positions) /\ InOrder(f) = Ranked(RulesOf(f), Positions))'
<1>1. (StoreTyped /\ RowsInv =>
    \A f \in Profile : Numbered(RulesOf(f), Positions) /\ InOrder(f) = Ranked(RulesOf(f), Positions))'
  BY InOrderIsRanked, PTL
<1> QED
  BY <1>1

(* What a commit makes of the order.                                       *)
LEMMA CommitOrders ==
  ASSUME IInv, IInv', NEW a \in Actor, Commit(a)
  PROVE  LET f == arg[a].profile  list == arg[a].ordered  n == Cardinality(RulesOf(f)) IN
         /\ f \in Profile /\ n \in Nat /\ list \in [1..n -> RulesOf(f)]
         /\ \A r \in RulesOf(f) : \E i \in 1..n : list[i] = r
         /\ \A g \in Profile : RulesOf(g)' = RulesOf(g)
         /\ \A g \in Profile : g = f => InOrder(g)' = list
<1> DEFINE f == arg[a].profile  list == arg[a].ordered  S == RulesOf(f)  n == Cardinality(S)
<1>1. StoreTyped /\ RowsInv /\ Called(a) /\ Underway(a) /\ (StoreTyped /\ RowsInv)'
  BY DEF IInv
<1>2. /\ f \in Profile /\ n \in Nat /\ list \in [1..n -> S]
      /\ \A r \in S : \E i \in 1..n : list[i] = r
      /\ \A i \in 1..n : working[list[i]] = i - 1
  BY <1>1, AtCommit DEF Commit
<1>3. rules' = [r \in Rule |-> IF r \in S THEN [rules[r] EXCEPT !.position = working[r]] ELSE rules[r]]
  BY DEF Commit
<1>4. rules \in [Rule -> RuleRows]
  BY <1>1 DEF StoreTyped, RuleRows
<1>5. ASSUME NEW r \in Rule
      PROVE  rules'[r].profile = rules[r].profile /\ (r \in S => rules'[r].position = working[r])
  BY <1>3, <1>4 DEF RuleRows
<1>6. \A g \in Profile : RulesOf(g)' = RulesOf(g)
  BY <1>5 DEF RulesOf
<1>7. S \subseteq Rule
  BY DEF RulesOf
<1>8. ASSUME NEW g \in Profile, g = f PROVE InOrder(g)' = list
  <2> DEFINE P == Positions'
  <2>1. RulesOf(g)' = S
    BY <1>6, <1>8
  <2>2. Numbered(S, P) /\ InOrder(g)' = Ranked(S, P)
    BY <1>1, <2>1, InOrderIsRankedNext
  <2>3. \A r \in S : P[r] = working[r]
    BY <1>5, <1>7 DEF Positions
  <2> HIDE DEF P, S, n, list
  <2>4. \A i \in 1..n : P[list[i]] = i - 1
    BY <1>2, <2>3
  <2>5. \A i, j \in 1..n : i < j => P[list[i]] < P[list[j]]
    BY <1>2, <2>4
  <2>6. n \in Nat /\ list \in [1..n -> S] /\ \A r \in S : \E i \in 1..n : list[i] = r
    BY <1>2
  <2>7. Numbered(S, P)
    BY <2>2
  <2>8. Ranked(S, P) = list
    BY <2>5, <2>6, <2>7, OnlyOneOrder
  <2> QED
    BY <2>2, <2>8 DEF list
<1> QED
  BY <1>2, <1>6, <1>8

(* A reordering that is committed has given the profile the order that was *)
(* asked for, although rules may have been added and deleted since the     *)
(* list was compared with them.                                            *)
THEOREM CommitsTheList == Spec => CommitsAsAsked
<1>1. ASSUME IInv, IInv', Next, NEW a \in Actor, NEW f \in Profile,
             at[a] = "assign", f = arg[a].profile, rules' # rules
      PROVE  InOrder(f)' = arg[a].ordered
  <2>1. PICK b \in Actor : ActorStep(b)
    BY <1>1 DEF Next
  <2>2. StoreTyped /\ RowsInv /\ OneTransaction /\ Called(b)
    BY <1>1 DEF IInv
  <2>3. InTransaction(a)
    BY <1>1 DEF InTransaction, TransactionStep
  <2>4. a = b
    BY <1>1, <2>1, <2>2, <2>3, OthersWait
  <2>5. ~Looks(a)
    BY <1>1, LooksLeaveTables DEF tables
  <2>6. ~Writes(a)
    BY <2>1, <2>2, <2>3, <2>4, Entering DEF Free
  <2>7. Commit(a)
    BY <2>1, <2>4, <2>5, <2>6, LooksOrWrites
  <2> QED
    BY <1>1, <2>7, CommitOrders
<1>2. ASSUME IInv, IInv', [Next]_vars
      PROVE  [\A a \in Actor, f \in Profile :
                (at[a] = "assign" /\ f = arg[a].profile /\ rules' # rules)
                  => InOrder(f)' = arg[a].ordered]_vars
  BY <1>1, <1>2
<1>3. Spec => [][Next]_vars
  BY DEF Spec
<1> QED
  BY <1>2, <1>3, Inductive, PTL DEF CommitsAsAsked

(***************************************************************************)
(* The store is a PolicyBook.                                              *)
(***************************************************************************)
Existing == {g \in Profile : Exists(g)}

Page(f) == [name |-> profiles[f].name, default |-> profiles[f].default, entries |-> Entries(f)]

TheBook == [f \in Existing |-> Page(f)]

Entry == [rule : Rule, content : Content]

(* The entries of a profile are its rules, each once.                      *)
LEMMA EntriesShape ==
  IInv =>
    \A f \in Profile :
      LET n == Cardinality(RulesOf(f))  order == InOrder(f) IN
        /\ n \in Nat /\ order \in [1..n -> RulesOf(f)]
        /\ \A r \in RulesOf(f) : \E i \in 1..n : order[i] = r
        /\ \A i, j \in 1..n : order[i] = order[j] => i = j
        /\ \A i, j \in 1..n : i < j => rules[order[i]].position < rules[order[j]].position
        /\ Entries(f) = [i \in 1..n |-> [rule |-> order[i], content |-> rules[order[i]].content]]
        /\ Entries(f) \in Seq(Entry) /\ Len(Entries(f)) = n
<1> SUFFICES ASSUME IInv, NEW f \in Profile
             PROVE  LET n == Cardinality(RulesOf(f))  order == InOrder(f) IN
        /\ n \in Nat /\ order \in [1..n -> RulesOf(f)]
        /\ \A r \in RulesOf(f) : \E i \in 1..n : order[i] = r
        /\ \A i, j \in 1..n : order[i] = order[j] => i = j
        /\ \A i, j \in 1..n : i < j => rules[order[i]].position < rules[order[j]].position
        /\ Entries(f) = [i \in 1..n |-> [rule |-> order[i], content |-> rules[order[i]].content]]
        /\ Entries(f) \in Seq(Entry) /\ Len(Entries(f)) = n
  OBVIOUS
<1> DEFINE S == RulesOf(f)  n == Cardinality(S)  order == InOrder(f)
<1>1. Numbered(S, Positions) /\ order = Ranked(S, Positions)
  BY InOrderIsRanked DEF IInv
<1>2. /\ n \in Nat /\ order \in [1..n -> S]
      /\ \A i \in 1..n : Rank(S, Positions, order[i]) = i - 1
      /\ \A r \in S : \E i \in 1..n : order[i] = r
  BY <1>1, RankedIsAnOrder
<1>3. \A i, j \in 1..n : i < j => Positions[order[i]] < Positions[order[j]]
  BY <1>1, RankedRises
<1>4. \A r \in S : r \in Rule /\ Positions[r] = rules[r].position
  BY DEF RulesOf, Positions
<1>5. \A r \in S : rules[r].content \in Content
  <2> SUFFICES ASSUME NEW r \in S PROVE rules[r].content \in Content
    OBVIOUS
  <2>1. rules[r] # NoRule
    BY NoneAssumption DEF RulesOf, NoRule
  <2> QED
    BY <1>4, <2>1 DEF IInv, RowsInv, RuleRow
<1>6. Entries(f) = [i \in DOMAIN order |-> [rule |-> order[i], content |-> rules[order[i]].content]]
  BY DEF Entries
<1> HIDE DEF S, n, order
<1>7. \A i, j \in 1..n : order[i] = order[j] => i = j
  <2> SUFFICES ASSUME NEW i \in 1..n, NEW j \in 1..n, order[i] = order[j] PROVE i = j
    OBVIOUS
  <2>1. i - 1 = j - 1
    BY <1>2
  <2> QED
    BY <2>1
<1>8. \A i, j \in 1..n : i < j => rules[order[i]].position < rules[order[j]].position
  BY <1>2, <1>3, <1>4
<1>9. Entries(f) = [i \in 1..n |-> [rule |-> order[i], content |-> rules[order[i]].content]]
  BY <1>2, <1>6
<1>10. \A i \in 1..n : [rule |-> order[i], content |-> rules[order[i]].content] \in Entry
  BY <1>2, <1>4, <1>5 DEF Entry
<1>11. Entries(f) \in [1..n -> Entry]
  BY <1>9, <1>10
<1>12. Entries(f) \in Seq(Entry) /\ Len(Entries(f)) = n
  BY <1>2, <1>11
<1> QED
  BY <1>2, <1>7, <1>8, <1>9, <1>12 DEF S, n, order

(* The same of the next state.                                             *)
LEMMA EntriesShapeNext ==
  IInv' =>
    \A f \in Profile :
      (LET n == Cardinality(RulesOf(f))  order == InOrder(f) IN
        /\ n \in Nat /\ order \in [1..n -> RulesOf(f)]
        /\ \A r \in RulesOf(f) : \E i \in 1..n : order[i] = r
        /\ \A i, j \in 1..n : order[i] = order[j] => i = j
        /\ \A i, j \in 1..n : i < j => rules[order[i]].position < rules[order[j]].position
        /\ Entries(f) = [i \in 1..n |-> [rule |-> order[i], content |-> rules[order[i]].content]]
        /\ Entries(f) \in Seq(Entry) /\ Len(Entries(f)) = n)'
<1>1. (IInv =>
    \A f \in Profile :
      LET n == Cardinality(RulesOf(f))  order == InOrder(f) IN
        /\ n \in Nat /\ order \in [1..n -> RulesOf(f)]
        /\ \A r \in RulesOf(f) : \E i \in 1..n : order[i] = r
        /\ \A i, j \in 1..n : order[i] = order[j] => i = j
        /\ \A i, j \in 1..n : i < j => rules[order[i]].position < rules[order[j]].position
        /\ Entries(f) = [i \in 1..n |-> [rule |-> order[i], content |-> rules[order[i]].content]]
        /\ Entries(f) \in Seq(Entry) /\ Len(Entries(f)) = n)'
  BY EntriesShape, PTL
<1> QED
  BY <1>1

(* A list of a profile's rules in the order of their positions is the      *)
(* order of the profile, and says what its entries are.                    *)
LEMMA OrderFound ==
  ASSUME IInv', NEW f \in Profile, NEW n \in Nat, NEW g \in [1..n -> RulesOf(f)'],
         \A r \in RulesOf(f)' : \E i \in 1..n : g[i] = r,
         \A i, j \in 1..n : i < j => rules'[g[i]].position < rules'[g[j]].position
  PROVE  Entries(f)' = [i \in 1..n |-> [rule |-> g[i], content |-> rules'[g[i]].content]]
<1> DEFINE S == RulesOf(f)'  P == Positions'
<1>1. Numbered(S, P) /\ InOrder(f)' = Ranked(S, P)
  BY InOrderIsRankedNext DEF IInv
<1>2. \A r \in S : P[r] = rules'[r].position
  BY DEF RulesOf, Positions
<1> HIDE DEF S, P
<1>3. g \in [1..n -> S] /\ \A r \in S : \E i \in 1..n : g[i] = r
  BY DEF S
<1>4. \A i, j \in 1..n : i < j => P[g[i]] < P[g[j]]
  BY <1>2, <1>3
<1>5. InOrder(f)' = g
  BY <1>1, <1>3, <1>4, OnlyOneOrder
<1>6. Entries(f)' = [i \in DOMAIN InOrder(f)' |->
                       [rule |-> InOrder(f)'[i], content |-> rules'[InOrder(f)'[i]].content]]
  BY DEF Entries
<1> QED
  BY <1>5, <1>6

(* A list changes only with its rules.                                     *)
LEMMA EntriesKept ==
  ASSUME IInv, IInv', NEW f \in Profile, RulesOf(f)' = RulesOf(f),
         \A r \in RulesOf(f) : rules'[r] = rules[r]
  PROVE  Entries(f)' = Entries(f)
<1> DEFINE n == Cardinality(RulesOf(f))  g == InOrder(f)
<1>1. /\ n \in Nat /\ g \in [1..n -> RulesOf(f)]
      /\ \A r \in RulesOf(f) : \E i \in 1..n : g[i] = r
      /\ \A i, j \in 1..n : i < j => rules[g[i]].position < rules[g[j]].position
      /\ Entries(f) = [i \in 1..n |-> [rule |-> g[i], content |-> rules[g[i]].content]]
  BY EntriesShape
<1> HIDE DEF n, g
<1>2. \A i \in 1..n : rules'[g[i]] = rules[g[i]]
  BY <1>1
<1>3. g \in [1..n -> RulesOf(f)'] /\ \A r \in RulesOf(f)' : \E i \in 1..n : g[i] = r
  BY <1>1
<1>4. \A i, j \in 1..n : i < j => rules'[g[i]].position < rules'[g[j]].position
  BY <1>1, <1>2
<1>5. n \in Nat
  BY <1>1
<1>6. Entries(f)' = [i \in 1..n |-> [rule |-> g[i], content |-> rules'[g[i]].content]]
  BY <1>3, <1>4, <1>5, OrderFound
<1> QED
  BY <1>1, <1>2, <1>6

(* The rules that are listed are those that are stored.                    *)
LEMMA ListedAreStored ==
  ASSUME IInv, NEW r \in Rule
  PROVE  r \in Book!Listed <=> rules[r] # NoRule
<1>1. Book!Listed = UNION {Book!RulesIn(TheBook[f].entries) : f \in DOMAIN TheBook}
  BY DEF Book!Listed, TheBook, Existing, Page
<1>2. DOMAIN TheBook = Existing /\ \A f \in Existing : TheBook[f].entries = Entries(f)
  BY DEF TheBook, Page
<1>3. r \in Book!Listed <=> \E f \in Existing : r \in Book!RulesIn(Entries(f))
  BY <1>1, <1>2
<1>4. ASSUME NEW f \in Profile PROVE r \in Book!RulesIn(Entries(f)) <=> r \in RulesOf(f)
  <2> DEFINE n == Cardinality(RulesOf(f))  g == InOrder(f)
  <2>1. /\ n \in Nat /\ g \in [1..n -> RulesOf(f)]
        /\ \A s \in RulesOf(f) : \E i \in 1..n : g[i] = s
        /\ Entries(f) = [i \in 1..n |-> [rule |-> g[i], content |-> rules[g[i]].content]]
    BY EntriesShape
  <2> HIDE DEF n, g
  <2>2. Book!RulesIn(Entries(f)) = {Entries(f)[i].rule : i \in DOMAIN Entries(f)}
    BY DEF Book!RulesIn
  <2>3. DOMAIN Entries(f) = 1..n /\ \A i \in 1..n : Entries(f)[i].rule = g[i]
    BY <2>1
  <2>4. r \in Book!RulesIn(Entries(f)) <=> \E i \in 1..n : r = g[i]
    BY <2>2, <2>3, Zenon
  <2> QED
    BY <2>1, <2>4
<1>5. rules[r] # NoRule => rules[r].profile \in Existing
  BY DEF IInv, RowsInv, RuleRow, Existing
<1>6. rules[r] = NoRule => rules[r].profile \notin Profile
  BY NoneAssumption DEF NoRule
<1> QED
  BY <1>3, <1>4, <1>5, <1>6 DEF RulesOf, Existing

(* The refinement mapping, profile by profile.                             *)
LEMMA TheBookIs ==
  /\ DOMAIN TheBook = Existing /\ \A f \in Existing : TheBook[f] = Page(f)
  /\ TheBook' = [f \in Existing' |-> Page(f)']
BY DEF TheBook

(* One page of the book is written anew.                                   *)
LEMMA TurnsPage ==
  ASSUME NEW f \in Existing, Existing' = Existing, NEW page, Page(f)' = page,
         \A g \in Existing \ {f} : Page(g)' = Page(g)
  PROVE  TheBook' = [TheBook EXCEPT ![f] = page]
<1>1. DOMAIN TheBook = Existing /\ \A g \in Existing : TheBook[g] = Page(g)
  BY TheBookIs
<1>2. TheBook' = [g \in Existing |-> Page(g)']
  BY TheBookIs
<1>3. TheBook = [g \in Existing |-> Page(g)]
  BY DEF TheBook
<1>4. \A g \in Existing : Page(g)' = IF g = f THEN page ELSE Page(g)
  OBVIOUS
<1> HIDE DEF TheBook
<1>5. TheBook' = [g \in Existing |-> IF g = f THEN page ELSE Page(g)]
  BY <1>2, <1>4
<1>6. [TheBook EXCEPT ![f] = page] = [g \in Existing |-> IF g = f THEN page ELSE Page(g)]
  BY <1>3
<1> QED
  BY <1>5, <1>6

(* The store is opened with one profile, which has no rules.               *)
LEMMA BookInit ==
  ASSUME Init PROVE Book!Init
<1>1. PICK f \in Profile, n \in Name :
        profiles = [[g \in Profile |-> NoRow] EXCEPT ![f] = [name |-> n, default |-> "deny"]]
  BY DEF Init
<1>2. rules = [r \in Rule |-> NoRule]
  BY DEF Init
<1>3. Existing = {f}
  <2>1. [name |-> n, default |-> "deny"] # NoRow
    <3>1. [name |-> n, default |-> "deny"].name = n /\ NoRow.name = NoName
      BY DEF NoRow
    <3> QED
      BY <3>1, NoneAssumption
  <2> QED
    BY <1>1, <2>1 DEF Existing, Exists
<1>4. profiles[f] = [name |-> n, default |-> "deny"]
  BY <1>1
<1>5. RulesOf(f) = {}
  BY <1>2, NoneAssumption DEF RulesOf, NoRule
<1>6. Entries(f) = << >>
  <2>1. IInv
    BY Starts
  <2>2. Entries(f) \in Seq(Entry) /\ Len(Entries(f)) = Cardinality(RulesOf(f))
    BY <2>1, EntriesShape
  <2>3. Len(Entries(f)) = 0
    BY <1>5, <2>2, FS_EmptySet
  <2> QED
    BY <2>2, <2>3
<1>7. Page(f) = [name |-> n, default |-> "deny", entries |-> << >>]
  BY <1>4, <1>6 DEF Page
<1>8. TheBook = [g \in {f} |-> [name |-> n, default |-> "deny", entries |-> << >>]]
  BY <1>3, <1>7 DEF TheBook
<1> QED
  BY <1>8 DEF Book!Init, TheBook, Existing, Page

(* What leaves the tables alone does not show.                             *)
LEMMA BookRests ==
  ASSUME UNCHANGED <<profiles, rules>>
  PROVE  TheBook' = TheBook
<1>1. \A f : RulesOf(f)' = RulesOf(f)
  BY DEF RulesOf
<1>2. \A f : InOrder(f)' = InOrder(f)
  BY DEF InOrder, RulesOf
<1>3. \A f : Entries(f)' = Entries(f)
  BY <1>2 DEF Entries
<1> QED
  BY <1>3 DEF TheBook, Existing, Exists, Page

(* A new profile.                                                          *)
LEMMA BookOpens ==
  ASSUME IInv, IInv', NEW a \in Actor, Create(a)
  PROVE  Book!Next \/ TheBook' = TheBook
<1>1. CASE UNCHANGED profiles
  BY <1>1, BookRests DEF Create
<1>2. CASE \E f \in Unused(Profile) :
             /\ NameFree(arg[a].name, NoProfile)
             /\ profiles' = [profiles EXCEPT ![f] = [name |-> arg[a].name, default |-> "deny"]]
  <2>1. PICK f \in Unused(Profile) :
             /\ NameFree(arg[a].name, NoProfile)
             /\ profiles' = [profiles EXCEPT ![f] = [name |-> arg[a].name, default |-> "deny"]]
    BY <1>2
  <2>2. PICK n : n = arg[a].name
    OBVIOUS
  <2>3. f \in Profile /\ f \notin spent /\ n \in Name
    BY <2>2 DEF Unused, Create, IInv, Called
  <2>4. ~Exists(f)
    BY <2>3 DEF IInv, RowsInv, ProfileRow
  <2>5. /\ profiles'[f] = [name |-> n, default |-> "deny"]
        /\ \A g \in Profile \ {f} : profiles'[g] = profiles[g]
    BY <2>1, <2>2, <2>3 DEF IInv, StoreTyped
  <2>6. Exists(f)'
    <3>1. profiles'[f].name = n /\ NoRow.name = NoName
      BY <2>5 DEF NoRow
    <3> QED
      BY <2>3, <3>1, NoneAssumption DEF Exists
  <2>7. Existing' = Existing \cup {f}
    BY <2>3, <2>5, <2>6 DEF Existing, Exists
  <2>8. rules' = rules
    BY DEF Create
  <2>9. \A g \in Profile : Entries(g)' = Entries(g)
    BY <2>8, EntriesKept DEF RulesOf
  <2>10. RulesOf(f) = {}
    <3>1. \A r \in RulesOf(f) : rules[r] # NoRule
      BY <2>3, NoneAssumption DEF RulesOf, NoRule
    <3> QED
      BY <2>4, <3>1 DEF IInv, RowsInv, RuleRow, RulesOf
  <2>11. Entries(f) = << >>
    <3>1. Entries(f) \in Seq(Entry) /\ Len(Entries(f)) = 0
      BY <2>3, <2>10, EntriesShape, FS_EmptySet
    <3> QED
      BY <3>1
  <2>12. Page(f)' = [name |-> n, default |-> "deny", entries |-> << >>]
    BY <2>3, <2>5, <2>9, <2>11 DEF Page
  <2>13. \A g \in Existing : g # f /\ Page(g)' = Page(g)
    BY <2>4, <2>5, <2>9 DEF Page, Existing
  <2>14. f \notin DOMAIN TheBook /\ \A g \in DOMAIN TheBook \ {f} : TheBook[g].name # n
    <3>1. f \notin Existing
      BY <2>4 DEF Existing
    <3>2. \A g \in Existing : profiles[g].name # n
      BY <2>1, <2>2, NoneAssumption DEF NameFree, Existing
    <3> QED
      BY <3>1, <3>2, TheBookIs DEF Page
  <2>15. TheBook' = [g \in DOMAIN TheBook \cup {f} |->
            IF g = f THEN [name |-> n, default |-> "deny", entries |-> << >>] ELSE TheBook[g]]
    <3>1. DOMAIN TheBook = Existing /\ \A g \in Existing : TheBook[g] = Page(g)
      BY TheBookIs
    <3>2. TheBook' = [g \in Existing \cup {f} |-> Page(g)']
      BY <2>7, TheBookIs
    <3> HIDE DEF TheBook
    <3> QED
      BY <2>12, <2>13, <3>1, <3>2
  <2>16. Book!Open(f, n)
    BY <2>14, <2>15 DEF Book!Open, Book!NameFree, TheBook, Existing, Page
  <2> QED
    BY <2>3, <2>16 DEF Book!Next
<1> QED
  BY <1>1, <1>2 DEF Create

(* Another name, another default action.                                   *)
LEMMA BookRenames ==
  ASSUME IInv, IInv', NEW a \in Actor, Rename(a)
  PROVE  Book!Next \/ TheBook' = TheBook
<1>1. CASE UNCHANGED profiles
  BY <1>1, BookRests DEF Rename
<1>2. CASE /\ Exists(arg[a].profile) /\ NameFree(arg[a].name, arg[a].profile)
           /\ profiles' = [profiles EXCEPT ![arg[a].profile].name = arg[a].name]
  <2>1. PICK f, n : f = arg[a].profile /\ n = arg[a].name
    OBVIOUS
  <2>2. f \in Profile /\ n \in Name
    BY <2>1 DEF Rename, IInv, Called
  <2>3. profiles \in [Profile -> ProfileRows]
    BY DEF IInv, StoreTyped, ProfileRows
  <2> DEFINE row == [profiles[f] EXCEPT !.name = n]
  <2>4. row.name = n /\ row.default = profiles[f].default
    BY <2>2, <2>3 DEF ProfileRows
  <2>5. profiles' = [profiles EXCEPT ![f] = row]
    BY <1>2, <2>1
  <2> HIDE DEF row
  <2>6. profiles'[f] = row /\ \A g \in Profile \ {f} : profiles'[g] = profiles[g]
    BY <2>2, <2>3, <2>5
  <2>7. Exists(f) /\ NameFree(n, f)
    BY <1>2, <2>1
  <2>8. Exists(f)'
    BY <2>2, <2>4, <2>6, NoneAssumption DEF Exists, NoRow
  <2>9. Existing' = Existing
    BY <2>6, <2>7, <2>8 DEF Existing, Exists
  <2>10. rules' = rules
    BY DEF Rename
  <2>11. \A g \in Profile : Entries(g)' = Entries(g)
    BY <2>10, EntriesKept DEF RulesOf
  <2> DEFINE page == [Page(f) EXCEPT !.name = n]
  <2>12. Page(f)' = page /\ \A g \in Existing \ {f} : Page(g)' = Page(g)
    BY <2>2, <2>4, <2>6, <2>11 DEF Page, Existing
  <2>13. f \in Existing
    BY <2>2, <2>7 DEF Existing
  <2> HIDE DEF page
  <2>14. TheBook' = [TheBook EXCEPT ![f] = page]
    BY <2>9, <2>12, <2>13, TurnsPage
  <2>15. TheBook' = [TheBook EXCEPT ![f].name = n]
    BY <2>13, <2>14, TheBookIs DEF page
  <2>16. f \in DOMAIN TheBook /\ \A g \in DOMAIN TheBook \ {f} : TheBook[g].name # n
    BY <2>7, <2>13, TheBookIs DEF NameFree, Existing, Page
  <2>17. Book!Rename(f, n)
    BY <2>15, <2>16 DEF Book!Rename, Book!NameFree, TheBook, Existing, Page
  <2> QED
    BY <2>2, <2>17 DEF Book!Next
<1> QED
  BY <1>1, <1>2 DEF Rename

LEMMA BookSetsDefault ==
  ASSUME IInv, IInv', NEW a \in Actor, SetDefaultAction(a)
  PROVE  Book!Next
<1>1. PICK f \in Profile, action \in Action :
        Exists(f) /\ profiles' = [profiles EXCEPT ![f].default = action]
  BY DEF SetDefaultAction
<1>2. profiles \in [Profile -> ProfileRows]
  BY DEF IInv, StoreTyped, ProfileRows
<1> DEFINE row == [profiles[f] EXCEPT !.default = action]
<1>3. row.default = action /\ row.name = profiles[f].name
  BY <1>2 DEF ProfileRows
<1>4. profiles' = [profiles EXCEPT ![f] = row]
  BY <1>1
<1> HIDE DEF row
<1>5. profiles'[f] = row /\ \A g \in Profile \ {f} : profiles'[g] = profiles[g]
  BY <1>2, <1>4
<1>6. Exists(f)'
  <2>1. profiles[f].name \in Name
    BY <1>1 DEF IInv, RowsInv, ProfileRow
  <2> QED
    BY <1>3, <1>5, <2>1, NoneAssumption DEF Exists, NoRow
<1>7. Existing' = Existing /\ f \in Existing
  BY <1>1, <1>5, <1>6 DEF Existing, Exists
<1>8. rules' = rules
  BY DEF SetDefaultAction
<1>9. \A g \in Profile : Entries(g)' = Entries(g)
  BY <1>8, EntriesKept DEF RulesOf
<1> DEFINE page == [Page(f) EXCEPT !.default = action]
<1>10. Page(f)' = page /\ \A g \in Existing \ {f} : Page(g)' = Page(g)
  BY <1>3, <1>5, <1>9 DEF Page, Existing
<1> HIDE DEF page
<1>11. TheBook' = [TheBook EXCEPT ![f] = page]
  BY <1>7, <1>10, TurnsPage
<1>12. TheBook' = [TheBook EXCEPT ![f].default = action] /\ f \in DOMAIN TheBook
  BY <1>7, <1>11, TheBookIs DEF page
<1>13. Book!SetDefault(f, action)
  BY <1>12 DEF Book!SetDefault, TheBook, Existing, Page
<1> QED
  BY <1>13 DEF Book!Next, Book!Action, Action

(* A deleted profile takes its rules along, and nobody else's.             *)
LEMMA BookDiscards ==
  ASSUME IInv, IInv', NEW a \in Actor, DeleteProfile(a)
  PROVE  Book!Next \/ TheBook' = TheBook
<1>1. PICK f : f = arg[a].profile
  OBVIOUS
<1>2. f \in Profile
  BY <1>1 DEF DeleteProfile, IInv, Called
<1>3. profiles \in [Profile -> ProfileRows] /\ DOMAIN rules = Rule
  BY DEF IInv, StoreTyped, ProfileRows
<1>4. /\ profiles' = [profiles EXCEPT ![f] = NoRow]
      /\ rules' = [r \in Rule |-> IF rules[r].profile = f THEN NoRule ELSE rules[r]]
  BY <1>1 DEF DeleteProfile
<1>5. profiles'[f] = NoRow /\ \A g \in Profile \ {f} : profiles'[g] = profiles[g]
  BY <1>2, <1>3, <1>4
<1>6. Existing' = Existing \ {f}
  BY <1>5 DEF Existing, Exists
<1>7. ASSUME NEW g \in Profile \ {f} PROVE Entries(g)' = Entries(g)
  <2>1. NoRule.profile # g
    BY NoneAssumption DEF NoRule
  <2>2. RulesOf(g)' = RulesOf(g) /\ \A r \in RulesOf(g) : rules'[r] = rules[r]
    BY <1>4, <2>1 DEF RulesOf
  <2> QED
    BY <2>2, EntriesKept
<1>8. \A g \in Existing \ {f} : Page(g)' = Page(g)
  BY <1>5, <1>7 DEF Page, Existing
<1>9. TheBook' = [g \in Existing \ {f} |-> TheBook[g]]
  <2>1. TheBook' = [g \in Existing \ {f} |-> Page(g)']
    BY <1>6, TheBookIs
  <2>2. \A g \in Existing \ {f} : TheBook[g] = Page(g)
    BY TheBookIs
  <2> HIDE DEF TheBook
  <2> QED
    BY <1>8, <2>1, <2>2
<1>10. CASE f \in Existing
  <2>1. f \in DOMAIN TheBook /\ TheBook' = [g \in DOMAIN TheBook \ {f} |-> TheBook[g]]
    BY <1>9, <1>10, TheBookIs
  <2>2. Book!Discard(f)
    BY <2>1 DEF Book!Discard, TheBook, Existing, Page
  <2> QED
    BY <1>2, <2>2 DEF Book!Next
<1>11. CASE f \notin Existing
  <2>1. Existing \ {f} = Existing
    BY <1>11
  <2>2. TheBook = [g \in Existing |-> TheBook[g]]
    BY DEF TheBook
  <2> HIDE DEF TheBook
  <2> QED
    BY <1>9, <2>1, <2>2
<1> QED
  BY <1>10, <1>11

(* A write that concerns the rules of one profile only.                    *)
LEMMA RewritesEntries ==
  ASSUME IInv, IInv', profiles' = profiles, NEW f \in Existing,
         \A g \in Profile \ {f} : RulesOf(g)' = RulesOf(g) /\ \A r \in RulesOf(g) : rules'[r] = rules[r]
  PROVE  /\ f \in DOMAIN TheBook /\ TheBook[f].entries = Entries(f)
         /\ TheBook' = [TheBook EXCEPT ![f].entries = Entries(f)']
<1>1. Existing' = Existing
  BY DEF Existing, Exists
<1> DEFINE page == [Page(f) EXCEPT !.entries = Entries(f)']
<1>2. Page(f)' = page
  BY DEF Page
<1>3. \A g \in Existing \ {f} : Page(g)' = Page(g)
  BY EntriesKept DEF Page, Existing
<1> HIDE DEF page
<1>4. TheBook' = [TheBook EXCEPT ![f] = page]
  BY <1>1, <1>2, <1>3, TurnsPage
<1>5. TheBook[f].entries = Entries(f)
  BY TheBookIs DEF Page
<1> QED
  BY <1>4, <1>5, TheBookIs DEF page

(* A new rule is the last of its profile.                                  *)
LEMMA BookAppends ==
  ASSUME IInv, IInv', NEW a \in Actor, AddRule(a)
  PROVE  Book!Next \/ TheBook' = TheBook
<1>1. profiles' = profiles
  BY DEF AddRule
<1>2. CASE rules' = rules
  BY <1>1, <1>2, BookRests
<1>3. CASE \E k \in 0..PositionLimit : \E r \in Unused(Rule), c \in Content :
             /\ IsNextPosition(arg[a].profile, k) /\ Exists(arg[a].profile) /\ k < PositionLimit
             /\ rules' = [rules EXCEPT ![r] = [profile |-> arg[a].profile, position |-> k, content |-> c]]
  <2>1. PICK f : f = arg[a].profile
    OBVIOUS
  <2>2. PICK k \in 0..PositionLimit : \E r \in Unused(Rule), c \in Content :
             /\ IsNextPosition(f, k) /\ Exists(f)
             /\ rules' = [rules EXCEPT ![r] = [profile |-> f, position |-> k, content |-> c]]
    BY <1>3, <2>1
  <2>3. PICK r \in Unused(Rule), c \in Content :
             /\ IsNextPosition(f, k) /\ Exists(f)
             /\ rules' = [rules EXCEPT ![r] = [profile |-> f, position |-> k, content |-> c]]
    BY <2>2
  <2>4. f \in Profile /\ f \in Existing
    BY <2>1, <2>3 DEF AddRule, IInv, Called, Existing
  <2>5. r \in Rule /\ rules[r] = NoRule
    BY DEF Unused, IInv, RowsInv, RuleRow
  <2>6. /\ rules'[r] = [profile |-> f, position |-> k, content |-> c]
        /\ \A s \in Rule \ {r} : rules'[s] = rules[s]
    BY <2>3, <2>5 DEF IInv, StoreTyped
  <2>7. \A g \in Profile : r \notin RulesOf(g)
    BY <2>5, NoneAssumption DEF RulesOf, NoRule
  <2>8. RulesOf(f)' = RulesOf(f) \cup {r}
    BY <2>5, <2>6, <2>7 DEF RulesOf
  <2>9. \A g \in Profile \ {f} : RulesOf(g)' = RulesOf(g) /\ \A s \in RulesOf(g) : rules'[s] = rules[s]
    BY <2>5, <2>6, <2>7 DEF RulesOf
  <2> DEFINE n == Cardinality(RulesOf(f))  order == InOrder(f)
             entry == [rule |-> r, content |-> c]
             new == [i \in 1..(n + 1) |-> IF i = n + 1 THEN r ELSE order[i]]
  <2>10. /\ n \in Nat /\ order \in [1..n -> RulesOf(f)]
         /\ \A s \in RulesOf(f) : \E i \in 1..n : order[i] = s
         /\ \A i, j \in 1..n : i < j => rules[order[i]].position < rules[order[j]].position
         /\ Entries(f) = [i \in 1..n |-> [rule |-> order[i], content |-> rules[order[i]].content]]
         /\ Entries(f) \in Seq(Entry) /\ Len(Entries(f)) = n
    BY <2>4, EntriesShape
  <2>11. \A s \in RulesOf(f) : rules'[s] = rules[s] /\ rules[s].position < k
    BY <2>3, <2>4, <2>6, <2>7 DEF IsNextPosition, RulesOf
  <2> HIDE DEF n, order
  <2>12. /\ new \in [1..(n + 1) -> RulesOf(f)'] /\ new[n + 1] = r
         /\ \A i \in 1..n : new[i] = order[i] /\ i \in 1..(n + 1)
    BY <2>8, <2>10
  <2> HIDE DEF new
  <2>13. \A s \in RulesOf(f)' : \E i \in 1..(n + 1) : new[i] = s
    <3>1. n + 1 \in 1..(n + 1)
      BY <2>10
    <3> QED
      BY <2>8, <2>10, <2>12, <3>1
  <2>14. ASSUME NEW i \in 1..(n + 1), NEW j \in 1..(n + 1), i < j
         PROVE  rules'[new[i]].position < rules'[new[j]].position
    <3>1. i \in 1..n
      BY <2>10, <2>14
    <3>2. rules'[new[i]] = rules[order[i]] /\ order[i] \in RulesOf(f)
      BY <2>10, <2>11, <2>12, <3>1
    <3>3. CASE j \in 1..n
      BY <2>10, <2>11, <2>12, <2>14, <3>1, <3>2, <3>3
    <3>4. CASE j = n + 1
      BY <2>6, <2>11, <2>12, <3>2, <3>4
    <3> QED
      BY <2>10, <3>3, <3>4
  <2>15. n + 1 \in Nat
    BY <2>10
  <2>16. Entries(f)' = [i \in 1..(n + 1) |-> [rule |-> new[i], content |-> rules'[new[i]].content]]
    BY <2>4, <2>12, <2>13, <2>14, <2>15, OrderFound
  <2>17. Entries(f)' = Append(Entries(f), entry)
    <3>1. entry \in Entry
      BY <2>5 DEF Entry
    <3>2. Append(Entries(f), entry) = [i \in 1..(n + 1) |-> IF i = n + 1 THEN entry ELSE Entries(f)[i]]
      BY <2>10, <3>1
    <3>3. \A i \in 1..n : [rule |-> new[i], content |-> rules'[new[i]].content] = Entries(f)[i]
      BY <2>10, <2>11, <2>12
    <3>4. [rule |-> new[n + 1], content |-> rules'[new[n + 1]].content] = entry
      BY <2>6, <2>12
    <3> HIDE DEF entry
    <3>5. \A i \in 1..(n + 1) : [rule |-> new[i], content |-> rules'[new[i]].content]
                                  = IF i = n + 1 THEN entry ELSE Entries(f)[i]
      <4> SUFFICES ASSUME NEW i \in 1..(n + 1)
                   PROVE  [rule |-> new[i], content |-> rules'[new[i]].content]
                            = IF i = n + 1 THEN entry ELSE Entries(f)[i]
        OBVIOUS
      <4>1. i \in 1..n \/ i = n + 1
        BY <2>10
      <4>2. n + 1 \notin 1..n
        BY <2>10
      <4> QED
        BY <3>3, <3>4, <4>1, <4>2
    <3> QED
      BY <2>16, <3>2, <3>5
  <2>18. /\ f \in DOMAIN TheBook /\ TheBook[f].entries = Entries(f)
         /\ TheBook' = [TheBook EXCEPT ![f].entries = Entries(f)']
    BY <1>1, <2>4, <2>9, RewritesEntries
  <2>19. f \in DOMAIN TheBook /\ TheBook' = [TheBook EXCEPT ![f].entries = Append(@, [rule |-> r, content |-> c])]
    BY <2>17, <2>18
  <2>20. r \notin Book!Listed
    BY <2>5, ListedAreStored
  <2>21. Book!AppendRule(f, r, c)
    BY <2>19, <2>20 DEF Book!AppendRule, TheBook, Existing, Page
  <2> QED
    BY <2>4, <2>5, <2>21 DEF Book!Next
<1> QED
  BY <1>2, <1>3 DEF AddRule

(* Amending a rule changes what it says, and nothing else.                 *)
LEMMA BookAmends ==
  ASSUME IInv, IInv', NEW a \in Actor, UpdateRule(a)
  PROVE  Book!Next
<1>1. PICK r \in Rule, c \in Content : rules[r] # NoRule /\ rules' = [rules EXCEPT ![r].content = c]
  BY DEF UpdateRule
<1>2. rules \in [Rule -> RuleRows] /\ profiles' = profiles
  BY DEF IInv, StoreTyped, RuleRows, UpdateRule
<1> DEFINE row == [rules[r] EXCEPT !.content = c]
<1>3. /\ row.profile = rules[r].profile /\ row.position = rules[r].position /\ row.content = c
  BY <1>2 DEF RuleRows
<1>4. rules' = [rules EXCEPT ![r] = row]
  BY <1>1
<1> HIDE DEF row
<1>5. rules'[r] = row /\ \A s \in Rule \ {r} : rules'[s] = rules[s]
  BY <1>2, <1>4
<1>6. ASSUME NEW s \in Rule
      PROVE  /\ rules'[s].profile = rules[s].profile /\ rules'[s].position = rules[s].position
             /\ rules'[s].content = IF s = r THEN c ELSE rules[s].content
  BY <1>3, <1>5
<1>7. \A f \in Profile : RulesOf(f)' = RulesOf(f)
  BY <1>6 DEF RulesOf
<1> DEFINE Amended(entries) ==
             [i \in DOMAIN entries |->
                IF entries[i].rule = r THEN [entries[i] EXCEPT !.content = c] ELSE entries[i]]
<1>8. ASSUME NEW f \in Profile PROVE Entries(f)' = Amended(Entries(f))
  <2> DEFINE n == Cardinality(RulesOf(f))  order == InOrder(f)
  <2>1. /\ n \in Nat /\ order \in [1..n -> RulesOf(f)]
        /\ \A s \in RulesOf(f) : \E i \in 1..n : order[i] = s
        /\ \A i, j \in 1..n : i < j => rules[order[i]].position < rules[order[j]].position
        /\ Entries(f) = [i \in 1..n |-> [rule |-> order[i], content |-> rules[order[i]].content]]
    BY EntriesShape
  <2>2. RulesOf(f) \subseteq Rule
    BY DEF RulesOf
  <2> HIDE DEF n, order
  <2>3. order \in [1..n -> RulesOf(f)'] /\ \A s \in RulesOf(f)' : \E i \in 1..n : order[i] = s
    BY <1>7, <2>1
  <2>4. \A i, j \in 1..n : i < j => rules'[order[i]].position < rules'[order[j]].position
    BY <1>6, <2>1, <2>2
  <2>5. n \in Nat
    BY <2>1
  <2>6. Entries(f)' = [i \in 1..n |-> [rule |-> order[i], content |-> rules'[order[i]].content]]
    BY <2>3, <2>4, <2>5, OrderFound
  <2>7. ASSUME NEW i \in 1..n
        PROVE  [rule |-> order[i], content |-> rules'[order[i]].content] =
                 IF Entries(f)[i].rule = r THEN [Entries(f)[i] EXCEPT !.content = c] ELSE Entries(f)[i]
    <3>1. Entries(f)[i] = [rule |-> order[i], content |-> rules[order[i]].content] /\ order[i] \in Rule
      BY <2>1, <2>2
    <3>2. rules'[order[i]].content = IF order[i] = r THEN c ELSE rules[order[i]].content
      BY <1>6, <3>1
    <3>3. CASE order[i] = r
      BY <3>1, <3>2, <3>3
    <3>4. CASE order[i] # r
      BY <3>1, <3>2, <3>4
    <3> QED
      BY <3>3, <3>4
  <2>8. DOMAIN Entries(f) = 1..n
    BY <2>1
  <2> QED
    BY <2>6, <2>7, <2>8
<1>9. Existing' = Existing
  BY <1>2 DEF Existing, Exists
<1> HIDE DEF Amended
<1>10. TheBook' = [f \in DOMAIN TheBook |-> [TheBook[f] EXCEPT !.entries = Amended(@)]]
  <2>1. DOMAIN TheBook = Existing /\ \A f \in Existing : TheBook[f] = Page(f)
    BY TheBookIs
  <2>2. TheBook' = [f \in Existing |-> Page(f)']
    BY <1>9, TheBookIs
  <2>3. ASSUME NEW f \in Existing PROVE Page(f)' = [Page(f) EXCEPT !.entries = Amended(@)]
    <3>1. Page(f)' = [name |-> profiles[f].name, default |-> profiles[f].default,
                      entries |-> Amended(Entries(f))]
      BY <1>2, <1>8 DEF Page, Existing
    <3> QED
      BY <3>1 DEF Page
  <2> HIDE DEF TheBook
  <2> QED
    BY <2>1, <2>2, <2>3
<1>11. r \in Book!Listed
  BY <1>1, ListedAreStored
<1>12. Book!Amend(r, c)
  BY <1>10, <1>11, Zenon DEF Book!Amend, TheBook, Existing, Page, Amended
<1> QED
  BY <1>12 DEF Book!Next

(* A deleted rule leaves the order of the others alone.                    *)
LEMMA RemoveAtIs ==
  ASSUME NEW S, NEW s \in Seq(S), NEW i \in 1..Len(s)
  PROVE  RemoveAt(s, i) = [j \in 1..(Len(s) - 1) |-> IF j < i THEN s[j] ELSE s[j + 1]]
<1> DEFINE n == Len(s)  b == SubSeq(s, 1, i - 1)  e == SubSeq(s, i + 1, n)
<1>1. n \in Nat /\ i \in 1..n
  OBVIOUS
<1>2. b \in Seq(S) /\ Len(b) = i - 1 /\ \A j \in 1..(i - 1) : b[j] = s[j]
  BY <1>1
<1>3. e \in Seq(S) /\ Len(e) = n - i /\ \A j \in 1..(n - i) : e[j] = s[j + i]
  BY <1>1
<1>4. RemoveAt(s, i) = b \o e
  BY DEF RemoveAt
<1> HIDE DEF b, e, n
<1>5. b \o e \in Seq(S) /\ Len(b \o e) = n - 1
  <2>1. b \o e \in Seq(S) /\ Len(b \o e) = Len(b) + Len(e)
    <3>1. b \in Seq(S) /\ e \in Seq(S)
      BY <1>2, <1>3
    <3> QED
      BY <3>1
  <2>2. (i - 1) + (n - i) = n - 1
    BY <1>1
  <2> QED
    BY <1>2, <1>3, <2>1, <2>2
<1>6. ASSUME NEW j \in 1..(n - 1) PROVE (b \o e)[j] = IF j < i THEN s[j] ELSE s[j + 1]
  <2>1. CASE j < i
    BY <1>1, <1>2, <1>3, <2>1
  <2>2. CASE ~(j < i)
    <3>1. (b \o e)[j] = e[j - (i - 1)] /\ j - (i - 1) \in 1..(n - i)
      BY <1>1, <1>2, <1>3, <2>2
    <3>2. e[j - (i - 1)] = s[j - (i - 1) + i]
      BY <1>3, <3>1
    <3>3. j - (i - 1) + i = j + 1
      BY <1>1
    <3> QED
      BY <2>2, <3>1, <3>2, <3>3
  <2> QED
    BY <2>1, <2>2
<1>7. b \o e = [j \in 1..(n - 1) |-> (b \o e)[j]]
  <2> DEFINE t == b \o e
  <2>1. t \in Seq(S) /\ Len(t) = n - 1
    BY <1>5
  <2> HIDE DEF t
  <2>2. t = [j \in 1..(n - 1) |-> t[j]]
    BY <2>1
  <2> QED
    BY <2>2 DEF t
<1>8. b \o e = [j \in 1..(n - 1) |-> IF j < i THEN s[j] ELSE s[j + 1]]
  BY <1>6, <1>7
<1> QED
  BY <1>4, <1>8 DEF n

LEMMA BookDeletes ==
  ASSUME IInv, IInv', NEW a \in Actor, DeleteRule(a)
  PROVE  Book!Next
<1>1. PICK r \in Rule : rules[r] # NoRule /\ rules' = [rules EXCEPT ![r] = NoRule]
  BY DEF DeleteRule
<1>2. profiles' = profiles /\ DOMAIN rules = Rule
  BY DEF DeleteRule, IInv, StoreTyped
<1>3. PICK f : f = rules[r].profile
  OBVIOUS
<1>4. f \in Profile /\ f \in Existing /\ r \in RulesOf(f)
  BY <1>1, <1>3 DEF IInv, RowsInv, RuleRow, Existing, RulesOf
<1>5. rules'[r] = NoRule /\ \A s \in Rule \ {r} : rules'[s] = rules[s]
  BY <1>1, <1>2
<1>6. NoRule.profile \notin Profile
  BY NoneAssumption DEF NoRule
<1>7. RulesOf(f)' = RulesOf(f) \ {r}
  BY <1>4, <1>5, <1>6 DEF RulesOf
<1>8. \A g \in Profile \ {f} : RulesOf(g)' = RulesOf(g) /\ \A s \in RulesOf(g) : rules'[s] = rules[s]
  BY <1>3, <1>5, <1>6 DEF RulesOf
<1> DEFINE n == Cardinality(RulesOf(f))  order == InOrder(f)
<1>9. /\ n \in Nat /\ order \in [1..n -> RulesOf(f)]
      /\ \A s \in RulesOf(f) : \E i \in 1..n : order[i] = s
      /\ \A i, j \in 1..n : order[i] = order[j] => i = j
      /\ \A i, j \in 1..n : i < j => rules[order[i]].position < rules[order[j]].position
      /\ Entries(f) = [i \in 1..n |-> [rule |-> order[i], content |-> rules[order[i]].content]]
      /\ Entries(f) \in Seq(Entry) /\ Len(Entries(f)) = n
  BY <1>4, EntriesShape
<1> HIDE DEF n, order
<1>10. PICK i \in 1..n : order[i] = r
  BY <1>4, <1>9
<1> DEFINE m == n - 1
           from(j) == IF j < i THEN j ELSE j + 1
           new == [j \in 1..m |-> order[from(j)]]
<1>11. m \in Nat
  BY <1>9
<1>12. ASSUME NEW j \in 1..m PROVE from(j) \in 1..n /\ from(j) # i
  BY <1>9
<1>13. ASSUME NEW j \in 1..m
       PROVE  /\ new[j] = order[from(j)] /\ new[j] \in RulesOf(f) /\ new[j] # r
              /\ rules'[new[j]] = rules[new[j]]
  <2>1. new[j] = order[from(j)]
    OBVIOUS
  <2> HIDE DEF new, from
  <2>2. new[j] \in RulesOf(f) /\ new[j] # r
    BY <1>9, <1>10, <1>12, <2>1
  <2> QED
    BY <1>5, <2>1, <2>2 DEF RulesOf
<1>14. new \in [1..m -> RulesOf(f)']
  BY <1>7, <1>13
<1>15. ASSUME NEW s \in RulesOf(f)' PROVE \E j \in 1..m : new[j] = s
  <2>1. s \in RulesOf(f) /\ s # r
    BY <1>7
  <2>2. PICK k \in 1..n : order[k] = s
    BY <1>9, <2>1
  <2>3. k # i
    BY <1>10, <2>1, <2>2
  <2> DEFINE j == IF k < i THEN k ELSE k - 1
  <2>4. j \in 1..m /\ from(j) = k
    BY <1>9, <2>3
  <2> HIDE DEF j
  <2> QED
    BY <1>13, <2>2, <2>4
<1>16. ASSUME NEW j \in 1..m, NEW k \in 1..m, j < k
       PROVE  rules'[new[j]].position < rules'[new[k]].position
  <2>1. from(j) < from(k) /\ from(j) \in 1..n /\ from(k) \in 1..n
    BY <1>9, <1>16
  <2> HIDE DEF from, new
  <2> QED
    BY <1>9, <1>13, <2>1
<1> HIDE DEF new, m
<1>17. Entries(f)' = [j \in 1..m |-> [rule |-> new[j], content |-> rules'[new[j]].content]]
  BY <1>4, <1>11, <1>14, <1>15, <1>16, OrderFound
<1>18. Entries(f)' = RemoveAt(Entries(f), i)
  <2>1. RemoveAt(Entries(f), i) = [j \in 1..m |-> IF j < i THEN Entries(f)[j] ELSE Entries(f)[j + 1]]
    <3>1. Entries(f) \in Seq(Entry) /\ i \in 1..Len(Entries(f)) /\ Len(Entries(f)) = n
      BY <1>9
    <3>2. RemoveAt(Entries(f), i) =
            [j \in 1..(Len(Entries(f)) - 1) |-> IF j < i THEN Entries(f)[j] ELSE Entries(f)[j + 1]]
      BY <3>1, RemoveAtIs
    <3> QED
      BY <3>1, <3>2 DEF m
  <2>2. ASSUME NEW j \in 1..m
        PROVE  [rule |-> new[j], content |-> rules'[new[j]].content]
                 = IF j < i THEN Entries(f)[j] ELSE Entries(f)[j + 1]
    <3>1. Entries(f)[from(j)] = [rule |-> new[j], content |-> rules'[new[j]].content]
      <4>1. from(j) \in 1..n
        BY <1>12
      <4> HIDE DEF from
      <4> QED
        BY <1>9, <1>13, <4>1
    <3> QED
      BY <3>1
  <2> QED
    BY <1>17, <2>1, <2>2
<1>19. /\ f \in DOMAIN TheBook /\ TheBook[f].entries = Entries(f)
       /\ TheBook' = [TheBook EXCEPT ![f].entries = Entries(f)']
  BY <1>2, <1>4, <1>8, RewritesEntries
<1>20. i \in DOMAIN Entries(f) /\ Entries(f)[i].rule = r
  BY <1>9, <1>10
<1>21. /\ f \in DOMAIN TheBook /\ i \in DOMAIN TheBook[f].entries /\ TheBook[f].entries[i].rule = r
       /\ TheBook' = [TheBook EXCEPT ![f].entries = RemoveAt(@, i)]
  BY <1>18, <1>19, <1>20
<1>22. Book!Delete(r)
  BY <1>21 DEF Book!Delete, Book!RemoveAt, RemoveAt, TheBook, Existing, Page
<1>23. PICK c \in Content : TRUE
  BY <1>1 DEF IInv, RowsInv, RuleRow
<1> QED
  BY <1>22, <1>23 DEF Book!Next

(* A reordering permutes the entries of its profile.                       *)
LEMMA BookPermutes ==
  ASSUME IInv, IInv', NEW a \in Actor, Commit(a)
  PROVE  Book!Next \/ TheBook' = TheBook
<1>1. PICK f, list : f = arg[a].profile /\ list = arg[a].ordered
  OBVIOUS
<1> DEFINE n == Cardinality(RulesOf(f))  old == InOrder(f)
<1>2. /\ f \in Profile /\ n \in Nat /\ list \in [1..n -> RulesOf(f)]
      /\ \A r \in RulesOf(f) : \E i \in 1..n : list[i] = r
      /\ \A g \in Profile : RulesOf(g)' = RulesOf(g)
      /\ InOrder(f)' = list
  <2>1. LET h == arg[a].profile  l == arg[a].ordered  m == Cardinality(RulesOf(h)) IN
         /\ h \in Profile /\ m \in Nat /\ l \in [1..m -> RulesOf(h)]
         /\ \A r \in RulesOf(h) : \E i \in 1..m : l[i] = r
         /\ \A g \in Profile : RulesOf(g)' = RulesOf(g)
         /\ \A g \in Profile : g = h => InOrder(g)' = l
    BY CommitOrders
  <2> QED
    BY <1>1, <2>1
<1>3. profiles' = profiles /\ rules \in [Rule -> RuleRows]
  BY DEF Commit, IInv, StoreTyped, RuleRows
<1>4. rules' = [r \in Rule |-> IF r \in RulesOf(f) THEN [rules[r] EXCEPT !.position = working[r]] ELSE rules[r]]
  BY <1>1 DEF Commit
<1>5. \A r \in Rule : rules'[r].content = rules[r].content /\ (r \notin RulesOf(f) => rules'[r] = rules[r])
  BY <1>3, <1>4 DEF RuleRows
<1>6. \A g \in Profile \ {f} : RulesOf(g)' = RulesOf(g) /\ \A r \in RulesOf(g) : rules'[r] = rules[r]
  BY <1>2, <1>5 DEF RulesOf
<1>7. /\ old \in [1..n -> RulesOf(f)]
      /\ \A r \in RulesOf(f) : \E i \in 1..n : old[i] = r
      /\ Entries(f) = [i \in 1..n |-> [rule |-> old[i], content |-> rules[old[i]].content]]
      /\ \A i, j \in 1..n : old[i] = old[j] => i = j
  BY <1>2, EntriesShape
<1>8. RulesOf(f) \subseteq Rule
  BY DEF RulesOf
<1> DEFINE p == [i \in 1..n |-> CHOOSE j \in 1..n : old[j] = list[i]]
<1>9. Entries(f)' = [i \in 1..n |-> [rule |-> list[i], content |-> rules'[list[i]].content]]
  <2>1. Entries(f)' = [i \in DOMAIN InOrder(f)' |->
                         [rule |-> InOrder(f)'[i], content |-> rules'[InOrder(f)'[i]].content]]
    BY DEF Entries
  <2>2. InOrder(f)' = list /\ DOMAIN list = 1..n
    BY <1>2
  <2> HIDE DEF n
  <2> QED
    BY <2>1, <2>2
<1> HIDE DEF n, old
<1>10. ASSUME NEW i \in 1..n PROVE p[i] \in 1..n /\ old[p[i]] = list[i]
  <2>1. list[i] \in RulesOf(f)
    BY <1>2
  <2>2. \E j \in 1..n : old[j] = list[i]
    BY <1>7, <2>1
  <2> QED
    BY <2>2
<1>11. p \in [1..n -> 1..n]
  BY <1>10
<1> HIDE DEF p
<1>12. ASSUME NEW j \in 1..n PROVE \E i \in 1..n : p[i] = j
  <2>1. old[j] \in RulesOf(f)
    BY <1>7
  <2>2. PICK i \in 1..n : list[i] = old[j]
    BY <1>2, <2>1
  <2>3. old[p[i]] = old[j] /\ p[i] \in 1..n
    BY <1>10, <2>2
  <2> QED
    BY <1>7, <2>3
<1>13. DOMAIN Entries(f) = 1..n
  BY <1>7
<1>14. Entries(f)' = [i \in DOMAIN Entries(f) |-> Entries(f)[p[i]]]
  <2>1. ASSUME NEW i \in 1..n
        PROVE  [rule |-> list[i], content |-> rules'[list[i]].content] = Entries(f)[p[i]]
    <3>1. Entries(f)[p[i]] = [rule |-> old[p[i]], content |-> rules[old[p[i]]].content]
      BY <1>7, <1>10
    <3>2. rules'[list[i]].content = rules[list[i]].content
      BY <1>2, <1>5, <1>8
    <3> QED
      BY <1>10, <3>1, <3>2
  <2> QED
    BY <1>9, <1>13, <2>1
<1>15. CASE f \in Existing
  <2>1. /\ f \in DOMAIN TheBook /\ TheBook[f].entries = Entries(f)
        /\ TheBook' = [TheBook EXCEPT ![f].entries = Entries(f)']
    BY <1>3, <1>6, <1>15, RewritesEntries
  <2>2. /\ f \in DOMAIN TheBook
        /\ LET entries == TheBook[f].entries IN
             \E q \in [DOMAIN entries -> DOMAIN entries] :
               /\ \A j \in DOMAIN entries : \E i \in DOMAIN entries : q[i] = j
               /\ TheBook' = [TheBook EXCEPT ![f].entries = [i \in DOMAIN entries |-> entries[q[i]]]]
    <3> DEFINE e == TheBook[f].entries
    <3>1. p \in [DOMAIN e -> DOMAIN e]
      BY <1>11, <1>13, <2>1
    <3>2. \A j \in DOMAIN e : \E i \in DOMAIN e : p[i] = j
      BY <1>12, <1>13, <2>1
    <3>3. TheBook' = [TheBook EXCEPT ![f].entries = [i \in DOMAIN e |-> e[p[i]]]]
      BY <1>14, <2>1
    <3> HIDE DEF TheBook
    <3> QED
      BY <2>1, <3>1, <3>2, <3>3, Zenon
  <2>3. Book!Permute(f)
    BY <2>2 DEF Book!Permute, TheBook, Existing, Page
  <2> QED
    BY <1>2, <2>3 DEF Book!Next
<1>16. CASE f \notin Existing
  <2>1. RulesOf(f) = {}
    <3>1. \A r \in RulesOf(f) : rules[r] # NoRule
      BY <1>2, NoneAssumption DEF RulesOf, NoRule
    <3> QED
      BY <1>2, <1>16, <3>1 DEF IInv, RowsInv, RuleRow, RulesOf, Existing
  <2>2. rules' = [r \in Rule |-> rules[r]]
    BY <1>4, <2>1
  <2>3. rules' = rules
    BY <1>3, <2>2
  <2> QED
    BY <1>3, <2>3, BookRests
<1> QED
  BY <1>15, <1>16

(* Whatever commands race, the store is a PolicyBook: a new rule is the    *)
(* last of its profile, the others keep their order, a reordering permutes *)
(* and does nothing else, names are distinct, a deleted profile takes its  *)
(* rules along.                                                            *)
THEOREM StoreIsABook == Spec => ImplementsPolicyBook
<1>1. Init => Book!Init
  BY BookInit
<1>2. ASSUME IInv, IInv', [Next]_vars PROVE Book!Next \/ TheBook' = TheBook
  <2>1. CASE UNCHANGED vars
    BY <2>1, BookRests DEF vars, tables
  <2>2. ASSUME NEW a \in Actor, ActorStep(a) PROVE Book!Next \/ TheBook' = TheBook
    <3>1. CASE Looks(a)
      BY <3>1, LooksLeaveTables, BookRests DEF tables
    <3>2. CASE Writes(a)
      BY <1>2, <3>2, BookOpens, BookRenames, BookSetsDefault, BookDiscards, BookAppends, BookAmends,
         BookDeletes DEF Writes
    <3>3. CASE Commit(a)
      BY <1>2, <3>3, BookPermutes
    <3> QED
      BY <2>2, <3>1, <3>2, <3>3, LooksOrWrites
  <2> QED
    BY <1>2, <2>1, <2>2 DEF Next
<1>3. ASSUME IInv, IInv', [Next]_vars
      PROVE  [Book!Next]_([f \in {g \in Profile : Exists(g)} |->
                             [name |-> profiles[f].name, default |-> profiles[f].default,
                              entries |-> Entries(f)]])
  BY <1>2, <1>3 DEF TheBook, Existing, Page
<1> QED
  BY <1>1, <1>3, Inductive, PTL DEF Spec, ImplementsPolicyBook, Book!Spec
=============================================================================
