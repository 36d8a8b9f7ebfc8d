---------------------------- MODULE PolicyStore ----------------------------
(***************************************************************************)
(* The stored policy: PolicyService (application/policy.rs) over its       *)
(* SQLite repository (sqlite/repository.rs).                               *)
(*                                                                         *)
(* The order of a profile's rules is that of their positions.  A new rule  *)
(* gets the highest position plus one, a deletion leaves a gap, and a      *)
(* reordering renumbers from zero in one transaction, which first shifts   *)
(* all positions out of the way: UNIQUE (profile_id, position) and the     *)
(* CHECK on position hold after every statement, not at commit only.       *)
(*                                                                         *)
(* Commands run on threads of their own.  The connection's mutex makes one *)
(* access to the store atomic, a transaction included, but not a command.  *)
(* The statements of the reordering transaction are steps, so that each    *)
(* can fail and what they pass through can be looked at; nobody else has   *)
(* the connection meanwhile.                                               *)
(***************************************************************************)
EXTENDS Naturals, FiniteSets, SequencesExt

CONSTANTS Profile, Rule, Name, Content, NoProfile, NoName, NoContent,
          Actor,           \* threads that run commands
          PositionLimit,   \* POSITION_LIMIT
          PositionShift    \* POSITION_SHIFT

ASSUME NoneAssumption == NoProfile \notin Profile /\ NoName \notin Name /\ NoContent \notin Content

ASSUME LimitAssumption ==
  PositionLimit \in Nat \ {0} /\ PositionShift \in Nat /\ PositionShift >= PositionLimit

VARIABLES
  profiles,   \* table profiles
  rules,      \* table rules
  spent,      \* ids of profiles and rules ever generated
  working,    \* positions as the open transaction has them
  at,         \* the next step of each actor's command
  arg         \* its locals

vars == <<profiles, rules, spent, working, at, arg>>
tables == <<profiles, rules>>

Action == {"allow", "deny"}
NoRow == [name |-> NoName, default |-> "deny"]
NoRule == [profile |-> NoProfile, position |-> 0, content |-> NoContent]
Exists(f) == profiles[f] # NoRow

RulesOf(f) == {r \in Rule : rules[r].profile = f}

Positions == [r \in Rule |-> rules[r].position]

NoWork == [r \in Rule |-> 0]

(* The rules of a profile in the order of their positions. *)
InOrder(f) ==
  LET before(r) == {s \in RulesOf(f) : rules[s].position < rules[r].position} IN
    [i \in 1..Cardinality(RulesOf(f)) |->
       CHOOSE r \in RulesOf(f) : Cardinality(before(r)) = i - 1]

NoArg == [profile |-> NoProfile, name |-> NoName, ordered |-> << >>]

TransactionStep == {"shift", "assign"}
InTransaction(a) == at[a] \in TransactionStep

(* The mutex of the connection is free. *)
Free == \A a \in Actor : ~InTransaction(a)

(* The store has been opened and the default profile is there. *)
Init ==
  /\ \E f \in Profile, n \in Name :
       /\ profiles = [[g \in Profile |-> NoRow] EXCEPT ![f] = [name |-> n, default |-> "deny"]]
       /\ spent = {f}
  /\ rules = [r \in Rule |-> NoRule]
  /\ working = NoWork
  /\ at = [a \in Actor |-> "idle"]
  /\ arg = [a \in Actor |-> NoArg]

-----------------------------------------------------------------------------
(* Control of a command. *)

Call(a, first, x) ==
  /\ at[a] = "idle"
  /\ at' = [at EXCEPT ![a] = first]
  /\ arg' = [arg EXCEPT ![a] = x]
  /\ UNCHANGED <<tables, spent, working>>

Proceed(a, to) == at' = [at EXCEPT ![a] = to] /\ UNCHANGED arg

Return(a) ==
  /\ at' = [at EXCEPT ![a] = "idle"]
  /\ arg' = [arg EXCEPT ![a] = NoArg]

(* An access that only looks: the command goes on or ends with an error. *)
Check(a, from, ok, to) ==
  /\ Free
  /\ at[a] = from
  /\ IF ok THEN Proceed(a, to) ELSE Return(a)
  /\ UNCHANGED <<tables, spent, working>>

(* A bound of the model: a command that needs a new id when none is left   *)
(* can only fail.                                                          *)
Unused(Id) == Id \ spent

-----------------------------------------------------------------------------
(* Profiles *)

(* require_free_name: a profile may keep its own name. *)
NameFree(n, except) == \A f \in Profile \ {except} : profiles[f].name # n

CallCreateProfile(a) ==
  \E n \in Name : Call(a, "create find name", [NoArg EXCEPT !.name = n])

CreateFindName(a) == Check(a, "create find name", NameFree(arg[a].name, NoProfile), "create")

Create(a) ==
  /\ Free
  /\ at[a] = "create"
  /\ \/ /\ NameFree(arg[a].name, NoProfile)
        /\ \E f \in Unused(Profile) :
             /\ profiles' = [profiles EXCEPT ![f] = [name |-> arg[a].name, default |-> "deny"]]
             /\ spent' = spent \cup {f}
     \/ /\ ~NameFree(arg[a].name, NoProfile)
        /\ UNCHANGED <<profiles, spent>>
  /\ Return(a)
  /\ UNCHANGED <<rules, working>>

CallRename(a) ==
  \E f \in Profile \cap spent, n \in Name :
    Call(a, "rename find name", [NoArg EXCEPT !.profile = f, !.name = n])

RenameFindName(a) ==
  Check(a, "rename find name", NameFree(arg[a].name, arg[a].profile), "rename")

(* The row is read back afterwards, for the answer only. *)
Rename(a) ==
  LET f == arg[a].profile IN
    /\ Free
    /\ at[a] = "rename"
    /\ profiles' = IF Exists(f) /\ NameFree(arg[a].name, f)
                     THEN [profiles EXCEPT ![f].name = arg[a].name]
                     ELSE profiles
    /\ Return(a)
    /\ UNCHANGED <<rules, spent, working>>

SetDefaultAction(a) ==
  /\ Free
  /\ at[a] = "idle"
  /\ \E f \in Profile, action \in Action :
       Exists(f) /\ profiles' = [profiles EXCEPT ![f].default = action]
  /\ UNCHANGED <<rules, spent, working, at, arg>>

CallDeleteProfile(a) ==
  \E f \in Profile \cap spent : Call(a, "delete find", [NoArg EXCEPT !.profile = f])

DeleteFind(a) == Check(a, "delete find", Exists(arg[a].profile), "delete count")

DeleteCount(a) ==
  Check(a, "delete count", Cardinality({f \in Profile : Exists(f)}) > 1, "delete")

(* ON DELETE CASCADE *)
DeleteProfile(a) ==
  LET f == arg[a].profile IN
    /\ Free
    /\ at[a] = "delete"
    /\ profiles' = [profiles EXCEPT ![f] = NoRow]
    /\ rules' = [r \in Rule |-> IF rules[r].profile = f THEN NoRule ELSE rules[r]]
    /\ Return(a)
    /\ UNCHANGED <<spent, working>>

-----------------------------------------------------------------------------
(* Rules *)

CallAddRule(a) ==
  \E f \in Profile \cap spent : Call(a, "add find", [NoArg EXCEPT !.profile = f])

AddFind(a) == Check(a, "add find", Exists(arg[a].profile), "add")

(* Faulty: the lowest position that is free. *)
IsGap(f, n) ==
  /\ \A r \in RulesOf(f) : rules[r].position # n
  /\ \A m \in 0..(n - 1) : \E r \in RulesOf(f) : rules[r].position = m

(* COALESCE (MAX (position) + 1, 0) *)
IsNextPosition(f, n) ==
  /\ \A r \in RulesOf(f) : rules[r].position < n
  /\ n = 0 \/ \E r \in RulesOf(f) : rules[r].position = n - 1

(* One transaction: the profile exists, the position is below the limit.   *)
(* What the rule says is known from the call on, but nothing looks at it.  *)
AddRule(a) ==
  LET f == arg[a].profile IN
    /\ Free
    /\ at[a] = "add"
    /\ \E n \in 0..PositionLimit :
         /\ IsNextPosition(f, n)
         /\ IF Exists(f) /\ n < PositionLimit
              THEN \E r \in Unused(Rule), c \in Content :
                     /\ rules' = [rules EXCEPT ![r] =
                                    [profile |-> f, position |-> n, content |-> c]]
                     /\ spent' = spent \cup {r}
              ELSE UNCHANGED <<rules, spent>>
    /\ Return(a)
    /\ UNCHANGED <<profiles, working>>

UpdateRule(a) ==
  /\ Free
  /\ at[a] = "idle"
  /\ \E r \in Rule, c \in Content :
       rules[r] # NoRule /\ rules' = [rules EXCEPT ![r].content = c]
  /\ UNCHANGED <<profiles, spent, working, at, arg>>

DeleteRule(a) ==
  /\ Free
  /\ at[a] = "idle"
  /\ \E r \in Rule : rules[r] # NoRule /\ rules' = [rules EXCEPT ![r] = NoRule]
  /\ UNCHANGED <<profiles, spent, working, at, arg>>

-----------------------------------------------------------------------------
(* reorder_rules *)

(* The list that was asked for must be a permutation of the rules read     *)
(* here; another one is refused without effect.                            *)
CallReorder(a) ==
  /\ Free
  /\ \E f \in Profile \cap spent :
       \E order \in SetToSeqs(RulesOf(f)) :
         Call(a, "begin", [NoArg EXCEPT !.profile = f, !.ordered = order])

(* Faulty: the number of rules is not looked at again. *)
BeginUnchecked(a) ==
  /\ Free
  /\ at[a] = "begin"
  /\ working' = Positions
  /\ Proceed(a, "shift")
  /\ UNCHANGED <<tables, spent>>

(* The transaction begins and counts the rules. *)
Begin(a) ==
  /\ Free
  /\ at[a] = "begin"
  /\ IF Cardinality(RulesOf(arg[a].profile)) = Len(arg[a].ordered)
       THEN working' = Positions /\ Proceed(a, "shift")
       ELSE UNCHANGED working /\ Return(a)
  /\ UNCHANGED <<tables, spent>>

(* The transaction is over, and the command with it.                       *)
End(a) == working' = NoWork /\ Return(a)

(* The rules of the profile that are still to be shifted, with ordinary    *)
(* positions.                                                              *)
Unshifted(f) == {r \in RulesOf(f) : working[r] < PositionShift}

(* Faulty: the rules are renumbered in place. *)
ShiftNothing(a) ==
  /\ at[a] = "shift"
  /\ Proceed(a, "assign")
  /\ UNCHANGED <<tables, spent, working>>

(* UPDATE rules SET position = position + shift: row by row, in an order   *)
(* of SQLite's own.                                                        *)
Shift(a) ==
  /\ at[a] = "shift"
  /\ IF Unshifted(arg[a].profile) = {}
       THEN Proceed(a, "assign") /\ UNCHANGED working
       ELSE /\ \E r \in Unshifted(arg[a].profile) :
                 working' = [working EXCEPT ![r] = @ + PositionShift]
            /\ UNCHANGED <<at, arg>>
  /\ UNCHANGED <<tables, spent>>

(* The entries that have been given their new position. *)
Assigned(a) ==
  {i \in 1..Len(arg[a].ordered) :
     \A j \in 1..i : /\ arg[a].ordered[j] \in RulesOf(arg[a].profile)
                     /\ working[arg[a].ordered[j]] = j - 1}

(* The next rule of the list gets its position; a rule that the profile no *)
(* longer has ends the command, and the transaction is rolled back.        *)
Assign(a) ==
  /\ at[a] = "assign"
  /\ Cardinality(Assigned(a)) < Len(arg[a].ordered)
  /\ LET i == Cardinality(Assigned(a)) + 1
         r == arg[a].ordered[i]
     IN IF r \in RulesOf(arg[a].profile)
          THEN working' = [working EXCEPT ![r] = i - 1] /\ UNCHANGED <<at, arg>>
          ELSE End(a)
  /\ UNCHANGED <<tables, spent>>

Commit(a) ==
  /\ at[a] = "assign"
  /\ Cardinality(Assigned(a)) = Len(arg[a].ordered)
  /\ rules' = [r \in Rule |->
                 IF r \in RulesOf(arg[a].profile)
                   THEN [rules[r] EXCEPT !.position = working[r]] ELSE rules[r]]
  /\ End(a)
  /\ UNCHANGED <<profiles, spent>>

(* An access fails, or a statement of the transaction, or the process      *)
(* ends: nothing of an open transaction remains.                           *)
Fail(a) ==
  /\ at[a] # "idle"
  /\ Return(a)
  /\ working' = IF InTransaction(a) THEN NoWork ELSE working
  /\ UNCHANGED <<tables, spent>>

-----------------------------------------------------------------------------
ActorStep(a) ==
  \/ CallCreateProfile(a) \/ CreateFindName(a) \/ Create(a)
  \/ CallRename(a) \/ RenameFindName(a) \/ Rename(a)
  \/ SetDefaultAction(a)
  \/ CallDeleteProfile(a) \/ DeleteFind(a) \/ DeleteCount(a) \/ DeleteProfile(a)
  \/ CallAddRule(a) \/ AddFind(a) \/ AddRule(a)
  \/ UpdateRule(a) \/ DeleteRule(a)
  \/ CallReorder(a) \/ Begin(a) \/ Shift(a) \/ Assign(a) \/ Commit(a) \/ Fail(a)

Next == \E a \in Actor : ActorStep(a)

Spec == Init /\ [][Next]_vars

-----------------------------------------------------------------------------
(* Correctness. *)

(* No statement of a reordering runs into a constraint of the schema:      *)
(* between any two of them the positions of a profile are distinct and     *)
(* below shift + limit.  This is what POSITION_SHIFT and POSITION_LIMIT    *)
(* are for: positions of any rule ever added are below the shift.          *)
ReorderKeepsConstraints ==
  ~Free =>
    \A f \in Profile : \A r, s \in RulesOf(f) :
      /\ working[r] < PositionShift + PositionLimit
      /\ r # s => working[r] # working[s]

(* A reordering that is committed has given the profile exactly the order  *)
(* that was asked for, although rules may have been added and deleted      *)
(* since the list was compared with them.                                  *)
CommitsAsAsked ==
  [][\A a \in Actor, f \in Profile :
       (at[a] = "assign" /\ f = arg[a].profile /\ rules' # rules)
         => InOrder(f)' = arg[a].ordered]_vars

(* The store is a PolicyBook, whatever commands race: a new rule is the    *)
(* last, others keep their order, names are distinct, a deleted profile    *)
(* takes its rules along.                                                  *)
Entries(f) ==
  LET order == InOrder(f) IN
    [i \in DOMAIN order |-> [rule |-> order[i], content |-> rules[order[i]].content]]

Book == INSTANCE PolicyBook
          WITH book <- [f \in {g \in Profile : Exists(g)} |->
                          [name |-> profiles[f].name, default |-> profiles[f].default,
                           entries |-> Entries(f)]]

ImplementsPolicyBook == Book!Spec
=============================================================================
