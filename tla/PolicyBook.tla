---------------------------- MODULE PolicyBook ----------------------------
(***************************************************************************)
(* What the policy store promises to the policy editor and to the proxy,   *)
(* without positions, transactions or accesses to a database: a book of    *)
(* profiles, each with a name of its own, a default action and a list of   *)
(* rules in the order in which they are tried.                             *)
(*                                                                         *)
(*   - a new profile denies and has no rules;                              *)
(*   - a new rule comes last;                                              *)
(*   - removing or amending a rule leaves the order of the others alone;   *)
(*   - reordering permutes a profile's rules and does nothing else;        *)
(*   - no two profiles have the same name, no rule is in two lists.        *)
(***************************************************************************)
EXTENDS Naturals, SequencesExt

CONSTANTS Profile, Rule, Name, Content

VARIABLE book    \* the profiles there are

Action == {"allow", "deny"}

(* The rules of a list of entries. *)
RulesIn(entries) == {entries[i].rule : i \in DOMAIN entries}

Listed == UNION {RulesIn(book[f].entries) : f \in DOMAIN book}

NameFree(n, except) == \A f \in DOMAIN book \ {except} : book[f].name # n

(* There is a profile from the start. *)
Init ==
  \E f \in Profile, n \in Name :
    book = [g \in {f} |-> [name |-> n, default |-> "deny", entries |-> << >>]]

Open(f, n) ==
  /\ f \notin DOMAIN book
  /\ NameFree(n, f)
  /\ book' = [g \in DOMAIN book \cup {f} |->
                IF g = f THEN [name |-> n, default |-> "deny", entries |-> << >>]
                         ELSE book[g]]

Rename(f, n) ==
  /\ f \in DOMAIN book
  /\ NameFree(n, f)
  /\ book' = [book EXCEPT ![f].name = n]

SetDefault(f, action) ==
  /\ f \in DOMAIN book
  /\ book' = [book EXCEPT ![f].default = action]

Discard(f) ==
  /\ f \in DOMAIN book
  /\ book' = [g \in DOMAIN book \ {f} |-> book[g]]

AppendRule(f, r, c) ==
  /\ f \in DOMAIN book
  /\ r \notin Listed
  /\ book' = [book EXCEPT ![f].entries = Append(@, [rule |-> r, content |-> c])]

Amend(r, c) ==
  /\ r \in Listed
  /\ book' = [f \in DOMAIN book |->
                [book[f] EXCEPT !.entries =
                   [i \in DOMAIN @ |-> IF @[i].rule = r THEN [@[i] EXCEPT !.content = c] ELSE @[i]]]]

Delete(r) ==
  \E f \in DOMAIN book : \E i \in DOMAIN book[f].entries :
    /\ book[f].entries[i].rule = r
    /\ book' = [book EXCEPT ![f].entries = RemoveAt(@, i)]

Permute(f) ==
  /\ f \in DOMAIN book
  /\ LET old == book[f].entries IN
       \E p \in [DOMAIN old -> DOMAIN old] :
         /\ \A i \in DOMAIN old : \E j \in DOMAIN old : p[j] = i
         /\ book' = [book EXCEPT ![f].entries = [i \in DOMAIN old |-> old[p[i]]]]

Next ==
  \/ \E f \in Profile, n \in Name : Open(f, n) \/ Rename(f, n)
  \/ \E f \in Profile, action \in Action : SetDefault(f, action)
  \/ \E f \in Profile : Discard(f) \/ Permute(f)
  \/ \E f \in Profile, r \in Rule, c \in Content : AppendRule(f, r, c)
  \/ \E r \in Rule, c \in Content : Amend(r, c) \/ Delete(r)

Spec == Init /\ [][Next]_book
=============================================================================
