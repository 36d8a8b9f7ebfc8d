-------------------------- MODULE PolicyDecision --------------------------
(***************************************************************************)
(* Which action a policy gives to a connection (domain/policy/decision.rs, *)
(* port.rs): the editor's check (PolicyService::evaluate) reads a profile  *)
(* and then its rules while both may be edited or deleted.                 *)
(*                                                                         *)
(* The store's commands are those of PolicyStore, seen from outside: here  *)
(* each is one step on the rows of one profile.                            *)
(***************************************************************************)
EXTENDS HostName

CONSTANTS Text,           \* what may be typed as a host
          RuleInput,      \* what is typed in the rules of the run
          CheckInput,     \* what is typed in its checks
          Rule,
          MaxPort,        \* 65535
          MaxPosition     \* bound: positions given to rules

VARIABLES
  default,   \* default_action of the profile, or Gone
  rows,      \* table rules, for the profile
  check,     \* the evaluation that has read the profile
  answer,    \* the answer of the last evaluation
  given,     \* history: what the policy has given to the target of check
  edits      \* history: the writes since then, as far as their order matters

vars == <<default, rows, check, answer, given, edits>>

Action == {"allow", "deny"}
Gone == "gone"
Port == 0 .. MaxPort

ASSUME LimitAssumption == MaxPort \in Nat \ {0} /\ MaxPosition \in Nat

ASSUME TextAssumption == Text \subseteq Seq(Character)

(* Kinds are enumerations, ports 16-bit words. *)
ASSUME InputAssumption ==
  \A x \in RuleInput :
    /\ x.kind \in {"exact", "subdomains"} /\ x.text \in Seq(Character)
    /\ x.ports \in {"any", "exactly", "range"} /\ x.start \in Port /\ x.end \in Port

-----------------------------------------------------------------------------
(* Ports of rules, and targets. *)

NoSpec == [kind |-> "none", start |-> 0, end |-> 0]

(* Faulty: a range may begin after its end. *)
SpecOfAnyRange(kind, start, end) ==
  CASE kind = "any" -> [kind |-> kind, start |-> 0, end |-> 0]
    [] kind = "exactly" /\ start # 0 -> [kind |-> kind, start |-> start, end |-> 0]
    [] kind = "range" /\ start # 0 -> [kind |-> kind, start |-> start, end |-> end]
    [] OTHER -> NoSpec

PortSpec(kind, start, end) ==
  CASE kind = "any" -> [kind |-> kind, start |-> 0, end |-> 0]
    [] kind = "exactly" /\ start # 0 -> [kind |-> kind, start |-> start, end |-> 0]
    [] kind = "range" /\ start # 0 /\ start <= end ->
         [kind |-> kind, start |-> start, end |-> end]
    [] OTHER -> NoSpec

MatchesPort(spec, port) ==
  CASE spec.kind = "any" -> port > 0
    [] spec.kind = "exactly" -> port = spec.start
    [] OTHER -> port \in spec.start .. spec.end

NoTarget == [host |-> NoHost, port |-> 0]

Target(text, port) ==
  LET host == NormalizeHost(text)
  IN  IF port = 0 \/ host = NoHost THEN NoTarget ELSE [host |-> host, port |-> port]

(* The targets a run asks about. *)
Targets == {Target(x.text, p) : x \in RuleInput \cup CheckInput, p \in Port} \ {NoTarget}

-----------------------------------------------------------------------------
(* Decisions. *)

Matches(row, target) ==
  MatchesHost(row.host, target.host) /\ MatchesPort(row.port, target.port)

Matching(rules, target) == {row \in rules : Matches(row, target)}

(* Faulty: the last match wins. *)
EvaluateLast(profile, rules, target) ==
  LET matching == Matching(rules, target)
      last == CHOOSE row \in matching : \A x \in matching : row.position >= x.position
  IN  IF matching = {} THEN [action |-> profile, by |-> "default"]
                       ELSE [action |-> last.action, by |-> last.rule]

Evaluate(profile, rules, target) ==
  LET matching == Matching(rules, target)
      first == CHOOSE row \in matching : \A x \in matching : row.position <= x.position
  IN  IF matching = {} THEN [action |-> profile, by |-> "default"]
                       ELSE [action |-> first.action, by |-> first.rule]

Now(target) == Evaluate(default, rows, target)

-----------------------------------------------------------------------------
(* Commands of the editor, committed. *)

Idle == [target |-> NoTarget, default |-> "deny"]
NoAnswer == [action |-> "deny", by |-> "none"]

Init ==
  /\ default = "deny"
  /\ rows = {}
  /\ check = Idle
  /\ answer = NoAnswer
  /\ given = {}
  /\ edits = "none"

(* A write, as it is seen by a check under way. *)
Written(what, profile, rules) ==
  IF check = Idle THEN UNCHANGED <<given, edits>>
  ELSE /\ given' = given \cup {Evaluate(profile, rules, check.target)}
       /\ edits' = CASE what = "default" /\ edits = "none" -> "default"
                     [] what = "rules" /\ edits = "default" -> "default then rules"
                     [] OTHER -> edits

SetDefault(action) ==
  /\ default # Gone
  /\ default' = action
  /\ Written("default", action, rows)
  /\ UNCHANGED <<rows, check, answer>>

Position == 0 .. MaxPosition

(* COALESCE(MAX(position) + 1, 0). *)
NextPosition == CHOOSE p \in 0 .. MaxPosition + 1 :
  /\ \A row \in rows : row.position < p
  /\ p = 0 \/ \E row \in rows : row.position = p - 1

(* RuleInput::into_draft.  Nothing is written unless it is Accepted.       *)
Draft(rule, position, action, x) ==
  [rule |-> rule, position |-> position, action |-> action,
   host |-> Matcher(x.kind, x.text), port |-> PortSpec(x.ports, x.start, x.end)]

Accepted(row) == row.host # NoMatcher /\ row.port # NoSpec

AddRule(rule, action, x) ==
  LET row == Draft(rule, NextPosition, action, x)
  IN  /\ default # Gone
      /\ \A y \in rows : y.rule # rule
      /\ NextPosition \in Position
      /\ Accepted(row)
      /\ rows' = rows \cup {row}
      /\ Written("rules", default, rows')
      /\ UNCHANGED <<default, check, answer>>

UpdateRule(old, action, x) ==
  LET row == Draft(old.rule, old.position, action, x)
  IN  /\ Accepted(row)
      /\ rows' = (rows \ {old}) \cup {row}
      /\ Written("rules", default, rows')
      /\ UNCHANGED <<default, check, answer>>

DeleteRule(old) ==
  /\ rows' = rows \ {old}
  /\ Written("rules", default, rows')
  /\ UNCHANGED <<default, check, answer>>

Orders ==
  LET ids == {row.rule : row \in rows}
  IN  {place \in [ids -> 0 .. Cardinality(ids) - 1] :
         \A i, j \in ids : place[i] = place[j] => i = j}

(* place: the position of each rule in the new order. *)
ReorderRules(place) ==
  /\ default # Gone
  /\ rows' = {[row EXCEPT !.position = place[row.rule]] : row \in rows}
  /\ Written("rules", default, rows')
  /\ UNCHANGED <<default, check, answer>>

(* ON DELETE CASCADE takes the rules with the profile.                     *)
DeleteProfile ==
  /\ default # Gone
  /\ default' = Gone
  /\ rows' = {}
  /\ edits' = IF check = Idle THEN edits ELSE "deleted"
  /\ UNCHANGED <<check, answer, given>>

-----------------------------------------------------------------------------
(* PolicyService::evaluate: two accesses to the store. *)

(* Faulty: the host is compared as it was typed. *)
AskAsTyped(text, port) ==
  /\ check = Idle /\ default # Gone
  /\ Target(text, port) # NoTarget
  /\ check' = [target |-> [host |-> text, port |-> port], default |-> default]
  /\ given' = {Now(Target(text, port))}
  /\ edits' = "none"
  /\ answer' = NoAnswer
  /\ UNCHANGED <<default, rows>>

Ask(text, port) ==
  /\ check = Idle /\ default # Gone
  /\ Target(text, port) # NoTarget
  /\ check' = [target |-> Target(text, port), default |-> default]
  /\ given' = {Now(Target(text, port))}
  /\ edits' = "none"
  /\ answer' = NoAnswer
  /\ UNCHANGED <<default, rows>>

(* require_profile: an error instead of an answer. *)
AskInVain ==
  /\ check = Idle /\ default = Gone
  /\ answer' = NoAnswer
  /\ UNCHANGED <<default, rows, check, given, edits>>

Answer ==
  /\ check # Idle
  /\ answer' = Evaluate(check.default, rows, check.target)
  /\ check' = Idle
  /\ given' = {}
  /\ edits' = "none"
  /\ UNCHANGED <<default, rows>>

Next ==
  \/ \E action \in Action : SetDefault(action)
  \/ \E rule \in Rule, action \in Action, x \in RuleInput : AddRule(rule, action, x)
  \/ \E old \in rows, action \in Action, x \in RuleInput : UpdateRule(old, action, x)
  \/ \E old \in rows : DeleteRule(old)
  \/ \E place \in Orders : ReorderRules(place)
  \/ DeleteProfile
  \/ \E x \in CheckInput : Ask(x.text, x.port)
  \/ AskInVain
  \/ Answer

Spec == Init /\ [][Next]_vars

-----------------------------------------------------------------------------
(* A rule that is stored is not void: some port satisfies it. *)
TypeOK ==
  /\ default \in Action \cup {Gone}
  /\ \A row \in rows : /\ row.rule \in Rule /\ row.position \in Position
                        /\ row.action \in Action
                        /\ row.host.kind \in {"exact", "subdomains"}
                        /\ row.port.kind \in {"any", "exactly", "range"}
                        /\ \E p \in Port : MatchesPort(row.port, p)
  /\ check.default \in Action
  /\ answer.by \in Rule \cup {"default", "none"}
  /\ edits \in {"none", "default", "default then rules", "deleted"}

Hosts == {NormalizeHost(t) : t \in Text} \ {NoHost}

FinalForms == \A host \in Hosts : NormalizeHost(host) = host

Spellings ==
  \A t \in Text :
    LET host == NormalizeHost(t)
    IN  host # NoHost =>
          /\ NormalizeHost(Lowered(t)) = host
          /\ NormalizeHost(<<" ">> \o t \o <<" ">>) = host
          /\ ~StartsWith(host, "[") => NormalizeHost(host \o <<".">>) = host

(* Capitals, the final dot of a fully qualified name and spaces around it  *)
(* make no difference to which host a text is: a rule and a target that    *)
(* differ in these alone meet.  (An address may still have several forms:  *)
(* octets are read as u8::from_str reads them and kept as written, and so  *)
(* is an IPv6 literal; see the README.)  And the form that is stored is    *)
(* read back as it was written, never refused by RawRule::into_rule.       *)
WrittenFormsAgree ==
  /\ FinalForms
  /\ Spellings
  /\ \A row \in rows : NormalizeHost(row.host.value) = row.host.value

(* The labels of a host, from the top level down. *)
LabelPath(host) ==
  LET cuts == Dots(host) \cup {0}
      nth(n) == CHOOSE i \in cuts : Cardinality({j \in cuts : j > i}) = n - 1
  IN  [n \in 1 .. Cardinality(cuts) |-> LabelFrom(host, nth(n))]

Paths == [host \in Hosts |-> LabelPath(host)]

Below(host, domain) ==
  /\ Len(Paths[host]) > Len(Paths[domain])
  /\ SubSeq(Paths[host], 1, Len(Paths[domain])) = Paths[domain]

Subdomains ==
  \A domain \in {h \in Hosts : ~IsIpLiteral(h)} :
    LET matcher == Matcher("subdomains", domain)
    IN  \A host \in Hosts : MatchesHost(matcher, host) <=> Below(host, domain)

(* A subdomain rule covers exactly the hosts below its domain in the tree  *)
(* of names, whatever their depth: not the domain, not a name that merely  *)
(* ends like it; and no rule is about what is below an address.  The code  *)
(* compares bytes.                                                         *)
SubdomainsAreBelow ==
  /\ Subdomains
  /\ \A row \in rows : row.host.kind = "subdomains" => ~IsIpLiteral(row.host.value)

(* A rule that is added comes last: it decides only what was left to the   *)
(* default action, and takes no target from another rule, also after       *)
(* deletions have left gaps between positions.                             *)
AddedRuleComesLast ==
  [][\A target \in Targets :
       (/\ {row.rule : row \in rows} \subseteq {row.rule : row \in rows'}
        /\ rows \subseteq rows'
        /\ Now(target).by # "default")
       => Now(target)' = Now(target)]_vars

(* A check that is answered between edits gives an answer the policy gave  *)
(* at some moment since the question, but for two orders of edits: the     *)
(* default action was changed and then the rules, or the profile was       *)
(* deleted and its rules with it.  Then the default the check has read may *)
(* be reported for a target that no policy ever left to it.  A rule that   *)
(* is named decided.  (PolicyService::evaluate, two accesses.)             *)
AnswerWasInForce ==
  [][(check # Idle /\ check' = Idle) =>
       \/ answer' \in given
       \/ /\ edits \in {"default then rules", "deleted"}
          /\ answer' = [action |-> check.default, by |-> "default"]]_vars
=============================================================================
