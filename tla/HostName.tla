----------------------------- MODULE HostName -----------------------------
(***************************************************************************)
(* Host names as the policy sees them: what a typed text is normalised to, *)
(* which texts are refused, and when a matcher of a rule covers a host     *)
(* (domain/policy/host.rs).                                                *)
(*                                                                         *)
(* A text is a sequence of characters.  The limits are parameters, so that *)
(* short texts reach them.                                                 *)
(***************************************************************************)
EXTENDS Naturals, Sequences, FiniteSets

CONSTANTS MaxHostLength,    \* 253
          MaxLabelLength,   \* 63
          OctetCount,       \* 4: parts of an IPv4 literal
          MaxOctet          \* 255

ASSUME LimitsAssumption ==
  /\ MaxHostLength \in Nat /\ MaxLabelLength \in Nat
  /\ OctetCount \in Nat \ {0, 1} /\ MaxOctet \in Nat

-----------------------------------------------------------------------------
(* Characters: a few of each class the code tells apart.  Sign stands for  *)
(* the rest of ASCII, "?" for what is not ASCII.                           *)

LowerOf == [A |-> "a", B |-> "b", G |-> "g"]
Upper == DOMAIN LowerOf
Letter == {LowerOf[c] : c \in Upper}
DigitAt == <<"0", "1", "2", "3", "4", "5", "6", "7", "8", "9">>
Digit == {DigitAt[i] : i \in DOMAIN DigitAt}
ValueOf(c) == (CHOOSE i \in DOMAIN DigitAt : DigitAt[i] = c) - 1
HexDigit == Digit \cup {"a", "b", "f"}
Sign == {"+", "_", "*"}
Ascii == Upper \cup Letter \cup Digit \cup Sign \cup {"-", ".", ":", "[", "]", " "}
Character == Ascii \cup {"?"}

Over(chars, t) == \A i \in DOMAIN t : t[i] \in chars

Lowered(t) == [i \in DOMAIN t |-> IF t[i] \in Upper THEN LowerOf[t[i]] ELSE t[i]]

StartsWith(t, c) == t # << >> /\ t[1] = c
EndsWith(t, c) == t # << >> /\ t[Len(t)] = c
DropLast(t) == SubSeq(t, 1, Len(t) - 1)

(* Spaces around a text go. *)
Trimmed(t) ==
  LET ink == {i \in DOMAIN t : t[i] # " "}
      first == CHOOSE i \in ink : \A j \in ink : i <= j
      last == CHOOSE i \in ink : \A j \in ink : i >= j
  IN  IF ink = {} THEN << >> ELSE SubSeq(t, first, last)

-----------------------------------------------------------------------------
(* Labels: what is left when a text is cut at its dots. *)

Dots(t) == {i \in DOMAIN t : t[i] = "."}

LabelFrom(t, i) ==
  LET ends == {j \in Dots(t) \cup {Len(t) + 1} : j > i}
  IN  SubSeq(t, i + 1, (CHOOSE j \in ends : \A k \in ends : j <= k) - 1)

Labels(t) == {LabelFrom(t, i) : i \in Dots(t) \cup {0}}

TopLabel(t) ==
  LET cuts == Dots(t) \cup {0}
  IN  LabelFrom(t, CHOOSE i \in cuts : \A j \in cuts : i >= j)

(* What u8::from_str reads: digits, after an optional plus. *)
Number(t) ==
  LET digits == IF StartsWith(t, "+") THEN Tail(t) ELSE t
      value[n \in 0 .. Len(digits)] ==
        IF n = 0 THEN 0 ELSE 10 * value[n - 1] + ValueOf(digits[n])
  IN  IF digits # << >> /\ Over(Digit, digits) THEN value[Len(digits)] ELSE MaxOctet + 1

IsIpv4Literal(t) ==
  /\ Cardinality(Dots(t)) + 1 = OctetCount
  /\ \A label \in Labels(t) : Number(label) <= MaxOctet

IsIpLiteral(host) == IsIpv4Literal(host) \/ StartsWith(host, "[")

ValidLabel(label) ==
  /\ label # << >>
  /\ Len(label) <= MaxLabelLength
  /\ ~StartsWith(label, "-")
  /\ ~EndsWith(label, "-")
  /\ Over(Upper \cup Letter \cup Digit \cup {"-"}, label)

ValidLabels(t) ==
  /\ \A label \in Labels(t) : ValidLabel(label)
  /\ ~Over(Digit, TopLabel(t))

-----------------------------------------------------------------------------
(* Normalisation.  A refused text yields NoHost. *)

NoHost == << >>

NormalizeDomain(t) ==
  LET bare == IF EndsWith(t, ".") THEN DropLast(t) ELSE t
  IN  IF Len(bare) > MaxHostLength THEN NoHost ELSE Lowered(bare)

NormalizeIpv6Literal(rest) ==
  LET inner == Lowered(DropLast(rest))
  IN  IF /\ EndsWith(rest, "]")
         /\ \E i \in DOMAIN inner : inner[i] = ":"
         /\ Over(HexDigit \cup {":", "."}, inner)
      THEN <<"[">> \o inner \o <<"]">> ELSE NoHost

(* Faulty: labels are validated before the trailing dot is dropped. *)
ValidateThenNormalize(input) ==
  LET t == Trimmed(input)
      domain == NormalizeDomain(t)
  IN  IF t = << >> \/ ~Over(Ascii, t) THEN NoHost
      ELSE IF StartsWith(t, "[") THEN NormalizeIpv6Literal(Tail(t))
      ELSE IF IsIpv4Literal(domain) \/ ValidLabels(t) THEN domain ELSE NoHost

NormalizeHost(input) ==
  LET t == Trimmed(input)
      domain == NormalizeDomain(t)
  IN  IF t = << >> \/ ~Over(Ascii, t) THEN NoHost
      ELSE IF StartsWith(t, "[") THEN NormalizeIpv6Literal(Tail(t))
      ELSE IF (\E i \in DOMAIN t : t[i] = ":") \/ domain = NoHost THEN NoHost
      ELSE IF IsIpv4Literal(domain) \/ ValidLabels(domain) THEN domain
      ELSE NoHost

-----------------------------------------------------------------------------
(* Matchers of rules. *)

NoMatcher == [kind |-> "none", value |-> NoHost]

Matcher(kind, text) ==
  LET host == NormalizeHost(text)
  IN  IF host = NoHost \/ (kind = "subdomains" /\ IsIpLiteral(host))
      THEN NoMatcher
      ELSE [kind |-> kind, value |-> host]

EndsWithText(t, s) ==
  Len(s) <= Len(t) /\ SubSeq(t, Len(t) - Len(s) + 1, Len(t)) = s

(* Faulty: any suffix will do, wherever it starts. *)
IsSuffixOf(host, domain) ==
  Len(host) > Len(domain) /\ EndsWithText(host, domain)

IsSubdomainOf(host, domain) ==
  /\ Len(host) > Len(domain)
  /\ EndsWithText(host, domain)
  /\ host[Len(host) - Len(domain)] = "."

MatchesHost(matcher, host) ==
  \/ matcher.kind = "exact" /\ host = matcher.value
  \/ matcher.kind = "subdomains" /\ IsSubdomainOf(host, matcher.value)
=============================================================================
