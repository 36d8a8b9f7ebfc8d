\* Two rules over three positions, and every way to write a short host.
CONSTANTS
  MaxHostLength = 5
  MaxLabelLength = 2
  OctetCount = 2
  MaxOctet = 127
  Text <- MCText
  RuleInput <- MCRuleInput
  CheckInput <- MCCheckInput
  Rule = {r1, r2}
  MaxPort = 3
  MaxPosition = 2
SPECIFICATION Spec
INVARIANTS
  TypeOK
  WrittenFormsAgree
  SubdomainsAreBelow
PROPERTIES
  AddedRuleComesLast
  AnswerWasInForce
