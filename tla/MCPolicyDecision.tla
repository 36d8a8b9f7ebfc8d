------------------------- MODULE MCPolicyDecision -------------------------
(* Every text of up to four characters of all classes, the longer domains  *)
(* of up to six, and some names and literals, in an address space of two   *)
(* parts up to 127.                                                        *)
EXTENDS PolicyDecision

Class == {"a", "A", "1", "-", ".", ":", "[", "]", "+", " ", "?"}
TextsOver(chars, n) == UNION {[1 .. k -> chars] : k \in 0 .. n}

MCText == TextsOver(Class, 4) \cup TextsOver({"a", "b", "."}, 6)
          \cup {<<"g", "b">>, <<"G", "B">>, <<"[", ":", ":", "1", "]">>,
                <<"1", "2", "7", ".", "1">>, <<"1", "2", "8", ".", "1">>,
                <<"1", "2", "7", ".", "0", ".">>}

Input(kind, text, ports, start, end) ==
  [kind |-> kind, text |-> text, ports |-> ports, start |-> start, end |-> end]

MCRuleInput ==
  {Input("exact", <<"A", ".", "b">>, "any", 0, 0),
   Input("exact", <<"b", ".">>, "exactly", 0, 0),
   Input("exact", <<"g", "b">>, "any", 0, 0),
   Input("subdomains", <<"b", ".">>, "range", 1, 2),
   Input("subdomains", <<"b">>, "range", 2, 1),
   Input("subdomains", <<"1", ".", "1">>, "any", 0, 0),
   Input("subdomains", <<"b">>, "exactly", 2, 0)}

MCCheckInput ==
  {[text |-> <<"a", ".", "B">>, port |-> 2], [text |-> <<"b">>, port |-> 1],
   [text |-> <<"a", ".", "b">>, port |-> 0]}
=============================================================================
