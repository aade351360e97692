----------------------------- MODULE MCRequests -----------------------------
(* Requests for TLC: a shell command with two parts, one that is partly     *)
(* covered by another's approval, one in another session, one that a rule   *)
(* denies in part, and a question.                                          *)
EXTENDS Requests

StreamTable ==
  [p1 |-> "s1", p2 |-> "s1", p3 |-> "s2", p4 |-> "s1", q1 |-> "s1"]
PatternTable ==
  [p1 |-> <<"a">>, p2 |-> <<"a", "b">>, p3 |-> <<"b", "a">>, p4 |-> <<"b", "no">>]
AlwaysTable == [p1 |-> {"a"}, p2 |-> {"b"}, p3 |-> {"a", "b"}, p4 |-> {"b"}]
RuleTable == [a |-> "ask", b |-> "ask", no |-> "deny"]
=============================================================================
