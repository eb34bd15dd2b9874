---------------------------- MODULE NumberIssuer ----------------------------
(***************************************************************************)
(* What a registry office promises: within one scope (department, document *)
(* type and year) numbers are given out as 1, 2, 3, ... , each to one      *)
(* document and never again.                                               *)
(***************************************************************************)
EXTENDS Naturals

CONSTANTS Documents, Scopes

VARIABLES given,     \* the last number given in each scope
          owner      \* the document each number was given to

issuerVars == <<given, owner>>

IssuerInit ==
  /\ given = [scope \in Scopes |-> 0]
  /\ owner = << >>

Give(scope, d) ==
  LET number == <<scope, given[scope] + 1>>
  IN  /\ given' = [given EXCEPT ![scope] = @ + 1]
      /\ owner' = [n \in DOMAIN owner \cup {number} |->
                     IF n = number THEN d ELSE owner[n]]

IssuerNext == \E scope \in Scopes, d \in Documents : Give(scope, d)

IssuerSpec == IssuerInit /\ [][IssuerNext]_issuerVars
=============================================================================
