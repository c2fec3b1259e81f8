----------------------------- MODULE MCAccounts -----------------------------
(* Accounts with two people, three overlapping requests and one API key.   *)
EXTENDS Accounts, TLC

CONSTANTS g1

(* One person with two addresses: the same Google subject for both.        *)
MCGoogleId == [e \in Emails |-> g1]
MCSymmetry ==
  Permutations(Tokens) \cup Permutations(Requests) \cup Permutations(Users)

(* Calls with an API key and sessions share only the account and the table *)
(* of requests: TLC explores key calls beside one session, and rotation    *)
(* without keys.  The theorems have no such bound.                         *)
KeyOrTokens ==
  (\E k \in ApiKeys : key[k].state # "unused")
    => Cardinality({t \in Tokens : token[t].state # "unused"}) <= 1
=============================================================================
