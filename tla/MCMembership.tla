----------------------------- MODULE MCMembership -----------------------------
(***************************************************************************)
(* Membership and NameService for TLC: the genesis key g invited page a and   *)
(* revokes that, twice and with the versions the wrong way round, a invited    *)
(* page b, and m tries what it can.                                          *)
(***************************************************************************)
EXTENDS Membership

CONSTANTS a, b, g, m

Others ==
  {[name |-> RevocationName("a", g), author |-> g, version |-> 1, at |-> 4, ttl |-> 1,
    value |-> "revocation", sig |-> 1],
   [name |-> RevocationName("a", g), author |-> g, version |-> 0, at |-> 5, ttl |-> 2,
    value |-> "revocation", sig |-> 1],
   [name |-> RevocationName("a", g), author |-> m, version |-> 2, at |-> 4, ttl |-> 1,
    value |-> "revocation", sig |-> 1]}

Issued ==
  {[id |-> "a", issuer |-> g, subject |-> a, rights |-> {"join", "invite"}, expires |-> 5],
   [id |-> "b", issuer |-> a, subject |-> b, rights |-> {"join"}, expires |-> 3],
   [id |-> "more", issuer |-> a, subject |-> b, rights |-> {"join", "invite", "chat"},
    expires |-> 9],
   [id |-> "third", issuer |-> b, subject |-> m, rights |-> {"join"}, expires |-> 9]}
=============================================================================
