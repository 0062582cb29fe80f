------------------------------ MODULE Membership ------------------------------
(***************************************************************************)
(* Who is a member of an invite network: certificates and chains of them      *)
(* (src/shared/identity.ts), revocations as the Name Service spreads them, and *)
(* the registry that acceptMembership of src/client/conversation.ts keeps.     *)
(*                                                                          *)
(* A certificate of Cert bears a valid signature of its issuer, who may sign    *)
(* anything. A network id is the hash of its genesis key, a node id that of     *)
(* its key: the keys stand for both.                                        *)
(***************************************************************************)
EXTENDS NameService, Sequences

CONSTANTS
  Right,     \* "join", "invite", ...
  Genesis,   \* the key the network id is derived from
  Cert,      \* [id, issuer, subject, rights, expires]
  MaxChain   \* MAX_CHAIN_LENGTH

ASSUME CertAssumption ==
  /\ Genesis \in Key
  /\ {"join", "invite"} \subseteq Right
  /\ \A cert \in Cert :
       /\ cert.id \in Invite /\ cert.issuer \in Key /\ cert.subject \in Key
       /\ cert.rights \subseteq Right /\ cert.expires \in Nat
  /\ MaxChain \in Nat \ {0}

VARIABLE members  \* page -> key -> the rights registered for it, none if it is not

vars == <<nsVars, members>>

-----------------------------------------------------------------------------
(* verifyCertificate: of what a holder of the key may have signed.             *)
VerifyCertificate(cert) == cert.expires > now

(* isCertRevoked: by its issuer or by the genesis key. `revoked` is the map from *)
(* invitations to who claims to have revoked them.                            *)
IsCertRevoked(cert, revoked) ==
  cert.issuer \in revoked[cert.id] \/ Genesis \in revoked[cert.id]

\* Mutant: who may invite gives what rights he likes.
Delegated_AnyRights(prev, cert) ==
  cert.issuer = prev.subject /\ "invite" \in prev.rights

(* Link i of the chain may follow link i - 1.                                   *)
Delegated(prev, cert) ==
  /\ cert.issuer = prev.subject
  /\ "invite" \in prev.rights
  /\ cert.rights \subseteq prev.rights

(* verifyInviteChain: the rights it finds the subject to have, none if the chain *)
(* is refused (an accepted one has "join" at least).                          *)
VerifyInviteChain(chain, subject, revoked) ==
  IF subject = Genesis THEN Right
  ELSE IF /\ Len(chain) \in 1..MaxChain
          /\ chain[1].issuer = Genesis
          /\ \A i \in DOMAIN chain : /\ VerifyCertificate(chain[i])
                                     /\ ~IsCertRevoked(chain[i], revoked)
                                     /\ i > 1 => Delegated(chain[i - 1], chain[i])
          /\ chain[Len(chain)].subject = subject
          /\ "join" \in chain[Len(chain)].rights
       THEN chain[Len(chain)].rights
       ELSE {}

(* What callers that pass no revocations check against: all of src/.            *)
NoneRevoked == [i \in Invite |-> {}]

(* NameServiceStore.revocations()                                            *)
Revocations(n) == [i \in Invite |-> Revokers(records[n], i)]

Chain == UNION {[1..k -> Cert] : k \in 0..(MaxChain + 1)}

(* A JOIN or HELLO of k reaches n with some chain.                             *)
AcceptMembership(n, k, chain) ==
  /\ Running(n)
  /\ VerifyInviteChain(chain, k, NoneRevoked) # {}
  /\ members' = [members EXCEPT ![n][k] = VerifyInviteChain(chain, k, NoneRevoked)]
  /\ UNCHANGED nsVars

-----------------------------------------------------------------------------
Init == NsInit /\ members = [n \in Node |-> [k \in Key |-> {}]]

Next ==
  \/ NsNext /\ UNCHANGED members
  \/ \E n \in Node : \E k \in Node \ {n} : \E chain \in Chain : AcceptMembership(n, k, chain)

Spec == Init /\ [][Next]_vars

-----------------------------------------------------------------------------
TypeOK == NsTypeOK /\ members \in [Node -> [Key -> SUBSET Right]]

(* The rights that the genesis key has handed on in at most MaxChain steps, as a *)
(* closure over the certificates in force: who holds "invite" may give others   *)
(* what he has.                                                             *)
Authority(inForce) ==
  LET holds[d \in 0..MaxChain] ==
        IF d = 0 THEN {<<Genesis, Right>>}
        ELSE {<<cert.subject, cert.rights>> :
                cert \in {c \in inForce : \E h \in holds[d - 1] :
                            h[1] = c.issuer /\ "invite" \in h[2] /\ c.rights \subseteq h[2]}} IN
  UNION {holds[d] : d \in 0..MaxChain}

InForce(revoked) == {cert \in Cert : VerifyCertificate(cert) /\ ~IsCertRevoked(cert, revoked)}

(* Some chain of certificates convinces verifyInviteChain of a key's rights     *)
(* exactly if they have come down to it from the genesis key, through holders of *)
(* the right to invite and none the larger for it, by certificates neither       *)
(* expired nor revoked by their issuer or the genesis key: with the revocations  *)
(* a page knows and with none (identity.ts:166-176, 240-243).                   *)
ChainsGrantAuthority ==
  \A revoked \in {NoneRevoked} \cup {Revocations(n) : n \in Node} :
    {<<k, VerifyInviteChain(chain, k, revoked)>> : k \in Key, chain \in Chain} \ (Key \X {{}})
      = {h \in Authority(InForce(revoked)) :
           "join" \in h[2] /\ (h[1] = Genesis => h[2] = Right)}
=============================================================================
