---------------------------- MODULE ServiceHost ----------------------------
(***************************************************************************)
(* What the provenance service verifies about its host: the owners and     *)
(* access lists of its directories (enterprise/provenance_service.py), who *)
(* may open its pipe and which enrolled account a caller runs under        *)
(* (provenance_pipe.py), and the retention rules of its bucket             *)
(* (provenance.py).  Rights are "read" and "write"; a registry gives each  *)
(* agent its role, "none" when it is not enrolled.                         *)
(***************************************************************************)
EXTENDS Integers, FiniteSets

CONSTANTS
  Agents,    \* agent identities that may be enrolled
  Sid,       \* the account each one is enrolled with
  Token,     \* the accounts and groups in the token of its process
  Retention  \* minimum_retention_days of the audit configuration

ASSUME HostConstants ==
  /\ Sid \in [Agents -> STRING] /\ Token \in [Agents -> SUBSET STRING]
  /\ Retention \in Nat

Service == "service"
Authorities == {"system", "administrators"}
Broad == {"everyone", "authenticated", "users"}
Prohibited == Broad \cup {"system", "local service", "network service"}

(* EnrollmentRegistry.allowed_sids.                                        *)
AllowedSids(reg) == {Sid[a] : a \in {b \in Agents : reg[b] # "none"}}

Allow(sid, rights) == [type |-> "allow", sid |-> sid, rights |-> rights]

(* What the deployment script sets: the clients read, the service writes   *)
(* below the directories of its state; what it creates there is its own.   *)
Hardened(clients) ==
  {[root |-> r, write |-> w, owner |-> IF r THEN "administrators" ELSE Service, reparse |-> FALSE,
    dacl |-> {Allow("system", {"read", "write"}),
              Allow(Service, IF w THEN {"read", "write"} ELSE {"read"})}
             \cup {Allow(c, {"read"}) : c \in clients}] : r, w \in BOOLEAN}

ServiceRights(p) ==
  UNION {e.rights : e \in {f \in p.dacl : f.type = "allow" /\ f.sid = Service}}

(* verify_service_path_acl: no reparse point, a trusted owner, no entry    *)
(* for anyone who is not enrolled, no client that writes, and all the      *)
(* rights of the service, of which none is denied.                         *)
VerifyServicePathAcl(p, clients) ==
  /\ ~p.reparse
  /\ p.owner \in Authorities \cup (IF p.root THEN {} ELSE {Service})
  /\ \A e \in p.dacl :
       \/ e.type = "deny" /\ (e.sid = Service => e.rights = {})
       \/ /\ e.type = "allow"
          /\ e.sid \in Authorities \cup {Service} \cup clients
          /\ e.sid \in Broad \cup (clients \ {Service}) => "write" \notin e.rights
  /\ (IF p.write THEN {"read", "write"} ELSE {"read"}) \subseteq ServiceRights(p)

(* verify_service_tree_acls, over every directory and file.                *)
VerifyServiceTreeAcls(tree, clients) == \A p \in tree : VerifyServicePathAcl(p, clients)

(* The checks of ProvenanceServiceRuntime.__init__.                        *)
StartAllowed(reg, tree) ==
  /\ AllowedSids(reg) \cap (Prohibited \cup {Service}) = {}
  /\ VerifyServiceTreeAcls(tree, AllowedSids(reg))

(* build_pipe_security_attributes: who may open the pipe.                  *)
PipeDacl(clients) == {Service} \cup clients

(* pipe_client_sid: the token must present exactly one enrolled account.   *)
PipeClientSid(a, clients) ==
  LET matches == Token[a] \cap clients IN IF Cardinality(matches) = 1 THEN matches ELSE {}

(* The caller runs under the account its identity is enrolled with.        *)
CallerMatches(a, reg) ==
  /\ Token[a] \cap PipeDacl(AllowedSids(reg)) # {}
  /\ PipeClientSid(a, AllowedSids(reg)) = {Sid[a]}

-----------------------------------------------------------------------------
(* A bucket as the provider describes it: whether the query succeeds,      *)
(* object lock, and the bucket-lock rules.                                 *)

(* S3ObjectLockSink.verify_retention_configuration.                        *)
S3Retention(b) == b.answers /\ b.lock

(* CloudflareR2Sink.verify_retention_configuration: an enabled rule covers *)
(* the prefix and keeps objects long enough.                               *)
R2Retention(b) ==
  /\ b.answers
  /\ \E rule \in b.rules :
       /\ rule.enabled /\ rule.covers
       /\ \/ rule.type = "Indefinite"
          \/ rule.type \in {"Age", "Date"} /\ rule.days >= Retention
=============================================================================
