-------------------------- MODULE EvidenceAuthority --------------------------
(***************************************************************************)
(* What the output path of an evidence build promises: nothing is there    *)
(* until one builder puts a complete database there; it is never replaced, *)
(* changed or removed; a builder reports success only for the database it  *)
(* put there itself, and every other builder is refused.                   *)
(***************************************************************************)
CONSTANTS
  Builders,     \* the processes that build evidence
  NoEvidence,   \* nothing is at the output path
  Invalid       \* a file that is not a finalized database

VARIABLES
  authority,    \* the content of the database at the output path
  owner,        \* the builder that put it there, as a set of at most one
  answer        \* what each builder reported: none, done, refused, crashed

authorityVars == <<authority, owner, answer>>

AuthorityInit ==
  /\ authority = NoEvidence
  /\ owner = {}
  /\ answer = [b \in Builders |-> "none"]

Publish(b) ==
  /\ authority = NoEvidence
  /\ owner = {}
  /\ answer[b] = "none"
  /\ authority' \notin {NoEvidence, Invalid}
  /\ owner' = {b}
  /\ UNCHANGED answer

Succeed(b) ==
  /\ owner = {b}
  /\ answer[b] = "none"
  /\ answer' = [answer EXCEPT ![b] = "done"]
  /\ UNCHANGED <<authority, owner>>

RefuseBuild(b) ==
  /\ owner # {b}
  /\ answer[b] = "none"
  /\ answer' = [answer EXCEPT ![b] = "refused"]
  /\ UNCHANGED <<authority, owner>>

CrashBuild(b) ==
  /\ answer[b] = "none"
  /\ answer' = [answer EXCEPT ![b] = "crashed"]
  /\ UNCHANGED <<authority, owner>>

AuthorityNext ==
  \E b \in Builders : Publish(b) \/ Succeed(b) \/ RefuseBuild(b) \/ CrashBuild(b)

AuthoritySpec == AuthorityInit /\ [][AuthorityNext]_authorityVars
=============================================================================
