------------------------------ MODULE Custody ------------------------------
(***************************************************************************)
(* What Phase 4 promises of the bytes, with nothing said of names, inodes, *)
(* ledgers or logs: every object's bytes are in one place, MediaVault,     *)
(* then the vault or nowhere; a move is one indivisible step; and bytes    *)
(* are destroyed only under a verdict that condemned the object when the   *)
(* run that destroys it read the rule set.                                 *)
(***************************************************************************)
CONSTANT Objects

VARIABLES place,  \* where the bytes of each object are held
          doomed  \* the objects the current run was told to destroy

custodyVars == <<place, doomed>>

Places == {"mediavault", "vault", "nowhere"}

Init ==
  /\ place = [o \in Objects |-> "mediavault"]
  /\ doomed = {}

\* A run reads the rule set, or ends and forgets what it read.
Judge ==
  /\ doomed' \in SUBSET Objects
  /\ UNCHANGED place

Move(o) ==
  /\ place[o] = "mediavault"
  /\ place' = [place EXCEPT ![o] = "vault"]
  /\ UNCHANGED doomed

Destroy(o) ==
  /\ o \in doomed
  /\ place[o] = "mediavault"
  /\ place' = [place EXCEPT ![o] = "nowhere"]
  /\ UNCHANGED doomed

\* Somebody outside puts a copy of lost bytes where the vault keeps them.
Restore(o) ==
  /\ place[o] = "nowhere"
  /\ place' = [place EXCEPT ![o] = "vault"]
  /\ UNCHANGED doomed

Next ==
  \/ Judge
  \/ \E o \in Objects : Move(o) \/ Destroy(o) \/ Restore(o)

Spec == Init /\ [][Next]_custodyVars
=============================================================================
