--------------------------- MODULE CredentialMirror ---------------------------
(***************************************************************************)
(* What the translation of a cloud credential promises: the objects that   *)
(* mirror a credential in the provider's namespace exist only under the    *)
(* guard of its finalizer, the identity only on top of the secret it       *)
(* names, and a credential leaves only when nothing mirrors it.            *)
(***************************************************************************)
EXTENDS Naturals

VARIABLES
  holder,   \* the UID of the credential, 0 when there is none
  guarded,  \* it carries the finalizer
  mirror    \* what mirrors it: {}, the secret, or the secret and the identity

vars == <<holder, guarded, mirror>>

Stages == << {}, {"secret"}, {"secret", "identity"} >>

Init == holder = 1 /\ guarded = FALSE /\ mirror = {}

Guard == /\ holder # 0 /\ ~guarded
         /\ guarded' = TRUE
         /\ UNCHANGED <<holder, mirror>>

Publish == /\ guarded
           /\ \E i \in 1..2 : mirror = Stages[i] /\ mirror' = Stages[i + 1]
           /\ UNCHANGED <<holder, guarded>>

Withdraw == /\ guarded
            /\ \E i \in 1..2 : mirror = Stages[i + 1] /\ mirror' = Stages[i]
            /\ UNCHANGED <<holder, guarded>>

Unguard == /\ guarded /\ mirror = {}
           /\ guarded' = FALSE
           /\ UNCHANGED <<holder, mirror>>

Leave == /\ holder # 0 /\ ~guarded
         /\ holder' = 0
         /\ UNCHANGED <<guarded, mirror>>

\* A credential of the same name is another one.
Arrive == /\ holder = 0
          /\ holder' \in Nat \ {0}
          /\ UNCHANGED <<guarded, mirror>>

Next == Guard \/ Publish \/ Withdraw \/ Unguard \/ Leave \/ Arrive

Spec == Init /\ [][Next]_vars
=============================================================================
