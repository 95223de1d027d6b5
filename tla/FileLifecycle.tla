--------------------------- MODULE FileLifecycle ---------------------------
(***************************************************************************)
(* What the file service promises its users, without requests, caches or   *)
(* faults: a file has one holder for good and passes its phases in one     *)
(* direction; it is kept only with its bytes, which go last and once, with *)
(* no avatar left behind unless a late update has revived it; only its     *)
(* holder makes it an avatar.  An upload or a deletion may stop half way.  *)
(* FileStorage implements this specification.                              *)
(***************************************************************************)
CONSTANTS Users, Files, None

VARIABLES
  phase,    \* of a file: "unknown", "uploading", "kept", "discarded", "gone"
  holder,
  stored,   \* files whose bytes are in the store
  avatar,   \* the file a user shows, or None
  revived   \* discarded files that were made an avatar

vars == <<phase, holder, stored, avatar, revived>>

Init ==
  /\ phase = [f \in Files |-> "unknown"]
  /\ holder = [f \in Files |-> None]
  /\ stored = {}
  /\ avatar = [u \in Users |-> None]
  /\ revived = {}

Upload(u, f) ==
  /\ phase[f] = "unknown"
  /\ phase' = [phase EXCEPT ![f] = "uploading"]
  /\ holder' = [holder EXCEPT ![f] = u]
  /\ stored' = stored \cup {f}
  /\ UNCHANGED <<avatar, revived>>

Keep(f) ==
  /\ phase[f] = "uploading"
  /\ f \in stored
  /\ phase' = [phase EXCEPT ![f] = "kept"]
  /\ UNCHANGED <<holder, stored, avatar, revived>>

Discard(f) ==
  /\ phase[f] = "kept"
  /\ phase' = [phase EXCEPT ![f] = "discarded"]
  /\ UNCHANGED <<holder, stored, avatar, revived>>

Remove(f) ==
  /\ phase[f] = "discarded"
  /\ f \in revived \/ \A u \in Users : avatar[u] # f
  /\ phase' = [phase EXCEPT ![f] = "gone"]
  /\ stored' = stored \ {f}
  /\ UNCHANGED <<holder, avatar, revived>>

Show(u, f) ==
  /\ phase[f] \in {"kept", "discarded", "gone"}
  /\ holder[f] = u
  /\ avatar' = [avatar EXCEPT ![u] = f]
  /\ revived' = revived \cup ({f} \ {g \in Files : phase[g] = "kept"})
  /\ UNCHANGED <<phase, holder, stored>>

Hide(u) ==
  /\ avatar' = [avatar EXCEPT ![u] = None]
  /\ UNCHANGED <<phase, holder, stored, revived>>

Next ==
  \/ \E u \in Users, f \in Files : Upload(u, f) \/ Show(u, f)
  \/ \E f \in Files : Keep(f) \/ Discard(f) \/ Remove(f)
  \/ \E u \in Users : Hide(u)

Spec == Init /\ [][Next]_vars
=============================================================================
